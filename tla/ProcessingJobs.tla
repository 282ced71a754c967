---------------------------- MODULE ProcessingJobs ----------------------------
(***************************************************************************)
(* The processing jobs of ONE resource version: the rows of processing_job *)
(* and job_outbox, the pg-boss messages that deliver them, the worker      *)
(* handlers that execute them, the web requests that cancel, resume and    *)
(* retry them, and the recovery a worker runs when it starts.              *)
(*                                                                         *)
(* Every SQL statement (or transaction, when nothing outside it can see    *)
(* its parts) is one action; a handler or request is the chain of actions  *)
(* its program counter walks.  The database runs at READ COMMITTED, so a   *)
(* value read by one action may be stale when the next one writes.         *)
(***************************************************************************)
EXTENDS Naturals, Sequences

CONSTANTS
    Jobs,          \* identities of processing_job rows, used or not yet used
    FirstJob,      \* the job created together with the resource version
    Execs,         \* handler slots; a slot's name is its execution token
    Recovery,      \* the token of the recovery a starting worker runs
    Messages,      \* identities of pg-boss messages, sent or not yet sent
    Requests,      \* web request slots
    None,          \* SQL NULL
    RetryLimit,    \* retryLimit given to pg-boss on send (3 in the code)
    MaxFaults,     \* bound on the faults that are counted
    Ops,           \* the requests users make, out of AllOps
    Faults         \* what may go wrong, out of AllFaults

AllOps == {"cancel", "resume", "retry"}

(* "crash"     a handler dies with its process                               *)
(* "error"     parsing, the quota, the disk or the wiki compiler throws      *)
(* "stall"     a live handler's heartbeats come too late, its lease expires  *)
(* "heartbeat" a heartbeat meets a database error and sets leaseLost         *)
(* "timeout"   a message expires under a live handler, which is aborted      *)
(* "queue"     pg-boss cannot be reached                                     *)
(* "relapse"   a worker dies before its recovery is done                     *)
(* The two others are not counted:                                           *)
(* "restart"   a worker starts and runs the recovery                         *)
(* "overlap"   ... while another worker is executing handlers                *)
AllFaults == {"crash", "error", "stall", "heartbeat", "timeout", "queue", "relapse",
              "restart", "overlap"}

ASSUME JobsAssumption    == FirstJob \in Jobs
ASSUME TokensAssumption  == Recovery \notin Execs /\ None \notin Execs \cup {Recovery}
ASSUME MessageAssumption == None \notin Messages \cup Jobs
ASSUME LimitAssumption   == RetryLimit \in Nat /\ MaxFaults \in Nat
ASSUME ScopeAssumption   == Ops \subseteq AllOps /\ Faults \subseteq AllFaults

VARIABLES
    job,       \* processing_job and job_outbox rows
    resource,  \* resources.status of the resource the version belongs to
    msg,       \* pg-boss messages
    exec,      \* handlers
    req,       \* web requests
    rec,       \* the recovery of a starting worker
    compiled,  \* compiled/<version> exists on disk
    wiki,      \* the wiki holds the version's pages
    faults     \* faults so far

vars == <<job, resource, msg, exec, req, rec, compiled, wiki, faults>>

JobStatus      == {"absent", "queued", "processing", "cancel_requested",
                   "cancelled", "completed", "failed"}
Runnable       == {"queued", "processing"}
Active         == Runnable \cup {"cancel_requested"}
ResourceStatus == {"queued", "processing", "ready", "failed", "cancelled"}
MsgState       == {"unsent", "ready", "active", "completed", "cancelled", "failed"}
Tokens         == Execs \cup {Recovery, None}

(* Mutant: the job is completed before the wiki is compiled.                *)
StepsCompletingEarly ==
    <<"check", "refresh", "parse", "stage", "guard", "remove", "rename",
      "stage", "check", "refresh", "check", "refresh", "complete", "compile">>

(* What processResource does between its claim and its completion.  "check" *)
(* is throwIfCancelled, "refresh" and "stage" are the lease CASes, "guard"  *)
(* is the last lease check before compiled output is published by "remove"  *)
(* and "rename".                                                            *)
Steps == <<"check", "refresh", "parse", "stage", "guard", "remove", "rename",
           "stage", "check", "refresh", "check", "refresh", "compile",
           "check", "refresh", "check", "refresh", "complete">>

NoJob  == [status |-> "absent", token |-> None, lease |-> "none",
           queueId |-> None, outbox |-> "none"]
NewJob == [NoJob EXCEPT !.status = "queued", !.outbox = "pending"]
NoMsg  == [state |-> "unsent", job |-> None, tries |-> 0]
NoExec == [pc |-> "idle", at |-> 1, job |-> None, msg |-> None, tries |-> 0,
           aborted |-> FALSE, lost |-> FALSE]
NoReq  == [pc |-> "idle", job |-> None, msg |-> None, seen |-> FALSE]
NoRec  == [pc |-> "idle", job |-> None, msg |-> None]

Init ==
    /\ job = [j \in Jobs |-> IF j = FirstJob THEN NewJob ELSE NoJob]
    /\ resource = "queued"
    /\ msg = [m \in Messages |-> NoMsg]
    /\ exec = [e \in Execs |-> NoExec]
    /\ req = [r \in Requests |-> NoReq]
    /\ rec = NoRec
    /\ compiled = FALSE
    /\ wiki = FALSE
    /\ faults = 0

Faulty(f) == f \in Faults /\ faults < MaxFaults /\ faults' = faults + 1

-------------------------------------------------------------------------------
(* The execution lease: processing-execution-lease.ts.                      *)

(* Mutants: a claim that takes over what a cancellation left behind, and no *)
(* second UPDATE at all.                                                    *)
ClaimableStaleCancelling(j)  == /\ job[j].status \in {"processing", "cancel_requested"}
                                /\ job[j].lease = "expired"
ClaimableNeverStale(j)       == FALSE

Claimable(j)      == job[j].status = "queued"
ClaimableStale(j) == job[j].status = "processing" /\ job[j].lease = "expired"

(* The WHERE clause of refresh, stage, completion and failure.              *)
Owns(t, j) == /\ job[j].status = "processing"
              /\ job[j].token = t
              /\ job[j].lease = "live"

Claimed(j, t) ==
    [job EXCEPT ![j] = [@ EXCEPT !.status = "processing", !.token = t, !.lease = "live"]]

(* Mutant: the lease is forgotten when the token is cleared.                *)
ReleasedKeepingLease(j, s) == [job EXCEPT ![j].status = s, ![j].token = None]

(* A row that leaves its owner: token and lease become NULL.                *)
Released(j, s) ==
    [job EXCEPT ![j] = [@ EXCEPT !.status = s, !.token = None, !.lease = "none"]]

(* Somebody alive still acts under the token in the row.  A slot that is    *)
(* used again before it claims does not: its old incarnation wrote it.      *)
HolderAlive(j) ==
    \/ \E e \in Execs : /\ job[j].token = e
                        /\ exec[e].job = j
                        /\ exec[e].pc \in {"own", "work", "cancel", "fail"}
    \/ job[j].token = Recovery /\ rec.job = j /\ rec.pc \in {"publish", "release"}

(* A heartbeat renews the lease of a live owner in time, unless it stalls;  *)
(* it renews nothing once the job is no longer processing.                  *)
LeaseExpires(j) ==
    /\ job[j].lease = "live"
    /\ IF job[j].status = "processing" /\ HolderAlive(j) THEN Faulty("stall") ELSE UNCHANGED faults
    /\ job' = [job EXCEPT ![j].lease = "expired"]
    /\ UNCHANGED <<resource, msg, exec, req, rec, compiled, wiki>>

-------------------------------------------------------------------------------
(* pg-boss, as src/ relies on it: a fetched message is redelivered when its *)
(* handler throws or is not done in expireInSeconds, RetryLimit times.      *)

Sent(m, j) == [msg EXCEPT ![m] = [state |-> "ready", job |-> j, tries |-> 0]]

Redelivered(m) ==
    IF msg[m].state # "active" THEN msg
    ELSE IF msg[m].tries < RetryLimit
         THEN [msg EXCEPT ![m] = [@ EXCEPT !.state = "ready", !.tries = msg[m].tries + 1]]
         ELSE [msg EXCEPT ![m].state = "failed"]

(* The message a job names, if any, is in one of these states.              *)
IsIn(m, states) == m # None /\ msg[m].state \in states

Acknowledged(m) ==
    IF msg[m].state = "active" THEN [msg EXCEPT ![m].state = "completed"] ELSE msg

(* The message of a handler that died expires.  Its 900 seconds outlast the *)
(* 120 seconds of the execution lease the handler held.                     *)
MessageExpires(m) ==
    /\ msg[m].state = "active"
    /\ \A e \in Execs : exec[e].pc # "idle" => exec[e].msg # m
    /\ job[msg[m].job].lease = "live" => HolderAlive(msg[m].job)
    /\ msg' = Redelivered(m)
    /\ UNCHANGED <<job, resource, exec, req, rec, compiled, wiki, faults>>

-------------------------------------------------------------------------------
(* The outbox: job-outbox.ts with its dispatch leases abstracted.           *)

(* The dispatcher claims a pending row and reads the job.                   *)
OutboxClaim(j) ==
    /\ job[j].outbox = "pending"
    /\ job' = [job EXCEPT ![j].outbox =
                   IF job[j].status = "queued" THEN "dispatching" ELSE "discarded"]
    /\ UNCHANGED <<resource, msg, exec, req, rec, compiled, wiki, faults>>

(* Mutant: the row is confirmed although nothing was published.             *)
OutboxConfirmsUnpublished(j) ==
    /\ job[j].outbox = "dispatching"
    /\ job' = [job EXCEPT ![j].outbox = "sent"]
    /\ UNCHANGED <<resource, msg, exec, req, rec, compiled, wiki, faults>>

(* It publishes; the confirmation may be lost, the row is then taken again. *)
OutboxPublish(j) ==
    /\ job[j].outbox = "dispatching"
    /\ \E m \in Messages :
         /\ msg[m].state = "unsent"
         /\ msg' = Sent(m, j)
         /\ \/ job' = [job EXCEPT ![j].outbox = "sent", ![j].queueId = m] /\ UNCHANGED faults
            \/ job' = [job EXCEPT ![j].outbox = "pending"] /\ Faulty("queue")
    /\ UNCHANGED <<resource, exec, req, rec, compiled, wiki>>

(* The publish fails, or the dispatcher dies before it.                     *)
OutboxFails(j) ==
    /\ job[j].outbox = "dispatching" /\ Faulty("queue")
    /\ job' = [job EXCEPT ![j].outbox = "pending"]
    /\ UNCHANGED <<resource, msg, exec, req, rec, compiled, wiki>>

-------------------------------------------------------------------------------
(* The worker's handler: processResource and what it calls.                 *)

Go(e, pc)     == exec' = [exec EXCEPT ![e].pc = pc]
Advance(e)    == exec' = [exec EXCEPT ![e].at = @ + 1]
At(e, step)   == exec[e].pc = "work" /\ Steps[exec[e].at] = step
Cancelling(j) == job[j].status \in {"cancel_requested", "cancelled"}

Fetch(e, m) ==
    /\ exec[e].pc = "idle"
    /\ msg[m].state = "ready"
    /\ rec.pc = "idle" \/ "overlap" \in Faults
    /\ msg' = [msg EXCEPT ![m].state = "active"]
    /\ exec' = [exec EXCEPT ![e] = [NoExec EXCEPT !.pc = "read", !.msg = m,
                                        !.job = msg[m].job, !.tries = msg[m].tries]]
    /\ UNCHANGED <<job, resource, req, rec, compiled, wiki, faults>>

ReadJob(e) ==
    /\ exec[e].pc = "read"
    /\ Go(e, IF Cancelling(exec[e].job) THEN "cancel" ELSE "claim")
    /\ UNCHANGED <<job, resource, msg, req, rec, compiled, wiki, faults>>

(* The first UPDATE of claimProcessingExecution.                            *)
Claim(e) ==
    /\ exec[e].pc = "claim"
    /\ \/ /\ Claimable(exec[e].job)
          /\ job' = Claimed(exec[e].job, e)
          /\ Go(e, "own")
       \/ /\ ~Claimable(exec[e].job)
          /\ Go(e, "claimStale")
          /\ UNCHANGED job
    /\ UNCHANGED <<resource, msg, req, rec, compiled, wiki, faults>>

(* The second: an expired processing row.  A refused claim ends the handler *)
(* normally, so that the message is acknowledged.                           *)
ClaimStale(e) ==
    /\ exec[e].pc = "claimStale"
    /\ \/ /\ ClaimableStale(exec[e].job)
          /\ job' = Claimed(exec[e].job, e)
          /\ Go(e, "own")
       \/ /\ ~ClaimableStale(exec[e].job)
          /\ Go(e, "return")
          /\ UNCHANGED job
    /\ UNCHANGED <<resource, msg, req, rec, compiled, wiki, faults>>

OwnResource(e) ==
    /\ exec[e].pc = "own"
    /\ resource' = "processing"
    /\ Go(e, "work")
    /\ UNCHANGED <<job, msg, req, rec, compiled, wiki, faults>>

CheckCancelled(e) ==
    /\ At(e, "check")
    /\ IF exec[e].aborted \/ Cancelling(exec[e].job) THEN Go(e, "cancel") ELSE Advance(e)
    /\ UNCHANGED <<job, resource, msg, req, rec, compiled, wiki, faults>>

(* The lease CASes on the way; a lost lease ends the handler normally.      *)
(* leaseLost is also set by heartbeats that find the row taken, but then    *)
(* the CAS fails as well, so only the heartbeat's own errors are modelled.  *)
Refresh(e) ==
    /\ At(e, "refresh") \/ At(e, "guard")
    /\ IF Owns(e, exec[e].job) /\ ~exec[e].lost THEN Advance(e) ELSE Go(e, "return")
    /\ UNCHANGED <<job, resource, msg, req, rec, compiled, wiki, faults>>

EnterStage(e) ==
    /\ At(e, "stage")
    /\ IF Owns(e, exec[e].job) THEN Advance(e) ELSE Go(e, "return")
    /\ UNCHANGED <<job, resource, msg, req, rec, compiled, wiki, faults>>

Parse(e) ==
    /\ At(e, "parse")
    /\ Advance(e)
    /\ UNCHANGED <<job, resource, msg, req, rec, compiled, wiki, faults>>

RemoveCompiled(e) ==
    /\ At(e, "remove")
    /\ compiled' = FALSE
    /\ Advance(e)
    /\ UNCHANGED <<job, resource, msg, req, rec, wiki, faults>>

(* rename(2) refuses to replace a directory another handler just put there. *)
RenameCompiled(e) ==
    /\ At(e, "rename")
    /\ compiled' = TRUE
    /\ IF compiled THEN Go(e, "fail") ELSE Advance(e)
    /\ UNCHANGED <<job, resource, msg, req, rec, wiki, faults>>

CompileWiki(e) ==
    /\ At(e, "compile")
    /\ wiki' = TRUE
    /\ Advance(e)
    /\ UNCHANGED <<job, resource, msg, req, rec, compiled, faults>>

(* A step throws; an aborted subprocess throws AbortError.                  *)
StepThrows(e) ==
    /\ \E s \in {"parse", "guard", "remove", "rename", "compile"} : At(e, s)
    /\ \/ Faulty("error") /\ Go(e, "fail")
       \/ exec[e].aborted /\ At(e, "parse") /\ Go(e, "cancel") /\ UNCHANGED faults
    /\ UNCHANGED <<job, resource, msg, req, rec, compiled, wiki>>

(* Mutant: the second UPDATE of the transaction is missing.                 *)
MarkCompletedJobOnly(e) ==
    /\ At(e, "complete")
    /\ job' = IF Owns(e, exec[e].job) THEN Released(exec[e].job, "completed") ELSE job
    /\ Go(e, "return")
    /\ UNCHANGED <<resource, msg, req, rec, compiled, wiki, faults>>

MarkCompleted(e) ==
    /\ At(e, "complete")
    /\ \/ /\ Owns(e, exec[e].job)
          /\ job' = Released(exec[e].job, "completed")
          /\ resource' = "ready"
       \/ ~Owns(e, exec[e].job) /\ UNCHANGED <<job, resource>>
    /\ Go(e, "return")
    /\ UNCHANGED <<msg, req, rec, compiled, wiki, faults>>

(* The UPDATE has no condition but the job's id.                            *)
MarkCancelled(e) ==
    /\ exec[e].pc = "cancel"
    /\ job' = Released(exec[e].job, "cancelled")
    /\ resource' = "cancelled"
    /\ Go(e, "return")
    /\ UNCHANGED <<msg, req, rec, compiled, wiki, faults>>

(* Whether the CAS succeeds or not, the handler throws.                     *)
MarkFailed(e) ==
    /\ exec[e].pc = "fail"
    /\ \/ /\ Owns(e, exec[e].job)
          /\ LET s == IF exec[e].tries < RetryLimit THEN "queued" ELSE "failed"
             IN  job' = Released(exec[e].job, s) /\ resource' = s
       \/ ~Owns(e, exec[e].job) /\ UNCHANGED <<job, resource>>
    /\ Go(e, "throw")
    /\ UNCHANGED <<msg, req, rec, compiled, wiki, faults>>

(* The handler's promise settles; after a timeout nobody listens to it.     *)
Return(e) ==
    /\ exec[e].pc = "return"
    /\ msg' = IF exec[e].aborted THEN msg ELSE Acknowledged(exec[e].msg)
    /\ exec' = [exec EXCEPT ![e] = NoExec]
    /\ UNCHANGED <<job, resource, req, rec, compiled, wiki, faults>>

Throw(e) ==
    /\ exec[e].pc = "throw"
    /\ msg' = IF exec[e].aborted THEN msg ELSE Redelivered(exec[e].msg)
    /\ exec' = [exec EXCEPT ![e] = NoExec]
    /\ UNCHANGED <<job, resource, req, rec, compiled, wiki, faults>>

(* A heartbeat may fail at any time; it is noticed at the next CAS only.    *)
HeartbeatFails(e) ==
    /\ \E s \in {"refresh", "guard"} : At(e, s)
    /\ ~exec[e].lost /\ Faulty("heartbeat")
    /\ exec' = [exec EXCEPT ![e].lost = TRUE]
    /\ UNCHANGED <<job, resource, msg, req, rec, compiled, wiki>>

(* expireInSeconds passes: the message is redelivered and job.signal aborts *)
(* the handler, which runs on until its next safe point.                    *)
Timeout(e) ==
    /\ exec[e].pc # "idle" /\ ~exec[e].aborted /\ Faulty("timeout")
    /\ exec' = [exec EXCEPT ![e].aborted = TRUE]
    /\ msg' = Redelivered(exec[e].msg)
    /\ UNCHANGED <<job, resource, req, rec, compiled, wiki>>

Crash(e) ==
    /\ exec[e].pc # "idle" /\ Faulty("crash")
    /\ exec' = [exec EXCEPT ![e] = NoExec]
    /\ UNCHANGED <<job, resource, msg, req, rec, compiled, wiki>>

Handler(e) ==
    \/ ReadJob(e) \/ Claim(e) \/ ClaimStale(e) \/ OwnResource(e)
    \/ CheckCancelled(e) \/ Refresh(e) \/ EnterStage(e) \/ Parse(e)
    \/ RemoveCompiled(e) \/ RenameCompiled(e) \/ CompileWiki(e)
    \/ MarkCompleted(e) \/ MarkCancelled(e) \/ MarkFailed(e)
    \/ Return(e) \/ Throw(e)

-------------------------------------------------------------------------------
(* Web requests: cancelProcessingJob, resumeProcessingJob and               *)
(* retryProcessingJob.  A refused request (409) changes nothing.            *)

Asks(r, op, j, pc) ==
    /\ op \in Ops
    /\ req[r].pc = "idle"
    /\ req' = [req EXCEPT ![r] = [pc |-> pc, job |-> j, msg |-> job[j].queueId,
                                  seen |-> job[j].status = "queued"]]
    /\ UNCHANGED <<job, resource, msg, exec, rec, compiled, wiki, faults>>

Ask(r, pc) == req' = [req EXCEPT ![r].pc = pc]
Answer(r)  == req' = [req EXCEPT ![r] = NoReq]

CancelRead(r, j) ==
    /\ job[j].status \in Runnable
    /\ Asks(r, "cancel", j, "cancelWrite")

(* The UPDATE has no condition but the job's id.                            *)
CancelWrite(r) ==
    /\ req[r].pc = "cancelWrite"
    /\ job' = [job EXCEPT ![req[r].job].status =
                   IF req[r].seen THEN "cancelled" ELSE "cancel_requested"]
    /\ resource' = IF req[r].seen THEN "cancelled" ELSE resource
    /\ Ask(r, "cancelQueue")
    /\ UNCHANGED <<msg, exec, rec, compiled, wiki, faults>>

CancelQueue(r) ==
    /\ req[r].pc = "cancelQueue"
    /\ LET m == req[r].msg
       IN  \/ /\ IsIn(m, {"ready", "active"})
              /\ \/ msg' = [msg EXCEPT ![m].state = "cancelled"] /\ UNCHANGED faults
                 \/ Faulty("queue") /\ UNCHANGED msg
           \/ ~IsIn(m, {"ready", "active"}) /\ UNCHANGED <<msg, faults>>
    /\ Answer(r)
    /\ UNCHANGED <<job, resource, exec, rec, compiled, wiki>>

ResumeRead(r, j) ==
    /\ job[j].status = "cancelled"
    /\ Asks(r, "resume", j, "resumeCheck")

ResumeCheck(r) ==
    /\ req[r].pc = "resumeCheck"
    /\ IF \E k \in Jobs : job[k].status \in Active
       THEN Answer(r) ELSE Ask(r, "resumeQueue")
    /\ UNCHANGED <<job, resource, msg, exec, rec, compiled, wiki, faults>>

(* queue.resume comes before the transaction; seen becomes "resumed".       *)
ResumeQueue(r) ==
    /\ req[r].pc = "resumeQueue"
    /\ LET m == req[r].msg
       IN  \/ /\ IsIn(m, {"cancelled"})
              /\ msg' = [msg EXCEPT ![m].state = "ready"]
              /\ req' = [req EXCEPT ![r].pc = "resumeWrite", ![r].seen = TRUE]
              /\ UNCHANGED faults
           \/ /\ IF IsIn(m, {"cancelled"}) THEN Faulty("queue") ELSE UNCHANGED faults
              /\ UNCHANGED msg
              /\ req' = [req EXCEPT ![r].pc = "resumeWrite", ![r].seen = FALSE]
    /\ UNCHANGED <<job, resource, exec, rec, compiled, wiki>>

(* The outbox row is created or reset only when the message was not there.  *)
ResumeWrite(r) ==
    /\ req[r].pc = "resumeWrite"
    /\ LET j == req[r].job
       IN  \/ /\ job[j].status = "cancelled"
              /\ job' = [job EXCEPT ![j].status = "queued",
                                    ![j].outbox = IF req[r].seen THEN @ ELSE "pending"]
              /\ resource' = "queued"
           \/ job[j].status # "cancelled" /\ UNCHANGED <<job, resource>>
    /\ Answer(r)
    /\ UNCHANGED <<msg, exec, rec, compiled, wiki, faults>>

RetryRead(r, j) ==
    /\ job[j].status = "failed"
    /\ Asks(r, "retry", j, "retryCheck")

(* Mutant: retry does not look for another job.                             *)
RetryUnchecked(r) ==
    /\ req[r].pc = "retryCheck"
    /\ Ask(r, "retryInsert")
    /\ UNCHANGED <<job, resource, msg, exec, rec, compiled, wiki, faults>>

(* A job whose cancellation is still under way does not count here.         *)
RetryCheck(r) ==
    /\ req[r].pc = "retryCheck"
    /\ IF \E k \in Jobs : job[k].status \in Runnable
       THEN Answer(r) ELSE Ask(r, "retryInsert")
    /\ UNCHANGED <<job, resource, msg, exec, rec, compiled, wiki, faults>>

RetryInsert(r) ==
    /\ req[r].pc = "retryInsert"
    /\ \E k \in Jobs : job[k].status = "absent" /\ job' = [job EXCEPT ![k] = NewJob]
    /\ resource' = "queued"
    /\ Answer(r)
    /\ UNCHANGED <<msg, exec, rec, compiled, wiki, faults>>

RequestStep(r) ==
    \/ CancelWrite(r) \/ CancelQueue(r)
    \/ ResumeCheck(r) \/ ResumeQueue(r) \/ ResumeWrite(r)
    \/ RetryCheck(r) \/ RetryInsert(r)

-------------------------------------------------------------------------------
(* recoverExpiredProcessingJobs, which a worker runs once as it starts.     *)

Recover(pc) == rec' = [rec EXCEPT !.pc = pc]

RecoverScan(j) ==
    /\ "restart" \in Faults
    /\ rec.pc = "idle"
    /\ "overlap" \in Faults \/ \A e \in Execs : exec[e].pc = "idle"
    /\ job[j].status \in {"processing", "cancel_requested"}
    /\ job[j].lease = "expired"
    /\ rec' = [pc |-> IF job[j].status = "processing" THEN "claim" ELSE "clear",
               job |-> j, msg |-> None]
    /\ UNCHANGED <<job, resource, msg, exec, req, compiled, wiki, faults>>

RecoverClear ==
    /\ rec.pc = "clear"
    /\ \/ /\ job[rec.job].status = "cancel_requested" /\ job[rec.job].lease = "expired"
          /\ job' = Released(rec.job, "cancelled")
          /\ Recover("cancelled")
       \/ /\ job[rec.job].status # "cancel_requested" \/ job[rec.job].lease # "expired"
          /\ rec' = NoRec
          /\ UNCHANGED job
    /\ UNCHANGED <<resource, msg, exec, req, compiled, wiki, faults>>

RecoverClaim ==
    /\ rec.pc = "claim"
    /\ \/ /\ ClaimableStale(rec.job)
          /\ job' = Claimed(rec.job, Recovery)
          /\ Recover("publish")
       \/ ~ClaimableStale(rec.job) /\ rec' = NoRec /\ UNCHANGED job
    /\ UNCHANGED <<resource, msg, exec, req, compiled, wiki, faults>>

RecoverPublish ==
    /\ rec.pc = "publish"
    /\ \/ \E m \in Messages :
            /\ msg[m].state = "unsent"
            /\ msg' = Sent(m, rec.job)
            /\ rec' = [rec EXCEPT !.pc = "release", !.msg = m]
            /\ UNCHANGED faults
       \/ Faulty("queue") /\ rec' = NoRec /\ UNCHANGED msg
    /\ UNCHANGED <<job, resource, exec, req, compiled, wiki>>

(* Mutant: the recovery hands the row back without looking at it again.     *)
RecoverReleaseBlindly ==
    /\ rec.pc = "release"
    /\ job' = [Released(rec.job, "queued") EXCEPT ![rec.job].queueId = rec.msg]
    /\ Recover("queued")
    /\ UNCHANGED <<resource, msg, exec, req, compiled, wiki, faults>>

(* The row is handed back whether the recovery lease is still live or not.  *)
RecoverRelease ==
    /\ rec.pc = "release"
    /\ \/ /\ job[rec.job].status = "processing" /\ job[rec.job].token = Recovery
          /\ job' = [Released(rec.job, "queued") EXCEPT ![rec.job].queueId = rec.msg]
          /\ Recover("queued")
       \/ /\ job[rec.job].status # "processing" \/ job[rec.job].token # Recovery
          /\ rec' = NoRec
          /\ UNCHANGED job
    /\ UNCHANGED <<resource, msg, exec, req, compiled, wiki, faults>>

RecoverResource ==
    /\ rec.pc \in {"cancelled", "queued"}
    /\ resource' = rec.pc
    /\ rec' = NoRec
    /\ UNCHANGED <<job, msg, exec, req, compiled, wiki, faults>>

RecoverCrash ==
    /\ rec.pc # "idle" /\ Faulty("relapse")
    /\ rec' = NoRec
    /\ UNCHANGED <<job, resource, msg, exec, req, compiled, wiki>>

RecoveryStep == \/ RecoverClear \/ RecoverClaim \/ RecoverPublish
                \/ RecoverRelease \/ RecoverResource

-------------------------------------------------------------------------------
JobEvent(j) ==
    \/ LeaseExpires(j) \/ RecoverScan(j)
    \/ OutboxClaim(j) \/ OutboxPublish(j) \/ OutboxFails(j)
    \/ \E r \in Requests : CancelRead(r, j) \/ ResumeRead(r, j) \/ RetryRead(r, j)

ExecEvent(e) ==
    \/ Handler(e) \/ StepThrows(e) \/ HeartbeatFails(e) \/ Timeout(e) \/ Crash(e)
    \/ \E m \in Messages : Fetch(e, m)

Next ==
    \/ \E j \in Jobs : JobEvent(j)
    \/ \E e \in Execs : ExecEvent(e)
    \/ \E m \in Messages : MessageExpires(m)
    \/ \E r \in Requests : RequestStep(r)
    \/ RecoveryStep \/ RecoverCrash

Spec == Init /\ [][Next]_vars

(* What the code keeps doing: drains run every 5 seconds, pg-boss polls and *)
(* expires messages, time passes, and a handler, request or recovery that   *)
(* has begun takes its next step.  Nothing makes a user ask, a fault occur  *)
(* or a worker restart.                                                     *)
Fairness ==
    /\ \A j \in Jobs : /\ WF_vars(OutboxClaim(j))
                       /\ WF_vars(OutboxPublish(j))
                       /\ WF_vars(LeaseExpires(j) /\ ~HolderAlive(j))
    /\ \A e \in Execs : /\ WF_vars(Handler(e))
                        /\ WF_vars(\E m \in Messages : Fetch(e, m))
    /\ \A m \in Messages : WF_vars(MessageExpires(m))
    /\ \A r \in Requests : WF_vars(RequestStep(r))
    /\ WF_vars(RecoveryStep)

FairSpec == Spec /\ Fairness

-------------------------------------------------------------------------------
(* Properties.                                                              *)

JobRow == [status : JobStatus, token : Tokens, lease : {"none", "live", "expired"},
           queueId : Messages \cup {None},
           outbox : {"none", "pending", "dispatching", "sent", "discarded"}]
Message == [state : MsgState, job : Jobs \cup {None}, tries : 0 .. RetryLimit]
HandlerPC == {"idle", "read", "claim", "claimStale", "own", "work", "cancel", "fail",
              "return", "throw"}
HandlerState == [pc : HandlerPC, at : 1 .. Len(Steps), job : Jobs \cup {None},
                 msg : Messages \cup {None}, tries : 0 .. RetryLimit,
                 aborted : BOOLEAN, lost : BOOLEAN]
RequestPC == {"idle", "cancelWrite", "cancelQueue", "resumeCheck", "resumeQueue",
              "resumeWrite", "retryCheck", "retryInsert"}
RequestState == [pc : RequestPC, job : Jobs \cup {None}, msg : Messages \cup {None},
                 seen : BOOLEAN]
RecoveryState == [pc : {"idle", "clear", "claim", "publish", "release", "cancelled", "queued"},
                  job : Jobs \cup {None}, msg : Messages \cup {None}]

(* Every variable keeps to its type.                                        *)
TypeOK ==
    /\ job \in [Jobs -> JobRow]
    /\ resource \in ResourceStatus
    /\ msg \in [Messages -> Message]
    /\ exec \in [Execs -> HandlerState]
    /\ req \in [Requests -> RequestState]
    /\ rec \in RecoveryState
    /\ compiled \in BOOLEAN
    /\ wiki \in BOOLEAN
    /\ faults \in 0 .. MaxFaults

(* A processing row always names an owner and a lease, or no scan and no    *)
(* stale claim would ever find it; a settled or new row names none, or a    *)
(* later claim could be mistaken for the old owner's.                       *)
LeaseConsistent ==
    \A j \in Jobs :
        /\ job[j].token = None <=> job[j].lease = "none"
        /\ job[j].status = "processing" => job[j].token # None
        /\ job[j].status \in {"absent", "failed"} => job[j].token = None

KeepsCancellation(j) ==
    /\ job[j].status = "cancel_requested" =>
           job'[j].status \in {"cancel_requested", "cancelled"}
    /\ job[j].status = "cancelled" =>
           \/ job'[j].status \in {"cancel_requested", "cancelled"}
           \/ /\ job'[j].status = "queued"
              /\ \E r \in Requests : req[r].pc = "resumeWrite" /\ req[r].job = j

(* Whatever handlers, recoveries and requests interleave, a requested       *)
(* cancellation ends in cancelled, and only resumeProcessingJob's CAS puts  *)
(* a cancelled job back in the queue.                                       *)
CancellationSticks == [][\A j \in Jobs : KeepsCancellation(j)]_vars

StaysSettled(j) ==
    job[j].status \in {"completed", "failed"} => job'[j].status \notin Runnable

(* A job that completed or failed is never queued or executed again by a    *)
(* duplicate delivery, a stale handler or the recovery.                     *)
SettledNeverReruns == [][\A j \in Jobs : StaysSettled(j)]_vars

(* Some message or outbox row will still bring the job to a handler.        *)
Deliverable(j) ==
    \/ job[j].outbox \in {"pending", "dispatching"}
    \/ \E m \in Messages :
         /\ msg[m].job = j
         /\ \/ msg[m].state = "ready"
            \/ msg[m].state = "active" /\ msg[m].tries < RetryLimit
            \/ /\ msg[m].state = "active"
               /\ \E e \in Execs : exec[e].msg = m /\ exec[e].pc \in {"read", "claim"}

(* A queued job is never stranded: its delivery is still to come.           *)
NoOrphanedJob == \A j \in Jobs : job[j].status = "queued" => Deliverable(j)

(* A completed job's output is on disk and in the wiki, even if another     *)
(* handler of the same job died while publishing.                           *)
CompletedHasOutput ==
    \A j \in Jobs : job[j].status = "completed" => compiled /\ wiki

(* A completed job leaves its resource ready, not in the state that a late  *)
(* statement of another handler of the same job wrote.                      *)
ReadyWhenCompleted ==
    \A j \in Jobs : job[j].status = "completed" => resource = "ready"

(* A completed job is what it says: its output is there and its resource is *)
(* ready, whatever a stale handler or a dying one left behind.              *)
CompletedIsUsable == CompletedHasOutput /\ ReadyWhenCompleted

(* Two jobs of one resource version are never queued or processing together.*)
(* One whose cancellation is requested is not counted, although its handler *)
(* may still be running: the code lets a retry start beside it.             *)
OneRunnableJob ==
    \A j, k \in Jobs : job[j].status \in Runnable /\ job[k].status \in Runnable => j = k

(* What the specification of cancelling and resuming says: of the jobs of   *)
(* one resource version one at most is queued, processing or being          *)
(* cancelled.                                                               *)
OneActiveJob ==
    \A j, k \in Jobs : job[j].status \in Active /\ job[k].status \in Active => j = k

(* Every job that is queued or processing is eventually settled.            *)
EventuallySettled ==
    \A j \in Jobs : job[j].status \in Runnable ~>
                       job[j].status \in {"completed", "failed", "cancelled"}

===============================================================================
