------------------------------- MODULE JobOutbox -------------------------------
(***************************************************************************)
(* The transactional outbox: dispatchPendingProcessingOutbox and its two   *)
(* siblings for skill runs and learning reports, which differ in names     *)
(* only.  Dispatchers (the worker's drain every five seconds, the request  *)
(* that has just committed a job) select a row, claim it with a short      *)
(* lease, look at the job, publish to pg-boss and confirm.  Each SQL       *)
(* statement or transaction is one action, and so is the call to pg-boss.  *)
(*                                                                         *)
(* The jobs themselves are seen from the outbox: what takes a message,     *)
(* hands it back, cancels a job and resumes it.  Module ProcessingJobs has *)
(* the details of that side.                                               *)
(***************************************************************************)
EXTENDS Naturals

CONSTANTS
    Rows,          \* outbox rows, numbered in the order of created_at
    Dispatchers,   \* drains that run at once; a name is its dispatchToken
    None,          \* SQL NULL, and no filter
    MaxFaults,     \* bound on faults and on resumed jobs together
    Users,         \* what users do: out of {"cancel", "resume"}
    Faults         \* out of AllFaults

(* "crash"    a dispatcher dies                                             *)
(* "stall"    a live dispatcher is slower than its 30 second lease          *)
(* "queue"    pg-boss throws, before or after it stored the message         *)
(* "database" the confirmation throws                                       *)
AllFaults == {"crash", "stall", "queue", "database"}

ASSUME RowsAssumption   == Rows \subseteq Nat
ASSUME NoneAssumption   == None \notin Dispatchers \cup Rows
ASSUME BoundsAssumption == MaxFaults \in Nat /\ Faults \subseteq AllFaults
                             /\ Users \subseteq {"cancel", "resume"}

VARIABLES
    outbox,        \* job_outbox rows
    status,        \* processing_job.status, as far as the outbox sees it
    copies,        \* messages on their way or in the hands of a handler
    disp,          \* dispatchers
    published,     \* successful publishes since the row was made or reset
    faults         \* faults and resumes so far

vars == <<outbox, status, copies, disp, published, faults>>

NewRow == [status |-> "pending", token |-> None, lease |-> "none"]
Idle   == [pc |-> "idle", only |-> None, row |-> None]

Init ==
    /\ outbox = [r \in Rows |-> NewRow]
    /\ status = [r \in Rows |-> "queued"]
    /\ copies = [r \in Rows |-> 0]
    /\ disp = [d \in Dispatchers |-> Idle]
    /\ published = [r \in Rows |-> 0]
    /\ faults = 0

Faulty(f) == f \in Faults /\ faults < MaxFaults /\ faults' = faults + 1

-------------------------------------------------------------------------------
(* dispatchPendingProcessingOutbox                                          *)

(* Mutants: an expired lease is not taken over; a live one is.              *)
DispatchablePendingOnly(r) == outbox[r].status = "pending"
DispatchableLeased(r)      == outbox[r].status \in {"pending", "dispatching"}

Dispatchable(r) ==
    \/ outbox[r].status = "pending"
    \/ outbox[r].status = "dispatching" /\ outbox[r].lease = "expired"

(* Mutant: the CASes do not compare the token.                              *)
HoldsWhoever(d, r) == outbox[r].status = "dispatching"

(* The WHERE clause of the statements that give the row up again.           *)
Holds(d, r) == outbox[r].status = "dispatching" /\ outbox[r].token = d

Row(s, t, l) == [status |-> s, token |-> t, lease |-> l]

(* Mutant: the token stays in the row.                                      *)
GaveUpKeepingToken(d, s) ==
    IF Holds(d, disp[d].row)
    THEN [outbox EXCEPT ![disp[d].row] = Row(s, d, "none")]
    ELSE outbox

GaveUp(d, s) ==
    IF Holds(d, disp[d].row)
    THEN [outbox EXCEPT ![disp[d].row] = Row(s, None, "none")]
    ELSE outbox

GoTo(d, pc) == disp' = [disp EXCEPT ![d] = [@ EXCEPT !.pc = pc]]

(* The next iteration, or none when the limit is reached; a dispatch for    *)
(* one job has a limit of one.                                              *)
Iterate(d) ==
    disp' = [disp EXCEPT ![d] =
                IF @.only = None THEN [pc |-> "select", only |-> None, row |-> None] ELSE Idle]

Finish(d) == disp' = [disp EXCEPT ![d] = Idle]

Begin(d) ==
    /\ disp[d].pc = "idle"
    /\ \E only \in Rows \cup {None} :
         disp' = [disp EXCEPT ![d] = [pc |-> "select", only |-> only, row |-> None]]
    /\ UNCHANGED <<outbox, status, copies, published, faults>>

Candidates(d) == {r \in Rows : Dispatchable(r) /\ disp[d].only \in {None, r}}

Select(d) ==
    /\ disp[d].pc = "select"
    /\ \/ \E r \in Candidates(d) :
            /\ \A other \in Candidates(d) : r <= other
            /\ disp' = [disp EXCEPT ![d] = [@ EXCEPT !.pc = "claim", !.row = r]]
       \/ Candidates(d) = {} /\ Finish(d)
    /\ UNCHANGED <<outbox, status, copies, published, faults>>

ClaimRow(d) ==
    /\ disp[d].pc = "claim"
    /\ LET r == disp[d].row
       IN  \/ /\ Dispatchable(r)
              /\ outbox' = [outbox EXCEPT ![r] = Row("dispatching", d, "live")]
              /\ GoTo(d, "read")
           \/ ~Dispatchable(r) /\ Iterate(d) /\ UNCHANGED outbox
    /\ UNCHANGED <<status, copies, published, faults>>

(* Mutant: sent is written before the message is published.                 *)
ReadStatusConfirming(d) ==
    /\ disp[d].pc = "read"
    /\ GoTo(d, "confirm")
    /\ UNCHANGED <<outbox, status, copies, published, faults>>

ReadStatus(d) ==
    /\ disp[d].pc = "read"
    /\ GoTo(d, IF status[disp[d].row] = "queued" THEN "publish" ELSE "discard")
    /\ UNCHANGED <<outbox, status, copies, published, faults>>

Discard(d) ==
    /\ disp[d].pc = "discard"
    /\ outbox' = GaveUp(d, "discarded")
    /\ Iterate(d)
    /\ UNCHANGED <<status, copies, published, faults>>

Sends(r) ==
    /\ copies' = [copies EXCEPT ![r] = @ + 1]
    /\ published' = [published EXCEPT ![r] = @ + 1]

Publish(d) ==
    /\ disp[d].pc = "publish"
    /\ Sends(disp[d].row)
    /\ GoTo(d, "confirm")
    /\ UNCHANGED <<outbox, status, faults>>

(* pg-boss throws; whether the message was stored is not known.             *)
PublishThrows(d) ==
    /\ disp[d].pc = "publish"
    /\ Faulty("queue")
    /\ Sends(disp[d].row) \/ UNCHANGED <<copies, published>>
    /\ GoTo(d, "fail")
    /\ UNCHANGED <<outbox, status>>

(* The row and, in the same transaction, the job's queueJobId.              *)
Confirm(d) ==
    /\ disp[d].pc = "confirm"
    /\ outbox' = GaveUp(d, "sent")
    /\ Iterate(d)
    /\ UNCHANGED <<status, copies, published, faults>>

ConfirmThrows(d) ==
    /\ disp[d].pc = "confirm"
    /\ Faulty("database")
    /\ GoTo(d, "fail")
    /\ UNCHANGED <<outbox, status, copies, published>>

(* The catch block, which ends the whole drain.                             *)
Fail(d) ==
    /\ disp[d].pc = "fail"
    /\ outbox' = GaveUp(d, "pending")
    /\ Finish(d)
    /\ UNCHANGED <<status, copies, published, faults>>

Crash(d) ==
    /\ disp[d].pc # "idle"
    /\ Faulty("crash")
    /\ Finish(d)
    /\ UNCHANGED <<outbox, status, copies, published>>

Works(d, r) == disp[d].row = r /\ disp[d].pc \in {"read", "discard", "publish", "confirm", "fail"}

(* Thirty seconds pass; without a stall only for a dispatcher that is gone. *)
LeaseExpires(r) ==
    /\ outbox[r].lease = "live"
    /\ \/ UNCHANGED faults /\ ~\E d \in Dispatchers : outbox[r].token = d /\ Works(d, r)
       \/ Faulty("stall")
    /\ outbox' = [outbox EXCEPT ![r] = [@ EXCEPT !.lease = "expired"]]
    /\ UNCHANGED <<status, copies, disp, published>>

-------------------------------------------------------------------------------
(* The job behind the row.                                                  *)

JobTaken(r) ==
    /\ status[r] = "queued" /\ copies[r] > 0
    /\ status' = [status EXCEPT ![r] = "taken"]
    /\ UNCHANGED <<outbox, copies, disp, published, faults>>

(* Completed, failed for good or cancelled; the message is acknowledged.    *)
JobSettled(r) ==
    /\ status[r] = "taken"
    /\ \E s \in {"settled", "cancelled"} : status' = [status EXCEPT ![r] = s]
    /\ copies' = [copies EXCEPT ![r] = @ - 1]
    /\ UNCHANGED <<outbox, disp, published, faults>>

(* markProcessingFailed queues it again and the message is redelivered.     *)
JobRequeued(r) ==
    /\ status[r] = "taken"
    /\ status' = [status EXCEPT ![r] = "queued"]
    /\ UNCHANGED <<outbox, copies, disp, published, faults>>

(* A further message finds nothing to claim and is acknowledged.            *)
MessageDropped(r) ==
    /\ status[r] # "queued"
    /\ copies[r] > IF status[r] = "taken" THEN 1 ELSE 0
    /\ copies' = [copies EXCEPT ![r] = @ - 1]
    /\ UNCHANGED <<outbox, status, disp, published, faults>>

JobCancelled(r) ==
    /\ "cancel" \in Users
    /\ status[r] = "queued"
    /\ status' = [status EXCEPT ![r] = "cancelled"]
    /\ UNCHANGED <<outbox, copies, disp, published, faults>>

(* Mutant: resume queues the job and leaves the row as it is.               *)
JobResumedOnly(r) ==
    /\ "resume" \in Users
    /\ status[r] = "cancelled" /\ faults < MaxFaults
    /\ status' = [status EXCEPT ![r] = "queued"]
    /\ published' = [published EXCEPT ![r] = 0]
    /\ faults' = faults + 1
    /\ UNCHANGED <<outbox, copies, disp>>

(* resumeProcessingJob when pg-boss had no message to resume: the job is    *)
(* queued and the row upserted in one transaction.                          *)
JobResumed(r) ==
    /\ "resume" \in Users
    /\ status[r] = "cancelled" /\ faults < MaxFaults
    /\ status' = [status EXCEPT ![r] = "queued"]
    /\ outbox' = [outbox EXCEPT ![r] = NewRow]
    /\ published' = [published EXCEPT ![r] = 0]
    /\ faults' = faults + 1
    /\ UNCHANGED <<copies, disp>>

-------------------------------------------------------------------------------
Dispatch(d) ==
    \/ Select(d) \/ ClaimRow(d) \/ ReadStatus(d) \/ Discard(d)
    \/ Publish(d) \/ Confirm(d) \/ Fail(d)

DispatcherStep(d) ==
    Begin(d) \/ Dispatch(d) \/ PublishThrows(d) \/ ConfirmThrows(d) \/ Crash(d)

JobStep(r) ==
    \/ JobTaken(r) \/ JobSettled(r) \/ JobRequeued(r) \/ MessageDropped(r)
    \/ JobCancelled(r) \/ JobResumed(r)

Next ==
    \/ \E d \in Dispatchers : DispatcherStep(d)
    \/ \E r \in Rows : JobStep(r) \/ LeaseExpires(r)

Spec == Init /\ [][Next]_vars

(* The drain for all rows that the worker's timer starts.                   *)
DrainBegins(d) ==
    /\ disp[d].pc = "idle"
    /\ disp' = [disp EXCEPT ![d] = [pc |-> "select", only |-> None, row |-> None]]
    /\ UNCHANGED <<outbox, status, copies, published, faults>>

(* The timer fires every five seconds, however often requests dispatch rows *)
(* of their own in between; a drain that runs goes on, leases of the dead   *)
(* run out and pg-boss delivers.                                            *)
Fairness ==
    /\ \A d \in Dispatchers : WF_vars(Dispatch(d)) /\ SF_vars(DrainBegins(d))
    /\ \A r \in Rows : /\ WF_vars(LeaseExpires(r) /\ UNCHANGED faults)
                       /\ WF_vars(JobTaken(r))

FairSpec == Spec /\ Fairness

-------------------------------------------------------------------------------
(* Properties.                                                              *)

RowState  == [status : {"pending", "dispatching", "sent", "discarded"},
              token : Dispatchers \cup {None}, lease : {"none", "live", "expired"}]
DispState == [pc : {"idle", "select", "claim", "read", "discard", "publish", "confirm", "fail"},
              only : Rows \cup {None}, row : Rows \cup {None}]

(* Every variable keeps to its type.                                        *)
TypeOK ==
    /\ outbox \in [Rows -> RowState]
    /\ status \in [Rows -> {"queued", "taken", "settled", "cancelled"}]
    /\ copies \in [Rows -> Nat]
    /\ disp \in [Dispatchers -> DispState]
    /\ \A d \in Dispatchers : disp[d].pc \notin {"idle", "select"} => disp[d].row \in Rows
    /\ published \in [Rows -> Nat]
    /\ faults \in 0 .. MaxFaults

(* A row has a token and a lease exactly while it is being dispatched: a    *)
(* dispatching row without a lease would never be taken over, a token left  *)
(* behind would let a late statement through.                               *)
DispatchConsistent ==
    \A r \in Rows :
        /\ outbox[r].status = "dispatching" <=> outbox[r].token # None
        /\ outbox[r].status = "dispatching" <=> outbox[r].lease # "none"

(* The job waits with a message on its way, or does not wait.               *)
Covered(r) == status[r] = "queued" => copies[r] > 0

(* A row is given up only for a job that has its message, and a dispatcher  *)
(* about to give up a row it still holds knows that.                        *)
GivenUpCovered ==
    /\ \A r \in Rows : outbox[r].status \in {"sent", "discarded"} => Covered(r)
    /\ \A d \in Dispatchers :
         disp[d].pc \in {"discard", "confirm"} /\ Holds(d, disp[d].row)
            => Covered(disp[d].row)
    /\ \A r \in Rows : status[r] = "taken" => copies[r] > 0

Open(r) == outbox[r].status \in {"pending", "dispatching"}

(* A queued job is never lost between the outbox and the queue: its row is  *)
(* open or a message is on its way, whatever dispatchers, takeovers, crashes *)
(* and resumes interleave.                                                  *)
NoLostIntent == \A r \in Rows : status[r] = "queued" => Open(r) \/ copies[r] > 0

(* What the outbox promises at any moment: a row names a dispatcher exactly *)
(* while it has one, it is given up only for a job that has its message, and *)
(* no queued job is lost between the two.                                   *)
DeliverySafe == DispatchConsistent /\ GivenUpCovered /\ NoLostIntent

(* Dispatchers that drain at once publish a row once; every further publish *)
(* costs a death, a stall, a failed call or a resume.                       *)
OncePerFault == \A r \in Rows : published[r] <= 1 + faults

Intent == INSTANCE DeliveryIntent WITH owed <- [r \in Rows |-> Open(r)]

(* The outbox implements the delivery at least once that DeliveryIntent     *)
(* states: a row is closed only when a message is there or nobody waits.    *)
IntentKept == Intent!Spec

(* ... and under the fairness of its dispatchers the delivery that is due   *)
(* is made.                                                                 *)
IntentLive == Intent!FairSpec

===============================================================================
