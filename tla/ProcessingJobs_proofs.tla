------------------------ MODULE ProcessingJobs_proofs ------------------------
(***************************************************************************)
(* Proofs about ProcessingJobs for every number of jobs, handlers,         *)
(* messages and requests, every retry limit and every selection of faults, *)
(* and, under the hypothesis Serial, about one handler at a time.          *)
(***************************************************************************)
EXTENDS ProcessingJobs, TLAPS

(* The initial records have their types.                                    *)
LEMMA StepsLength == Len(Steps) = 18
BY DEF Steps

LEMMA StepsSuccessor ==
    \A i \in 1 .. Len(Steps) : Steps[i] # "complete" => i + 1 \in 1 .. Len(Steps)
BY DEF Steps

LEMMA InitialRecords ==
    /\ NoJob \in JobRow /\ NewJob \in JobRow
    /\ NoMsg \in Message
    /\ NoExec \in HandlerState
    /\ NoReq \in RequestState
    /\ NoRec \in RecoveryState
<1>1. NoJob \in JobRow /\ NewJob \in JobRow
  BY DEF NoJob, NewJob, JobRow, JobStatus, Tokens
<1>2. NoMsg \in Message
  BY LimitAssumption DEF NoMsg, Message, MsgState
<1>3. NoExec \in HandlerState
  BY LimitAssumption, StepsLength DEF NoExec, HandlerState, HandlerPC
<1>4. NoReq \in RequestState /\ NoRec \in RecoveryState
  BY DEF NoReq, NoRec, RequestState, RequestPC, RecoveryState
<1> QED BY <1>1, <1>2, <1>3, <1>4

LEMMA TypeInit == Init => TypeOK
<1> SUFFICES ASSUME Init PROVE TypeOK
  OBVIOUS
<1>1. job \in [Jobs -> JobRow]
  BY InitialRecords DEF Init
<1>2. msg \in [Messages -> Message] /\ exec \in [Execs -> HandlerState]
  BY InitialRecords DEF Init
<1>3. req \in [Requests -> RequestState] /\ rec \in RecoveryState
  BY InitialRecords DEF Init
<1>4. resource \in ResourceStatus /\ faults \in 0 .. MaxFaults
  BY LimitAssumption DEF Init, ResourceStatus
<1>5. compiled \in BOOLEAN /\ wiki \in BOOLEAN
  BY DEF Init
<1> QED BY <1>1, <1>2, <1>3, <1>4, <1>5 DEF TypeOK

-------------------------------------------------------------------------------
(* What the helpers do to the tables' types.                                *)

LEMMA FaultyTyped ==
    ASSUME TypeOK, NEW f, Faulty(f)
    PROVE  faults' \in 0 .. MaxFaults
BY LimitAssumption DEF TypeOK, Faulty

LEMMA GoTyped ==
    ASSUME TypeOK, NEW e \in Execs, NEW pc \in HandlerPC, Go(e, pc)
    PROVE  exec' \in [Execs -> HandlerState]
BY ZenonT(60) DEF TypeOK, Go, HandlerState

LEMMA AdvanceTyped ==
    ASSUME TypeOK, NEW e \in Execs, exec[e].pc = "work", Steps[exec[e].at] # "complete",
           Advance(e)
    PROVE  exec' \in [Execs -> HandlerState]
<1>1. exec[e].at + 1 \in 1 .. Len(Steps)
  BY StepsSuccessor DEF TypeOK, HandlerState
<1> QED BY ZenonT(60), <1>1 DEF TypeOK, Advance, HandlerState

LEMMA ReleasedTyped ==
    ASSUME TypeOK, NEW j, NEW s \in JobStatus
    PROVE  Released(j, s) \in [Jobs -> JobRow]
<1>1. job \in [Jobs -> JobRow]
  BY DEF TypeOK
<1>2. ASSUME j \in Jobs
      PROVE  [job[j] EXCEPT !.status = s, !.token = None, !.lease = "none"] \in JobRow
  BY <1>1, <1>2 DEF JobRow, Tokens
<1> QED BY <1>1, <1>2 DEF Released

LEMMA QueueIdTyped ==
    ASSUME NEW f \in [Jobs -> JobRow], NEW j, NEW m \in Messages \cup {None}
    PROVE  [f EXCEPT ![j].queueId = m] \in [Jobs -> JobRow]
BY DEF JobRow

LEMMA ClaimedTyped ==
    ASSUME TypeOK, NEW j, NEW t \in Tokens
    PROVE  Claimed(j, t) \in [Jobs -> JobRow]
<1>1. job \in [Jobs -> JobRow]
  BY DEF TypeOK
<1>2. ASSUME j \in Jobs
      PROVE  [job[j] EXCEPT !.status = "processing", !.token = t, !.lease = "live"] \in JobRow
  BY <1>1, <1>2 DEF JobRow, JobStatus
<1> QED BY <1>1, <1>2 DEF Claimed

LEMMA RedeliveredTyped ==
    ASSUME TypeOK, NEW m
    PROVE  Redelivered(m) \in [Messages -> Message]
<1>1. msg \in [Messages -> Message]
  BY DEF TypeOK
<1>2. CASE m \notin Messages
  BY <1>1, <1>2 DEF Redelivered
<1>3. CASE m \in Messages
  <2>1. msg[m] \in Message
    BY <1>1, <1>3
  <2>2. [msg[m] EXCEPT !.state = "failed"] \in Message
    BY <2>1 DEF Message, MsgState
  <2>3. ASSUME msg[m].tries < RetryLimit
        PROVE  [msg[m] EXCEPT !.state = "ready", !.tries = msg[m].tries + 1] \in Message
    <3>1. msg[m].tries + 1 \in 0 .. RetryLimit
      BY <2>1, <2>3, LimitAssumption DEF Message
    <3> DEFINE n == msg[m].tries + 1
    <3>2. [msg[m] EXCEPT !.state = "ready", !.tries = n] \in Message
      <4> HIDE DEF n
      <4> QED BY <2>1, <3>1 DEF Message, MsgState, n
    <3> QED BY <3>2
  <2>4. CASE msg[m].state # "active"
    BY <1>1, <2>4 DEF Redelivered
  <2>5. CASE msg[m].state = "active" /\ msg[m].tries < RetryLimit
    <3> DEFINE again == [msg[m] EXCEPT !.state = "ready", !.tries = msg[m].tries + 1]
    <3>1. Redelivered(m) = [msg EXCEPT ![m] = again]
      BY <2>5 DEF Redelivered
    <3>2. again \in Message
      BY <2>3, <2>5
    <3> HIDE DEF again
    <3> QED BY <1>1, <3>1, <3>2
  <2>6. CASE msg[m].state = "active" /\ ~(msg[m].tries < RetryLimit)
    <3>1. Redelivered(m) = [msg EXCEPT ![m].state = "failed"]
      BY <2>6 DEF Redelivered
    <3> QED BY <1>1, <1>3, <2>2, <3>1
  <2> QED BY <2>4, <2>5, <2>6
<1> QED BY <1>2, <1>3

LEMMA AcknowledgedTyped ==
    ASSUME TypeOK, NEW m
    PROVE  Acknowledged(m) \in [Messages -> Message]
<1>1. msg \in [Messages -> Message]
  BY DEF TypeOK
<1> QED BY <1>1 DEF Acknowledged, Message, MsgState

LEMMA SentTyped ==
    ASSUME TypeOK, NEW m, NEW j \in Jobs \cup {None}
    PROVE  Sent(m, j) \in [Messages -> Message]
<1>1. [state |-> "ready", job |-> j, tries |-> 0] \in Message
  BY LimitAssumption DEF Message, MsgState
<1> QED BY <1>1 DEF TypeOK, Sent

LEMMA AskTyped ==
    ASSUME TypeOK, NEW r, NEW pc \in RequestPC, Ask(r, pc)
    PROVE  req' \in [Requests -> RequestState]
BY DEF TypeOK, Ask, RequestState

LEMMA AnswerTyped ==
    ASSUME TypeOK, NEW r, Answer(r)
    PROVE  req' \in [Requests -> RequestState]
BY InitialRecords DEF TypeOK, Answer

LEMMA AsksTyped ==
    ASSUME TypeOK, NEW r \in Requests, NEW op, NEW j \in Jobs, NEW pc \in RequestPC,
           Asks(r, op, j, pc)
    PROVE  TypeOK'
<1>1. [pc |-> pc, job |-> j, msg |-> job[j].queueId, seen |-> job[j].status = "queued"]
        \in RequestState
  BY DEF TypeOK, JobRow, RequestState
<1> QED BY <1>1 DEF TypeOK, Asks

-------------------------------------------------------------------------------
(* Every action keeps the types.                                            *)

LEMMA TypeStep == TypeOK /\ [Next]_vars => TypeOK'
<1> SUFFICES ASSUME TypeOK, [Next]_vars PROVE TypeOK'
  OBVIOUS
<1>1. ASSUME NEW j \in Jobs, JobEvent(j) PROVE TypeOK'
  <2>1. CASE LeaseExpires(j)
    BY <2>1, FaultyTyped DEF LeaseExpires, TypeOK, JobRow
  <2>2. CASE RecoverScan(j)
    BY <2>2 DEF RecoverScan, TypeOK, RecoveryState
  <2>3. CASE OutboxClaim(j)
    BY <2>3 DEF OutboxClaim, TypeOK, JobRow
  <2>4. CASE OutboxPublish(j)
    BY <2>4, SentTyped, FaultyTyped DEF OutboxPublish, TypeOK, JobRow
  <2>5. CASE OutboxFails(j)
    BY <2>5, FaultyTyped DEF OutboxFails, TypeOK, JobRow
  <2>6. ASSUME NEW r \in Requests, CancelRead(r, j) \/ ResumeRead(r, j) \/ RetryRead(r, j)
        PROVE  TypeOK'
    BY <2>6, AsksTyped DEF CancelRead, ResumeRead, RetryRead, RequestPC
  <2> QED BY <1>1, <2>1, <2>2, <2>3, <2>4, <2>5, <2>6 DEF JobEvent
<1>2. ASSUME NEW e \in Execs, ExecEvent(e) PROVE TypeOK'
  <2> DEFINE J == exec[e].job
  <2>1. CASE ReadJob(e)
    BY <2>1, GoTyped DEF ReadJob, TypeOK, HandlerPC
  <2>2. CASE Claim(e)
    BY <2>2, GoTyped, ClaimedTyped DEF Claim, TypeOK, HandlerPC, Tokens
  <2>3. CASE ClaimStale(e)
    BY <2>3, GoTyped, ClaimedTyped DEF ClaimStale, TypeOK, HandlerPC, Tokens
  <2>4. CASE OwnResource(e)
    BY <2>4, GoTyped DEF OwnResource, TypeOK, HandlerPC, ResourceStatus
  <2>5. CASE CheckCancelled(e)
    BY <2>5, GoTyped, AdvanceTyped DEF CheckCancelled, At, TypeOK, HandlerPC
  <2>6. CASE Refresh(e)
    BY <2>6, GoTyped, AdvanceTyped DEF Refresh, At, TypeOK, HandlerPC
  <2>7. CASE EnterStage(e)
    BY <2>7, GoTyped, AdvanceTyped DEF EnterStage, At, TypeOK, HandlerPC
  <2>8. CASE Parse(e)
    BY <2>8, AdvanceTyped DEF Parse, At, TypeOK
  <2>9. CASE RemoveCompiled(e)
    BY <2>9, AdvanceTyped DEF RemoveCompiled, At, TypeOK
  <2>10. CASE RenameCompiled(e)
    BY <2>10, GoTyped, AdvanceTyped DEF RenameCompiled, At, TypeOK, HandlerPC
  <2>11. CASE CompileWiki(e)
    BY <2>11, AdvanceTyped DEF CompileWiki, At, TypeOK
  <2>12. CASE MarkCompleted(e)
    BY <2>12, GoTyped, ReleasedTyped
       DEF MarkCompleted, TypeOK, HandlerPC, JobStatus, ResourceStatus
  <2>13. CASE MarkCancelled(e)
    BY <2>13, GoTyped, ReleasedTyped
       DEF MarkCancelled, TypeOK, HandlerPC, JobStatus, ResourceStatus
  <2>14. CASE MarkFailed(e)
    BY <2>14, GoTyped, ReleasedTyped
       DEF MarkFailed, TypeOK, HandlerPC, JobStatus, ResourceStatus
  <2>15. CASE Return(e)
    BY <2>15, AcknowledgedTyped, InitialRecords DEF Return, TypeOK
  <2>16. CASE Throw(e)
    BY <2>16, RedeliveredTyped, InitialRecords DEF Throw, TypeOK
  <2>17. CASE StepThrows(e)
    BY <2>17, GoTyped, FaultyTyped DEF StepThrows, TypeOK, HandlerPC
  <2>18. CASE HeartbeatFails(e)
    BY <2>18, FaultyTyped DEF HeartbeatFails, TypeOK, HandlerState
  <2>19. CASE Timeout(e)
    BY <2>19, RedeliveredTyped, FaultyTyped DEF Timeout, TypeOK, HandlerState
  <2>20. CASE Crash(e)
    BY <2>20, InitialRecords, FaultyTyped DEF Crash, TypeOK
  <2>21. ASSUME NEW m \in Messages, Fetch(e, m) PROVE TypeOK'
    <3>1. [NoExec EXCEPT !.pc = "read", !.msg = m, !.job = msg[m].job, !.tries = msg[m].tries]
            \in HandlerState
      BY InitialRecords DEF TypeOK, Message, HandlerState, HandlerPC
    <3>2. [msg EXCEPT ![m].state = "active"] \in [Messages -> Message]
      BY DEF TypeOK, Message, MsgState
    <3> QED BY <2>21, <3>1, <3>2 DEF Fetch, TypeOK
  <2> QED
    BY <1>2, <2>1, <2>2, <2>3, <2>4, <2>5, <2>6, <2>7, <2>8, <2>9, <2>10, <2>11, <2>12,
       <2>13, <2>14, <2>15, <2>16, <2>17, <2>18, <2>19, <2>20, <2>21 DEF ExecEvent, Handler
<1>3. ASSUME NEW m \in Messages, MessageExpires(m) PROVE TypeOK'
  BY <1>3, RedeliveredTyped DEF MessageExpires, TypeOK
<1>4. ASSUME NEW r \in Requests, RequestStep(r) PROVE TypeOK'
  <2>1. CASE CancelWrite(r)
    <3>1. job' \in [Jobs -> JobRow]
      <4> DEFINE s == IF req[r].seen THEN "cancelled" ELSE "cancel_requested"
      <4>1. s \in JobStatus
        BY DEF JobStatus
      <4>2. job' = [job EXCEPT ![req[r].job].status = s]
        BY <2>1 DEF CancelWrite
      <4> HIDE DEF s
      <4> QED BY ZenonT(60), <4>1, <4>2 DEF TypeOK, JobRow
    <3>2. req' \in [Requests -> RequestState]
      BY <2>1, AskTyped DEF CancelWrite, RequestPC
    <3> QED BY <2>1, <3>1, <3>2 DEF CancelWrite, TypeOK, ResourceStatus
  <2>2. CASE CancelQueue(r)
    <3>1. msg' \in [Messages -> Message]
      BY <2>2 DEF CancelQueue, TypeOK, Message, MsgState
    <3>2. faults' \in 0 .. MaxFaults
      BY <2>2, FaultyTyped DEF CancelQueue, TypeOK
    <3> QED BY <2>2, <3>1, <3>2, AnswerTyped DEF CancelQueue, TypeOK
  <2>3. CASE ResumeCheck(r)
    BY <2>3, AskTyped, AnswerTyped DEF ResumeCheck, TypeOK, RequestPC
  <2>4. CASE ResumeQueue(r)
    <3>1. msg' \in [Messages -> Message]
      BY <2>4 DEF ResumeQueue, TypeOK, Message, MsgState
    <3>2. req' \in [Requests -> RequestState]
      BY <2>4 DEF ResumeQueue, TypeOK, RequestState, RequestPC
    <3>3. faults' \in 0 .. MaxFaults
      BY <2>4, FaultyTyped DEF ResumeQueue, TypeOK
    <3> QED BY <2>4, <3>1, <3>2, <3>3 DEF ResumeQueue, TypeOK
  <2>5. CASE ResumeWrite(r)
    BY <2>5, AnswerTyped DEF ResumeWrite, TypeOK, JobRow, JobStatus, ResourceStatus
  <2>6. CASE RetryCheck(r)
    BY <2>6, AskTyped, AnswerTyped DEF RetryCheck, TypeOK, RequestPC
  <2>7. CASE RetryInsert(r)
    BY <2>7, AnswerTyped, InitialRecords DEF RetryInsert, TypeOK, ResourceStatus
  <2> QED BY <1>4, <2>1, <2>2, <2>3, <2>4, <2>5, <2>6, <2>7 DEF RequestStep
<1>5. ASSUME RecoveryStep \/ RecoverCrash PROVE TypeOK'
  <2>1. CASE RecoverClear
    BY <2>1, ReleasedTyped, InitialRecords
       DEF RecoverClear, Recover, TypeOK, RecoveryState, JobStatus
  <2>2. CASE RecoverClaim
    BY <2>2, ClaimedTyped, InitialRecords DEF RecoverClaim, Recover, TypeOK, RecoveryState, Tokens
  <2>3. CASE RecoverPublish
    <3>1. msg' \in [Messages -> Message]
      <4>1. rec.job \in Jobs \cup {None}
        BY DEF TypeOK, RecoveryState
      <4>2. msg \in [Messages -> Message]
        BY DEF TypeOK
      <4>3. msg' = msg \/ \E m \in Messages : msg' = Sent(m, rec.job)
        BY <2>3 DEF RecoverPublish
      <4> QED BY <4>1, <4>2, <4>3, SentTyped
    <3>2. rec' \in RecoveryState
      BY <2>3, InitialRecords DEF RecoverPublish, TypeOK, RecoveryState
    <3> QED BY <2>3, <3>1, <3>2, FaultyTyped DEF RecoverPublish, TypeOK
  <2>4. CASE RecoverRelease
    <3>1. [Released(rec.job, "queued") EXCEPT ![rec.job].queueId = rec.msg] \in [Jobs -> JobRow]
      <4>1. Released(rec.job, "queued") \in [Jobs -> JobRow]
        BY ReleasedTyped DEF JobStatus
      <4>2. rec.msg \in Messages \cup {None}
        BY DEF TypeOK, RecoveryState
      <4> QED BY <4>1, <4>2, QueueIdTyped
    <3> QED BY <2>4, <3>1, InitialRecords DEF RecoverRelease, Recover, TypeOK, RecoveryState
  <2>5. CASE RecoverResource
    BY <2>5, InitialRecords DEF RecoverResource, TypeOK, ResourceStatus
  <2>6. CASE RecoverCrash
    BY <2>6, InitialRecords, FaultyTyped DEF RecoverCrash, TypeOK
  <2> QED BY <1>5, <2>1, <2>2, <2>3, <2>4, <2>5, <2>6 DEF RecoveryStep
<1>6. CASE UNCHANGED vars
  BY <1>6 DEF vars, TypeOK
<1> QED BY <1>1, <1>2, <1>3, <1>4, <1>5, <1>6 DEF Next

(* Every variable keeps to its type in every reachable state.               *)
THEOREM TypeCorrect == Spec => []TypeOK
BY TypeInit, TypeStep, PTL DEF Spec

-------------------------------------------------------------------------------
(* What one step can do to the status, token and lease of one job.  The     *)
(* three theorems below follow from this table of moves alone.              *)

SameLease(j) == job'[j].token = job[j].token /\ job'[j].lease = job[j].lease
NoLease(j)   == job'[j].token = None /\ job'[j].lease = "none"

Rests(j)     == job'[j].status = job[j].status /\ SameLease(j)
Expires(j)   == /\ job'[j].status = job[j].status
                /\ job'[j].token = job[j].token
                /\ job[j].lease = "live" /\ job'[j].lease = "expired"
IsClaimed(j) == /\ job[j].status \in Runnable /\ job'[j].status = "processing"
                /\ job'[j].token \in Execs \cup {Recovery} /\ job'[j].lease = "live"
Settles(j)   == /\ job[j].status = "processing"
                /\ job'[j].status \in {"queued", "completed", "failed"}
                /\ NoLease(j)
Confirms(j)  == job'[j].status = "cancelled" /\ NoLease(j)
IsAsked(j)   == job'[j].status \in {"cancelled", "cancel_requested"} /\ SameLease(j)
Resumes(j)   == /\ job[j].status = "cancelled" /\ job'[j].status = "queued"
                /\ \E r \in Requests : req[r].pc = "resumeWrite" /\ req[r].job = j
                /\ SameLease(j)
Appears(j)   == job[j].status = "absent" /\ job'[j].status = "queued" /\ NoLease(j)

(* A calm move makes no job active that was not.                            *)
Calm(j) == Rests(j) \/ Expires(j) \/ IsClaimed(j) \/ Settles(j) \/ Confirms(j) \/ IsAsked(j)
Move(j) == Calm(j) \/ Resumes(j) \/ Appears(j)

Queues == \E r \in Requests : ResumeWrite(r) \/ RetryInsert(r)

LEMMA CalmUnchanged ==
    ASSUME UNCHANGED job, NEW k \in Jobs
    PROVE  Calm(k)
BY DEF Calm, Rests, SameLease

LEMMA CalmClaimed ==
    ASSUME TypeOK, NEW j, NEW t \in Execs \cup {Recovery}, job[j].status \in Runnable,
           job' = Claimed(j, t), NEW k \in Jobs
    PROVE  Calm(k)
<1>1. job \in [Jobs -> JobRow]
  BY DEF TypeOK
<1>2. CASE k = j
  BY <1>1, <1>2 DEF Claimed, JobRow, Calm, IsClaimed
<1>3. CASE k # j
  BY <1>1, <1>3 DEF Claimed, Calm, Rests, SameLease
<1> QED BY <1>2, <1>3

LEMMA CalmReleased ==
    ASSUME TypeOK, NEW j, NEW s \in {"queued", "completed", "failed", "cancelled"},
           s = "cancelled" \/ job[j].status = "processing",
           job' = Released(j, s), NEW k \in Jobs
    PROVE  Calm(k)
<1>1. job \in [Jobs -> JobRow]
  BY DEF TypeOK
<1>2. CASE k = j
  BY <1>1, <1>2 DEF Released, JobRow, Calm, Settles, Confirms, NoLease
<1>3. CASE k # j
  BY <1>1, <1>3 DEF Released, Calm, Rests, SameLease
<1> QED BY <1>2, <1>3

LEMMA StepCalm ==
    ASSUME TypeOK, [Next]_vars, ~Queues, NEW k \in Jobs
    PROVE  Calm(k)
<1> USE DEF Runnable
<1>0. job \in [Jobs -> JobRow]
  BY DEF TypeOK
<1>1. ASSUME NEW j \in Jobs, JobEvent(j) PROVE Calm(k)
  <2>1. CASE LeaseExpires(j)
    BY <1>0, <2>1 DEF LeaseExpires, JobRow, Calm, Rests, Expires, SameLease
  <2>2. CASE OutboxClaim(j) \/ OutboxPublish(j) \/ OutboxFails(j)
    <3>1. Rests(k)
      BY <1>0, <2>2 DEF OutboxClaim, OutboxPublish, OutboxFails, JobRow, Rests, SameLease
    <3> QED BY <3>1 DEF Calm
  <2>3. CASE RecoverScan(j)
    BY <2>3, CalmUnchanged DEF RecoverScan
  <2>4. ASSUME NEW r \in Requests, CancelRead(r, j) \/ ResumeRead(r, j) \/ RetryRead(r, j)
        PROVE  Calm(k)
    BY <2>4, CalmUnchanged DEF CancelRead, ResumeRead, RetryRead, Asks
  <2> QED BY <1>1, <2>1, <2>2, <2>3, <2>4 DEF JobEvent
<1>2. ASSUME NEW e \in Execs, ExecEvent(e) PROVE Calm(k)
  <2>1. CASE Claim(e) \/ ClaimStale(e)
    BY <2>1, CalmUnchanged, CalmClaimed DEF Claim, ClaimStale, Claimable, ClaimableStale
  <2>2. CASE MarkCompleted(e)
    BY <2>2, CalmUnchanged, CalmReleased DEF MarkCompleted, Owns
  <2>3. CASE MarkCancelled(e)
    BY <2>3, CalmReleased DEF MarkCancelled
  <2>4. CASE MarkFailed(e)
    BY <2>4, CalmUnchanged, CalmReleased DEF MarkFailed, Owns
  <2>5. CASE ReadJob(e) \/ OwnResource(e) \/ CheckCancelled(e) \/ Refresh(e)
             \/ EnterStage(e) \/ Parse(e) \/ RemoveCompiled(e) \/ RenameCompiled(e)
             \/ CompileWiki(e) \/ Return(e) \/ Throw(e)
    BY <2>5, CalmUnchanged
       DEF ReadJob, OwnResource, CheckCancelled, Refresh, EnterStage, Parse, RemoveCompiled,
           RenameCompiled, CompileWiki, Return, Throw
  <2>6. CASE StepThrows(e) \/ HeartbeatFails(e) \/ Timeout(e) \/ Crash(e)
             \/ \E m \in Messages : Fetch(e, m)
    BY <2>6, CalmUnchanged DEF StepThrows, HeartbeatFails, Timeout, Crash, Fetch
  <2> QED BY <1>2, <2>1, <2>2, <2>3, <2>4, <2>5, <2>6 DEF ExecEvent, Handler
<1>3. ASSUME NEW m \in Messages, MessageExpires(m) PROVE Calm(k)
  BY <1>3, CalmUnchanged DEF MessageExpires
<1>4. ASSUME NEW r \in Requests, RequestStep(r) PROVE Calm(k)
  <2>1. CASE CancelWrite(r)
    <3>1. CASE k = req[r].job
      BY <1>0, <2>1, <3>1 DEF CancelWrite, JobRow, Calm, IsAsked, SameLease
    <3>2. CASE k # req[r].job
      BY <1>0, <2>1, <3>2 DEF CancelWrite, Calm, Rests, SameLease
    <3> QED BY <3>1, <3>2
  <2>2. CASE CancelQueue(r) \/ ResumeCheck(r) \/ ResumeQueue(r) \/ RetryCheck(r)
    BY <2>2, CalmUnchanged DEF CancelQueue, ResumeCheck, ResumeQueue, RetryCheck
  <2> QED BY <1>4, <2>1, <2>2 DEF RequestStep, Queues
<1>5. ASSUME RecoveryStep \/ RecoverCrash PROVE Calm(k)
  <2>1. CASE RecoverClear
    BY <2>1, CalmUnchanged, CalmReleased DEF RecoverClear
  <2>2. CASE RecoverClaim
    BY <2>2, CalmUnchanged, CalmClaimed DEF RecoverClaim, ClaimableStale
  <2>3. CASE RecoverRelease
    <3>1. CASE UNCHANGED job
      BY <3>1, CalmUnchanged
    <3>2. CASE /\ job[rec.job].status = "processing"
               /\ job' = [Released(rec.job, "queued") EXCEPT ![rec.job].queueId = rec.msg]
      <4>1. CASE k = rec.job
        BY <1>0, <3>2, <4>1 DEF Released, JobRow, Calm, Settles, NoLease
      <4>2. CASE k # rec.job
        BY <1>0, <3>2, <4>2 DEF Released, Calm, Rests, SameLease
      <4> QED BY <4>1, <4>2
    <3> QED BY <2>3, <3>1, <3>2 DEF RecoverRelease
  <2>4. CASE RecoverPublish \/ RecoverResource \/ RecoverCrash
    BY <2>4, CalmUnchanged DEF RecoverPublish, RecoverResource, RecoverCrash
  <2> QED BY <1>5, <2>1, <2>2, <2>3, <2>4 DEF RecoveryStep
<1>6. CASE UNCHANGED vars
  BY <1>6, CalmUnchanged DEF vars
<1> QED BY <1>1, <1>2, <1>3, <1>4, <1>5, <1>6 DEF Next

LEMMA StepMoves ==
    ASSUME TypeOK, [Next]_vars, NEW k \in Jobs
    PROVE  Move(k)
<1>0. job \in [Jobs -> JobRow]
  BY DEF TypeOK
<1>1. CASE ~Queues
  BY <1>1, StepCalm DEF Move
<1>2. ASSUME NEW r \in Requests, ResumeWrite(r) PROVE Move(k)
  <2>1. CASE UNCHANGED job
    BY <2>1, CalmUnchanged DEF Move
  <2>2. CASE job[req[r].job].status = "cancelled" /\ k = req[r].job
    BY <1>0, <1>2, <2>2 DEF ResumeWrite, JobRow, Move, Resumes, SameLease
  <2>3. CASE k # req[r].job
    BY <1>0, <1>2, <2>3 DEF ResumeWrite, JobRow, Move, Calm, Rests, SameLease
  <2> QED BY <1>2, <2>1, <2>2, <2>3 DEF ResumeWrite
<1>3. ASSUME NEW r \in Requests, RetryInsert(r) PROVE Move(k)
  <2> PICK n \in Jobs : job[n].status = "absent" /\ job' = [job EXCEPT ![n] = NewJob]
    BY <1>3 DEF RetryInsert
  <2>1. CASE k = n
    BY <1>0, <2>1 DEF NewJob, NoJob, Move, Appears, NoLease
  <2>2. CASE k # n
    BY <1>0, <2>2 DEF Move, Calm, Rests, SameLease
  <2> QED BY <2>1, <2>2
<1> QED BY <1>1, <1>2, <1>3 DEF Queues

-------------------------------------------------------------------------------
LEMMA LeaseInit == Init => LeaseConsistent
<1> SUFFICES ASSUME Init, NEW j \in Jobs
             PROVE  /\ job[j].token = None <=> job[j].lease = "none"
                    /\ job[j].status = "processing" => job[j].token # None
                    /\ job[j].status \in {"absent", "failed"} => job[j].token = None
  BY DEF LeaseConsistent
<1>1. /\ NewJob.status = "queued" /\ NewJob.token = None /\ NewJob.lease = "none"
      /\ NoJob.status = "absent" /\ NoJob.token = None /\ NoJob.lease = "none"
  BY DEF NewJob, NoJob
<1>2. job[j] = NewJob \/ job[j] = NoJob
  BY DEF Init
<1> QED BY <1>1, <1>2

LEMMA LeaseStep == TypeOK /\ LeaseConsistent /\ [Next]_vars => LeaseConsistent'
<1> SUFFICES ASSUME TypeOK, LeaseConsistent, [Next]_vars, NEW k \in Jobs
             PROVE  /\ job'[k].token = None <=> job'[k].lease = "none"
                    /\ job'[k].status = "processing" => job'[k].token # None
                    /\ job'[k].status \in {"absent", "failed"} => job'[k].token = None
  BY DEF LeaseConsistent
<1>1. Move(k)
  BY StepMoves
<1> QED
  BY <1>1, TokensAssumption
     DEF LeaseConsistent, Move, Calm, Rests, Expires, IsClaimed, Settles, Confirms, IsAsked,
         Resumes, Appears, SameLease, NoLease

(* The token and lease columns of processing_job stay consistent with its   *)
(* status, whatever handlers, recoveries and requests interleave.           *)
THEOREM LeaseCorrect == Spec => []LeaseConsistent
BY LeaseInit, LeaseStep, TypeInit, TypeStep, PTL DEF Spec

(* A requested cancellation is undone by no handler, redelivery or          *)
(* recovery: only a resume request queues the job again.                    *)
THEOREM CancellationHolds == Spec => CancellationSticks
<1>1. ASSUME TypeOK, [Next]_vars, NEW j \in Jobs PROVE KeepsCancellation(j)
  <2>1. Move(j)
    BY <1>1, StepMoves
  <2> QED BY <2>1 DEF KeepsCancellation, Move, Calm, Rests, Expires, IsClaimed, Settles, Confirms,
                      IsAsked, Resumes, Appears, Runnable
<1>2. TypeOK /\ [Next]_vars => [\A j \in Jobs : KeepsCancellation(j)]_vars
  BY <1>1
<1> QED BY <1>2, TypeInit, TypeStep, PTL DEF Spec, CancellationSticks

(* A completed or failed job is not executed again.                         *)
THEOREM SettledHolds == Spec => SettledNeverReruns
<1>1. ASSUME TypeOK, [Next]_vars, NEW j \in Jobs PROVE StaysSettled(j)
  <2>1. Move(j)
    BY <1>1, StepMoves
  <2> QED BY <2>1 DEF StaysSettled, Move, Calm, Rests, Expires, IsClaimed, Settles, Confirms,
                      IsAsked, Resumes, Appears, Runnable
<1>2. TypeOK /\ [Next]_vars => [\A j \in Jobs : StaysSettled(j)]_vars
  BY <1>1
<1> QED BY <1>2, TypeInit, TypeStep, PTL DEF Spec, SettledNeverReruns

-------------------------------------------------------------------------------
(* One job of a resource version queued or in processing at a time.  A      *)
(* resume or a retry finds none and queues one some statements later; in    *)
(* between no other step queues one, so only a second request could.  A job *)
(* that is being cancelled stays out of it: it never runs again.            *)

Ahead(r) == req[r].pc \in {"resumeQueue", "resumeWrite", "retryInsert"}
Alone    == (\E r \in Requests : Ahead(r)) => \A k \in Jobs : job[k].status \notin Runnable

LEMMA AloneInit == Init => OneRunnableJob /\ Alone
BY DEF Init, OneRunnableJob, Alone, Ahead, NoReq, NoJob, NewJob, Runnable

LEMMA CalmStaysInactive ==
    ASSUME NEW k \in Jobs, Calm(k), job[k].status \notin Runnable
    PROVE  job'[k].status \notin Runnable
BY DEF Calm, Rests, Expires, IsClaimed, Settles, Confirms, IsAsked, Runnable

(* A request that goes ahead did so before, or has just looked.             *)
LEMMA AheadLooked ==
    ASSUME TypeOK, [Next]_vars, NEW r \in Requests, Ahead(r)'
    PROVE  Ahead(r) \/ \A k \in Jobs : job[k].status \notin Runnable
<1>1. CASE UNCHANGED req
  BY <1>1 DEF Ahead
<1>2. ASSUME NEW s \in Requests, RequestStep(s)
      PROVE  Ahead(r) \/ \A k \in Jobs : job[k].status \notin Runnable
  <2>0. req \in [Requests -> RequestState]
    BY DEF TypeOK
  <2>1. CASE Ask(s, "cancelQueue") \/ Answer(s)
    BY <2>0, <2>1 DEF Ask, Answer, NoReq, Ahead, RequestState
  <2>2. CASE ResumeQueue(s)
    BY <2>2 DEF ResumeQueue, Ahead, TypeOK, RequestState
  <2>3. CASE ResumeCheck(s)
    BY <2>3 DEF ResumeCheck, Active, Ask, Answer, NoReq, Ahead, TypeOK
  <2>4. CASE RetryCheck(s)
    BY <2>4 DEF RetryCheck, Ask, Answer, NoReq, Ahead, TypeOK
  <2> QED
    BY <1>2, <2>1, <2>2, <2>3, <2>4
       DEF RequestStep, CancelWrite, CancelQueue, ResumeWrite, RetryInsert
<1>3. ASSUME NEW j \in Jobs, NEW s \in Requests, CancelRead(s, j) \/ ResumeRead(s, j) \/ RetryRead(s, j)
      PROVE  Ahead(r)
  BY <1>3 DEF CancelRead, ResumeRead, RetryRead, Asks, Ahead, TypeOK
<1> QED
  BY <1>1, <1>2, <1>3
     DEF Next, JobEvent, LeaseExpires, RecoverScan, OutboxClaim, OutboxPublish, OutboxFails,
         ExecEvent, Handler, ReadJob, Claim, ClaimStale, OwnResource, CheckCancelled, Refresh,
         EnterStage, Parse, RemoveCompiled, RenameCompiled, CompileWiki, MarkCompleted,
         MarkCancelled, MarkFailed, Return, Throw, StepThrows, HeartbeatFails, Timeout, Crash,
         Fetch, MessageExpires, RecoveryStep, RecoverCrash, RecoverClear, RecoverClaim,
         RecoverPublish, RecoverRelease, RecoverResource, vars

LEMMA AloneStep ==
    ASSUME \A r, s \in Requests : r = s, TypeOK, OneRunnableJob, Alone, [Next]_vars
    PROVE  OneRunnableJob' /\ Alone'
<1>0. job \in [Jobs -> JobRow] /\ req \in [Requests -> RequestState]
  BY DEF TypeOK
<1>1. CASE ~Queues
  <2>1. ASSUME NEW k \in Jobs, job[k].status \notin Runnable PROVE job'[k].status \notin Runnable
    BY <1>1, <2>1, StepCalm, CalmStaysInactive
  <2>2. OneRunnableJob'
    BY <2>1 DEF OneRunnableJob
  <2>3. ASSUME NEW r \in Requests, Ahead(r)', NEW k \in Jobs PROVE job'[k].status \notin Runnable
    BY <2>1, <2>3, AheadLooked DEF Alone
  <2> QED BY <2>2, <2>3 DEF Alone, Ahead
<1>2. ASSUME NEW r \in Requests, ResumeWrite(r) \/ RetryInsert(r)
      PROVE  OneRunnableJob' /\ Alone'
  <2>1. \A k \in Jobs : job[k].status \notin Runnable
    BY <1>2 DEF Alone, Ahead, ResumeWrite, RetryInsert
  <2>2. \E n : \A k \in Jobs : k # n => job'[k].status = job[k].status
    BY <1>0, <1>2 DEF ResumeWrite, RetryInsert
  <2>3. OneRunnableJob'
    BY <2>1, <2>2 DEF OneRunnableJob
  <2>4. \A s \in Requests : ~Ahead(s)'
    BY <1>0, <1>2 DEF ResumeWrite, RetryInsert, Answer, NoReq, Ahead
  <2> QED BY <2>3, <2>4 DEF Alone, Ahead
<1> QED BY <1>1, <1>2 DEF Queues

(* While resumes and retries come one at a time, a resource version has at  *)
(* most one job queued or in processing, not counting those whose           *)
(* cancellation is under way.                                               *)
THEOREM OneRunnableJobHolds ==
    ASSUME \A r, s \in Requests : r = s
    PROVE  Spec => []OneRunnableJob
<1>1. TypeOK /\ OneRunnableJob /\ Alone /\ [Next]_vars => OneRunnableJob' /\ Alone'
  BY AloneStep
<1> QED BY <1>1, AloneInit, TypeInit, TypeStep, PTL DEF Spec

-------------------------------------------------------------------------------
(* One handler at a time.  A second handler can take the job from a living  *)
(* one only when its heartbeats stall or pg-boss gives its message away;    *)
(* with one slot it has to wait even then.  While users cancel and retry    *)
(* but do not resume, a worker does not recover under another one, and no   *)
(* more goes wrong than messages have redeliveries, the job is delivered    *)
(* until it is settled, and completed only with its output.  A cancelled    *)
(* job stays cancelled, so the invariant speaks of the others.              *)

Serial ==
    /\ "resume" \notin Ops /\ "overlap" \notin Faults
    /\ MaxFaults <= RetryLimit
    /\ (\A d, e \in Execs : d = e) \/ Faults \cap {"stall", "timeout"} = {}

Working(e)   == exec[e].pc \in {"own", "work", "fail"}
Served(m, e) == exec[e].pc # "idle" /\ exec[e].msg = m /\ ~exec[e].aborted

(* Nothing is failed and retried, so there is one job.                      *)
OneJob ==
    /\ \A j \in Jobs : j # FirstJob => job[j] = NoJob
    /\ job[FirstJob].status \notin {"absent", "failed"}
    /\ \A m \in Messages : msg[m].state # "unsent" => msg[m].job = FirstJob
    /\ \A e \in Execs : exec[e].pc # "idle" => exec[e].job = FirstJob
    /\ rec.pc # "idle" => rec.job = FirstJob
    /\ \A r \in Requests :
         /\ req[r].pc \in {"idle", "cancelWrite", "cancelQueue"}
         /\ req[r].pc = "cancelWrite" => req[r].job = FirstJob
         /\ req[r].pc = "cancelQueue" => Cancelling(FirstJob)

(* A handler holds its message, alone, unless it was given away.            *)
Holds(e) ==
    exec[e].pc # "idle" =>
       /\ exec[e].msg \in Messages
       /\ IF exec[e].aborted
          THEN /\ "timeout" \in Faults /\ exec[e].tries < RetryLimit
               /\ msg[exec[e].msg].state = "ready"
          ELSE msg[exec[e].msg].state = "active" /\ exec[e].tries = msg[exec[e].msg].tries
Held ==
    /\ \A e \in Execs : Holds(e)
    /\ \A d, e \in Execs, m \in Messages : Served(m, d) /\ Served(m, e) => d = e

(* Every redelivery, done or to come, was the work of a fault.              *)
Due(m) == /\ msg[m].state = "active"
          /\ \A e \in Execs : Served(m, e) => exec[e].pc \in {"fail", "throw"}
Paid(m) == msg[m].tries <= faults /\ (Due(m) => msg[m].tries + 1 <= faults)
Budget == \A m \in Messages : Paid(m)

Delivers(m) ==
    \/ msg[m].state = "ready"
    \/ /\ msg[m].state = "active"
       /\ \A e \in Execs : Served(m, e) => exec[e].pc \in {"read", "claim", "throw"}
Delivery ==
    job[FirstJob].status = "queued" =>
       \/ job[FirstJob].outbox \in {"pending", "dispatching"}
       \/ \E m \in Messages : Delivers(m)

Ownership ==
    \A e \in Execs : Working(e) =>
        /\ job[FirstJob].status = "processing" /\ job[FirstJob].token = e
        /\ job[FirstJob].lease = "live" \/ "stall" \in Faults

Recovering ==
    /\ rec.pc # "idle" => \A e \in Execs : exec[e].pc = "idle"
    /\ rec.pc = "release" => rec.msg \in Messages /\ msg[rec.msg].state = "ready"
    /\ rec.pc = "queued" => job[FirstJob].status = "queued"
    /\ rec.pc \notin {"clear", "cancelled"}

(* The compiled output appears at the rename and the pages at the compile.  *)
Made(e) ==
    /\ exec[e].pc \in {"read", "claim", "claimStale", "own"} => exec[e].at = 1
    /\ exec[e].pc = "work" =>
         /\ exec[e].at = 7 => ~compiled
         /\ exec[e].at > 7 => compiled
         /\ exec[e].at > 13 => wiki
Output ==
    /\ \A e \in Execs : Made(e)
    /\ job[FirstJob].status = "completed" => compiled /\ wiki /\ resource = "ready"

Sound == Held /\ Budget /\ Delivery /\ Ownership /\ Recovering /\ Output

OneWorker == OneJob /\ (Cancelling(FirstJob) \/ Sound)

LEMMA OneWorkerInit == Init => OneWorker
<1> SUFFICES ASSUME Init PROVE OneWorker
  OBVIOUS
<1>1. job[FirstJob] = NewJob /\ \A j \in Jobs : j # FirstJob => job[j] = NoJob
  BY JobsAssumption DEF Init
<1>2. NewJob.status = "queued" /\ NewJob.outbox = "pending"
  BY DEF NewJob, NoJob
<1>3. (\A m \in Messages : msg[m] = NoMsg) /\ NoMsg.state = "unsent" /\ NoMsg.tries = 0
  BY DEF Init, NoMsg
<1>4. (\A e \in Execs : exec[e] = NoExec) /\ NoExec.pc = "idle"
  BY DEF Init, NoExec
<1>5. rec.pc = "idle" /\ faults = 0 /\ \A r \in Requests : req[r].pc = "idle"
  BY DEF Init, NoRec, NoReq
<1>6. OneJob
  BY <1>1, <1>2, <1>3, <1>4, <1>5 DEF OneJob
<1>7. Held /\ Ownership
  BY <1>4 DEF Held, Holds, Served, Ownership, Working
<1>8. Budget
  BY <1>3, <1>5 DEF Budget, Paid, Due
<1>9. Delivery /\ Recovering /\ Output
  BY <1>1, <1>2, <1>4, <1>5 DEF Delivery, Recovering, Output, Made
<1> QED BY <1>6, <1>7, <1>8, <1>9 DEF OneWorker, Sound

-------------------------------------------------------------------------------
(* What the helpers do, row by row.                                         *)
Others(e) == \A d \in Execs : d # e => exec'[d] = exec[d]
Keeps(e)  == /\ exec'[e].job = exec[e].job /\ exec'[e].msg = exec[e].msg
             /\ exec'[e].tries = exec[e].tries

LEMMA GoEffect ==
    ASSUME TypeOK, NEW e \in Execs, NEW pc, Go(e, pc)
    PROVE  /\ Others(e) /\ Keeps(e)
           /\ exec'[e].aborted = exec[e].aborted /\ exec'[e].at = exec[e].at
           /\ exec'[e].pc = pc
BY ZenonT(30) DEF TypeOK, HandlerState, Go, Others, Keeps

LEMMA AdvanceEffect ==
    ASSUME TypeOK, NEW e \in Execs, Advance(e)
    PROVE  /\ Others(e) /\ Keeps(e)
           /\ exec'[e].aborted = exec[e].aborted /\ exec'[e].at = exec[e].at + 1
           /\ exec'[e].pc = exec[e].pc
BY ZenonT(30) DEF TypeOK, HandlerState, Advance, Others, Keeps

LEMMA EndEffect ==
    ASSUME TypeOK, NEW e \in Execs, exec' = [exec EXCEPT ![e] = NoExec]
    PROVE  Others(e) /\ exec'[e].pc = "idle"
BY DEF TypeOK, Others, NoExec

LEMMA ReleasedEffect ==
    ASSUME TypeOK, NEW j \in Jobs, NEW s
    PROVE  /\ \A k \in Jobs : k # j => Released(j, s)[k] = job[k]
           /\ Released(j, s)[j].status = s
BY DEF TypeOK, JobRow, Released

LEMMA ClaimedEffect ==
    ASSUME TypeOK, NEW j \in Jobs, NEW t
    PROVE  /\ \A k \in Jobs : k # j => Claimed(j, t)[k] = job[k]
           /\ Claimed(j, t)[j].status = "processing"
           /\ Claimed(j, t)[j].token = t /\ Claimed(j, t)[j].lease = "live"
BY DEF TypeOK, JobRow, Claimed

(* A message that may be redelivered is ready again, once more.             *)
LEMMA RedeliveredEffect ==
    ASSUME TypeOK, NEW m \in Messages, msg[m].state = "active", msg[m].tries < RetryLimit,
           msg' = Redelivered(m)
    PROVE  /\ \A n \in Messages : n # m => msg'[n] = msg[n]
           /\ msg'[m].state = "ready" /\ msg'[m].job = msg[m].job
           /\ msg'[m].tries = msg[m].tries + 1
<1> DEFINE n == msg[m].tries + 1
           again == [msg[m] EXCEPT !.state = "ready", !.tries = n]
<1>1. msg' = [msg EXCEPT ![m] = again]
  BY DEF Redelivered
<1>2. msg[m] \in Message /\ msg \in [Messages -> Message]
  BY DEF TypeOK
<1> HIDE DEF n
<1>3. again.state = "ready" /\ again.job = msg[m].job /\ again.tries = n
  BY <1>2 DEF Message
<1> HIDE DEF again
<1> QED BY <1>1, <1>2, <1>3 DEF n

LEMMA AcknowledgedEffect ==
    ASSUME TypeOK, NEW m \in Messages, msg[m].state = "active", msg' = Acknowledged(m)
    PROVE  /\ \A n \in Messages : n # m => msg'[n] = msg[n]
           /\ msg'[m].state = "completed" /\ msg'[m].job = msg[m].job
           /\ msg'[m].tries = msg[m].tries
BY DEF TypeOK, Message, Acknowledged

LEMMA SentEffect ==
    ASSUME TypeOK, NEW m \in Messages, NEW j, msg' = Sent(m, j)
    PROVE  /\ \A n \in Messages : n # m => msg'[n] = msg[n]
           /\ msg'[m].state = "ready" /\ msg'[m].job = j /\ msg'[m].tries = 0
BY DEF TypeOK, Sent

LEMMA FaultCounted ==
    ASSUME TypeOK, NEW f, Faulty(f)
    PROVE  /\ f \in Faults /\ faults' = faults + 1 /\ faults < MaxFaults
           /\ faults \in Nat /\ faults' \in Nat
BY LimitAssumption DEF TypeOK, Faulty

LEMMA StepNumbers ==
    \A i \in 1 .. Len(Steps) :
       /\ Steps[i] = "remove" => i = 6
       /\ Steps[i] = "rename" <=> i = 7
       /\ Steps[i] = "compile" <=> i = 13
       /\ Steps[i] = "complete" => i = 18
BY DEF Steps

-------------------------------------------------------------------------------
(* A cancelled job stays cancelled: nobody resumes it.                      *)
LEMMA CancelledStays ==
    ASSUME TypeOK, OneJob, Cancelling(FirstJob), [Next]_vars
    PROVE  Cancelling(FirstJob)'
<1>1. Move(FirstJob)
  BY StepMoves, JobsAssumption
<1>2. ~Resumes(FirstJob)
  BY DEF OneJob, Resumes
<1> QED
  BY <1>1, <1>2 DEF Cancelling, Move, Calm, Rests, Expires, IsClaimed, Settles, Confirms, IsAsked,
                    Appears, Runnable

(* A job that fails has a redelivery left.                                  *)
LEMMA RedeliveryLeft ==
    ASSUME Serial, TypeOK, Held, Budget, NEW m \in Messages, Due(m)
    PROVE  msg[m].tries < RetryLimit
BY LimitAssumption DEF Serial, TypeOK, Message, Budget, Paid

LEMMA FailsEarly ==
    ASSUME Serial, TypeOK, Held, Budget, NEW e \in Execs, exec[e].pc = "fail"
    PROVE  exec[e].tries < RetryLimit
<1>1. CASE exec[e].aborted
  BY <1>1 DEF Held, Holds
<1>2. CASE ~exec[e].aborted
  <2> DEFINE m == exec[e].msg
  <2>1. m \in Messages /\ msg[m].state = "active" /\ exec[e].tries = msg[m].tries
    BY <1>2 DEF Held, Holds
  <2>2. \A d \in Execs : Served(m, d) => d = e
    BY <1>2, <2>1 DEF Held, Served
  <2>3. Due(m)
    BY <2>1, <2>2 DEF Due
  <2> QED BY <2>1, <2>3, RedeliveryLeft
<1> QED BY <1>1, <1>2

LEMMA OtherRows ==
    ASSUME TypeOK, OneJob, [Next]_vars, NEW k \in Jobs, k # FirstJob
    PROVE  job'[k] = NoJob
<1>0. job \in [Jobs -> JobRow] /\ job[k] = NoJob
  BY DEF TypeOK, OneJob
<1>1. ASSUME NEW j \in Jobs, JobEvent(j) PROVE job'[k] = NoJob
  <2>1. CASE LeaseExpires(j) \/ OutboxClaim(j) \/ OutboxPublish(j) \/ OutboxFails(j)
    <3>1. k # j
      BY <1>0, <2>1 DEF LeaseExpires, OutboxClaim, OutboxPublish, OutboxFails, NoJob
    <3> QED BY <1>0, <2>1, <3>1 DEF LeaseExpires, OutboxClaim, OutboxPublish, OutboxFails
  <2>2. CASE RecoverScan(j)
    BY <1>0, <2>2 DEF RecoverScan
  <2>3. ASSUME NEW r \in Requests, CancelRead(r, j) \/ ResumeRead(r, j) \/ RetryRead(r, j)
        PROVE  job'[k] = NoJob
    BY <1>0, <2>3 DEF CancelRead, ResumeRead, RetryRead, Asks
  <2> QED BY <1>1, <2>1, <2>2, <2>3 DEF JobEvent
<1>2. ASSUME NEW e \in Execs, ExecEvent(e) PROVE job'[k] = NoJob
  <2>1. CASE Claim(e) \/ ClaimStale(e)
    BY <1>0, <2>1, ClaimedEffect, JobsAssumption DEF Claim, ClaimStale, OneJob
  <2>2. CASE MarkCompleted(e) \/ MarkCancelled(e) \/ MarkFailed(e)
    BY <1>0, <2>2, ReleasedEffect, JobsAssumption DEF MarkCompleted, MarkCancelled, MarkFailed, At, OneJob
  <2>3. CASE UNCHANGED job
    BY <1>0, <2>3
  <2> QED
    BY <1>2, <2>1, <2>2, <2>3
       DEF ExecEvent, Handler, ReadJob, OwnResource, CheckCancelled, Refresh, EnterStage, Parse,
           RemoveCompiled, RenameCompiled, CompileWiki, Return, Throw, StepThrows, HeartbeatFails,
           Timeout, Crash, Fetch
<1>3. ASSUME NEW m \in Messages, MessageExpires(m) PROVE job'[k] = NoJob
  BY <1>0, <1>3 DEF MessageExpires
<1>4. ASSUME NEW r \in Requests, RequestStep(r) PROVE job'[k] = NoJob
  <2>1. CancelWrite(r) \/ CancelQueue(r)
    BY <1>4 DEF RequestStep, OneJob, ResumeCheck, ResumeQueue, ResumeWrite, RetryCheck, RetryInsert
  <2> QED BY <1>0, <2>1 DEF CancelWrite, CancelQueue, OneJob
<1>5. ASSUME RecoveryStep \/ RecoverCrash PROVE job'[k] = NoJob
  <2>1. rec.job = FirstJob
    BY <1>5 DEF RecoveryStep, RecoverClear, RecoverClaim, RecoverPublish, RecoverRelease,
                RecoverResource, RecoverCrash, OneJob
  <2>2. CASE RecoverRelease
    <3>1. Released(FirstJob, "queued") \in [Jobs -> JobRow]
      BY ReleasedTyped DEF JobStatus
    <3> QED BY <1>0, <2>1, <2>2, <3>1, ReleasedEffect, JobsAssumption DEF RecoverRelease
  <2>3. CASE RecoverClear \/ RecoverClaim
    BY <1>0, <2>1, <2>3, ClaimedEffect, ReleasedEffect, JobsAssumption DEF RecoverClear, RecoverClaim
  <2>4. CASE RecoverPublish \/ RecoverResource \/ RecoverCrash
    BY <1>0, <2>4 DEF RecoverPublish, RecoverResource, RecoverCrash
  <2> QED BY <1>5, <2>2, <2>3, <2>4 DEF RecoveryStep
<1>6. CASE UNCHANGED vars
  BY <1>0, <1>6 DEF vars
<1> QED BY <1>1, <1>2, <1>3, <1>4, <1>5, <1>6 DEF Next

(* Only MarkFailed fails a job.                                             *)
LEMMA FailedBy ==
    ASSUME TypeOK, [Next]_vars, NEW k \in Jobs,
           job[k].status # "failed", job'[k].status = "failed"
    PROVE  \E e \in Execs : MarkFailed(e)
<1>0. job \in [Jobs -> JobRow] /\ job' # job
  BY DEF TypeOK
<1>1. ASSUME NEW j \in Jobs, JobEvent(j) PROVE FALSE
  BY <1>0, <1>1
     DEF JobEvent, LeaseExpires, RecoverScan, OutboxClaim, OutboxPublish, OutboxFails, CancelRead,
         ResumeRead, RetryRead, Asks, JobRow
<1>2. ASSUME NEW e \in Execs, ExecEvent(e) PROVE MarkFailed(e)
  <2>1. CASE Claim(e) \/ ClaimStale(e)
    BY <1>0, <2>1 DEF Claim, ClaimStale, Claimed, JobRow
  <2>2. CASE MarkCompleted(e) \/ MarkCancelled(e)
    BY <1>0, <2>2 DEF MarkCompleted, MarkCancelled, Released, JobRow
  <2> QED
    BY <1>0, <1>2, <2>1, <2>2
       DEF ExecEvent, Handler, ReadJob, OwnResource, CheckCancelled, Refresh, EnterStage, Parse,
           RemoveCompiled, RenameCompiled, CompileWiki, Return, Throw, StepThrows, HeartbeatFails,
           Timeout, Crash, Fetch
<1>3. ASSUME NEW m \in Messages, MessageExpires(m) PROVE FALSE
  BY <1>0, <1>3 DEF MessageExpires
<1>4. ASSUME NEW r \in Requests, RequestStep(r) PROVE FALSE
  <2>1. CASE CancelWrite(r) \/ ResumeWrite(r) \/ RetryInsert(r)
    <3>1. CASE CancelWrite(r)
      BY <1>0, <3>1 DEF CancelWrite, JobRow
    <3>2. CASE ResumeWrite(r)
      BY <1>0, <3>2 DEF ResumeWrite, JobRow
    <3>3. CASE RetryInsert(r)
      BY <1>0, <3>3 DEF RetryInsert, NewJob, NoJob
    <3> QED BY <2>1, <3>1, <3>2, <3>3
  <2> QED BY <1>0, <1>4, <2>1 DEF RequestStep, CancelQueue, ResumeCheck, ResumeQueue, RetryCheck
<1>5. ASSUME RecoveryStep \/ RecoverCrash PROVE FALSE
  <2>1. CASE RecoverClear
    BY <1>0, <2>1 DEF RecoverClear, Released, JobRow
  <2>2. CASE RecoverClaim
    BY <1>0, <2>2 DEF RecoverClaim, Claimed, JobRow
  <2>3. CASE RecoverRelease
    <3>1. job' = [Released(rec.job, "queued") EXCEPT ![rec.job].queueId = rec.msg]
      BY <1>0, <2>3 DEF RecoverRelease
    <3>2. \A j \in Jobs : Released(rec.job, "queued")[j].status \in {job[j].status, "queued"}
      BY <1>0 DEF Released, JobRow
    <3>3. job'[k].status \in {job[k].status, "queued"}
      BY <1>0, <3>1, <3>2 DEF Released, JobRow
    <3> QED BY <3>3
  <2>4. CASE RecoverPublish \/ RecoverResource \/ RecoverCrash
    BY <1>0, <2>4 DEF RecoverPublish, RecoverResource, RecoverCrash
  <2> QED BY <1>5, <2>1, <2>2, <2>3, <2>4 DEF RecoveryStep
<1>6. CASE UNCHANGED vars
  BY <1>0, <1>6 DEF vars
<1> QED BY <1>1, <1>2, <1>3, <1>4, <1>5, <1>6 DEF Next

LEMMA NeverFails ==
    ASSUME Serial, TypeOK, OneWorker, [Next]_vars
    PROVE  job'[FirstJob].status \notin {"absent", "failed"}
<1>0. job[FirstJob].status \notin {"absent", "failed"} /\ job \in [Jobs -> JobRow]
  BY DEF TypeOK, OneWorker, OneJob
<1>1. Move(FirstJob)
  BY StepMoves, JobsAssumption
<1>2. job'[FirstJob].status # "absent"
  BY <1>0, <1>1 DEF Move, Calm, Rests, Expires, IsClaimed, Settles, Confirms, IsAsked, Resumes, Appears
<1>3. ASSUME job'[FirstJob].status = "failed" PROVE FALSE
  <2> PICK e \in Execs : MarkFailed(e)
    BY <1>0, <1>3, FailedBy, JobsAssumption
  <2>1. Owns(e, FirstJob) /\ exec[e].job = FirstJob
    BY <1>0, <1>3 DEF MarkFailed, OneWorker, OneJob
  <2>2. Sound
    BY <2>1 DEF OneWorker, Owns, Cancelling
  <2>3. exec[e].tries < RetryLimit
    BY <2>2, FailsEarly DEF MarkFailed, Sound
  <2>4. job' = Released(FirstJob, "queued") \/ UNCHANGED job
    BY <2>1, <2>3 DEF MarkFailed
  <2> QED BY <1>0, <1>3, <2>4, ReleasedEffect, JobsAssumption
<1> QED BY <1>2, <1>3

(* Messages keep their job.                                                 *)
SameJobs == \A n \in Messages : /\ msg'[n].job = msg[n].job
                                /\ msg[n].state = "unsent" => msg'[n].state = "unsent"

LEMMA RedeliveredJobs ==
    ASSUME TypeOK, NEW m, msg' = Redelivered(m) \/ msg' = Acknowledged(m) PROVE SameJobs
<1>1. msg \in [Messages -> Message]
  BY DEF TypeOK
<1> DEFINE again == [msg[m] EXCEPT !.state = "ready", !.tries = msg[m].tries + 1]
<1>2. m \in Messages => again.state = "ready" /\ again.job = msg[m].job
  BY <1>1 DEF Message
<1>3. \/ msg' = msg
      \/ msg[m].state = "active" /\ msg' = [msg EXCEPT ![m] = again]
      \/ msg[m].state = "active" /\ \E s \in MsgState \ {"unsent"} : msg' = [msg EXCEPT ![m].state = s]
  BY DEF Redelivered, Acknowledged, MsgState
<1> HIDE DEF again
<1>4. CASE msg' = msg
  BY <1>4 DEF SameJobs
<1>5. CASE msg[m].state = "active" /\ msg' = [msg EXCEPT ![m] = again]
  BY <1>1, <1>2, <1>5 DEF SameJobs
<1>6. ASSUME msg[m].state = "active", NEW s, msg' = [msg EXCEPT ![m].state = s]
      PROVE  SameJobs
  BY <1>1, <1>6 DEF SameJobs, Message
<1> QED BY <1>3, <1>4, <1>5, <1>6

LEMMA MessagesStay ==
    ASSUME TypeOK, OneJob, [Next]_vars, NEW n \in Messages, msg'[n].state # "unsent"
    PROVE  msg'[n].job = FirstJob
<1>0. msg \in [Messages -> Message]
  BY DEF TypeOK
<1>1. SameJobs => msg'[n].job = FirstJob
  BY DEF SameJobs, OneJob
<1>2. UNCHANGED msg => SameJobs
  BY DEF SameJobs
<1>3. ASSUME NEW m \in Messages, msg' = Sent(m, FirstJob) PROVE msg'[n].job = FirstJob
  <2>1. n # m => msg'[n] = msg[n]
    BY <1>3, SentEffect
  <2>2. msg'[m].job = FirstJob
    BY <1>3, SentEffect
  <2> QED BY <2>1, <2>2 DEF OneJob
<1>4. ASSUME NEW j \in Jobs, JobEvent(j) PROVE msg'[n].job = FirstJob
  <2>1. CASE OutboxPublish(j)
    <3>1. j = FirstJob
      BY <2>1 DEF OutboxPublish, OneJob, NoJob
    <3>2. \E m \in Messages : msg' = Sent(m, FirstJob)
      BY <2>1, <3>1 DEF OutboxPublish
    <3> QED BY <1>3, <3>2
  <2> QED
    BY <1>1, <1>2, <1>4, <2>1
       DEF JobEvent, LeaseExpires, RecoverScan, OutboxClaim, OutboxFails, CancelRead, ResumeRead,
           RetryRead, Asks
<1>5. ASSUME NEW e \in Execs, ExecEvent(e) PROVE msg'[n].job = FirstJob
  <2>1. CASE Return(e) \/ Throw(e) \/ Timeout(e)
    <3>1. UNCHANGED msg \/ msg' = Redelivered(exec[e].msg) \/ msg' = Acknowledged(exec[e].msg)
      BY <2>1 DEF Return, Throw, Timeout
    <3> QED BY <1>1, <1>2, <3>1, RedeliveredJobs
  <2>2. ASSUME NEW m \in Messages, Fetch(e, m) PROVE msg'[n].job = FirstJob
    BY <1>0, <2>2 DEF Fetch, Message, OneJob
  <2> QED
    BY <1>1, <1>2, <1>5, <2>1, <2>2
       DEF ExecEvent, Handler, ReadJob, Claim, ClaimStale, OwnResource, CheckCancelled, Refresh,
           EnterStage, Parse, RemoveCompiled, RenameCompiled, CompileWiki, MarkCompleted,
           MarkCancelled, MarkFailed, StepThrows, HeartbeatFails, Crash
<1>6. ASSUME NEW m \in Messages, MessageExpires(m) PROVE msg'[n].job = FirstJob
  BY <1>1, <1>6, RedeliveredJobs DEF MessageExpires
<1>7. ASSUME NEW r \in Requests, RequestStep(r) PROVE msg'[n].job = FirstJob
  <2>1. CASE CancelQueue(r)
    <3>1. UNCHANGED msg \/ \E m : msg[m].state \in {"ready", "active"}
                                  /\ msg' = [msg EXCEPT ![m].state = "cancelled"]
      BY <2>1 DEF CancelQueue, IsIn
    <3>2. SameJobs
      BY <1>0, <1>2, <3>1 DEF SameJobs, Message
    <3> QED BY <1>1, <3>2
  <2> QED
    BY <1>1, <1>2, <1>7, <2>1
       DEF RequestStep, CancelWrite, ResumeCheck, ResumeQueue, ResumeWrite, RetryCheck, RetryInsert,
           OneJob
<1>8. ASSUME RecoveryStep \/ RecoverCrash PROVE msg'[n].job = FirstJob
  <2>1. CASE RecoverPublish
    <3>1. UNCHANGED msg \/ \E m \in Messages : msg' = Sent(m, FirstJob)
      BY <2>1 DEF RecoverPublish, OneJob
    <3> QED BY <1>1, <1>2, <1>3, <3>1
  <2> QED
    BY <1>1, <1>2, <1>8, <2>1
       DEF RecoveryStep, RecoverClear, RecoverClaim, RecoverRelease, RecoverResource, RecoverCrash
<1>9. CASE UNCHANGED vars
  BY <1>1, <1>2, <1>9 DEF vars
<1> QED BY <1>4, <1>5, <1>6, <1>7, <1>8, <1>9 DEF Next

LEMMA HandlersStay ==
    ASSUME TypeOK, OneJob, [Next]_vars, NEW d \in Execs, exec'[d].pc # "idle"
    PROVE  exec'[d].job = FirstJob
<1>1. CASE UNCHANGED exec
  BY <1>1 DEF OneJob
<1>2. ASSUME NEW e \in Execs, ExecEvent(e) PROVE exec'[d].job = FirstJob
  <2>1. ASSUME Others(e), exec'[e].pc = "idle" \/ (exec'[e].job = exec[e].job /\ exec[e].pc # "idle")
        PROVE  exec'[d].job = FirstJob
    BY <2>1 DEF Others, OneJob
  <2>2. CASE Return(e) \/ Throw(e) \/ Crash(e)
    BY <2>1, <2>2, EndEffect DEF Return, Throw, Crash
  <2>3. ASSUME NEW m \in Messages, Fetch(e, m) PROVE exec'[d].job = FirstJob
    BY <2>3 DEF Fetch, NoExec, OneJob, TypeOK
  <2>4. CASE HeartbeatFails(e) \/ Timeout(e)
    <3>1. Others(e) /\ exec'[e].job = exec[e].job /\ exec[e].pc # "idle"
      BY <2>4 DEF HeartbeatFails, Timeout, At, Others, TypeOK, HandlerState
    <3> QED BY <2>1, <3>1
  <2>5. CASE /\ \/ ReadJob(e) \/ Claim(e) \/ ClaimStale(e) \/ OwnResource(e)
                \/ CheckCancelled(e) \/ Refresh(e) \/ EnterStage(e) \/ Parse(e)
                \/ RemoveCompiled(e) \/ RenameCompiled(e) \/ CompileWiki(e)
                \/ MarkCompleted(e) \/ MarkCancelled(e) \/ MarkFailed(e) \/ StepThrows(e)
    <3>1. exec[e].pc # "idle" /\ (Advance(e) \/ \E pc : Go(e, pc))
      BY <2>5 DEF ReadJob, Claim, ClaimStale, OwnResource, CheckCancelled, Refresh,
                  EnterStage, Parse, RemoveCompiled, RenameCompiled, CompileWiki, MarkCompleted,
                  MarkCancelled, MarkFailed, StepThrows, At
    <3> QED BY <2>1, <3>1, GoEffect, AdvanceEffect DEF Keeps
  <2> QED BY <1>2, <2>2, <2>3, <2>4, <2>5 DEF ExecEvent, Handler
<1> QED
  BY <1>1, <1>2
     DEF Next, JobEvent, LeaseExpires, RecoverScan, OutboxClaim, OutboxPublish, OutboxFails,
         CancelRead, ResumeRead, RetryRead, Asks, MessageExpires, RequestStep, CancelWrite,
         CancelQueue, ResumeCheck, ResumeQueue, ResumeWrite, RetryCheck, RetryInsert, RecoveryStep,
         RecoverCrash, RecoverClear, RecoverClaim, RecoverPublish, RecoverRelease, RecoverResource,
         vars

LEMMA RequestsStay ==
    ASSUME Serial, TypeOK, OneJob, [Next]_vars, NEW s \in Requests
    PROVE  /\ req'[s].pc \in {"idle", "cancelWrite", "cancelQueue"}
           /\ req'[s].pc = "cancelWrite" => req'[s].job = FirstJob
           /\ req'[s].pc = "cancelQueue" => Cancelling(FirstJob)'
<1>0. req \in [Requests -> RequestState] /\ job \in [Jobs -> JobRow]
  BY DEF TypeOK
<1>1. ASSUME UNCHANGED req[s]
      PROVE  /\ req'[s].pc \in {"idle", "cancelWrite", "cancelQueue"}
             /\ req'[s].pc = "cancelWrite" => req'[s].job = FirstJob
             /\ req'[s].pc = "cancelQueue" => Cancelling(FirstJob)'
  BY <1>1, CancelledStays DEF OneJob
<1>2. ASSUME NEW j \in Jobs, NEW r \in Requests, CancelRead(r, j) \/ ResumeRead(r, j) \/ RetryRead(r, j)
      PROVE  \/ UNCHANGED req[s]
             \/ req'[s].pc = "cancelWrite" /\ req'[s].job = FirstJob
  <2>1. CASE CancelRead(r, j)
    <3>1. j = FirstJob
      BY <2>1 DEF CancelRead, OneJob, NoJob, Runnable
    <3> QED BY <1>0, <2>1, <3>1 DEF CancelRead, Asks
  <2>2. ~ResumeRead(r, j) /\ ~RetryRead(r, j)
    BY DEF ResumeRead, RetryRead, Asks, Serial, OneJob, NoJob
  <2> QED BY <1>2, <2>1, <2>2
<1>3. ASSUME NEW r \in Requests, RequestStep(r)
      PROVE  \/ UNCHANGED req[s] \/ req'[s].pc = "idle"
             \/ req'[s].pc = "cancelQueue" /\ Cancelling(FirstJob)'
  <2>1. CASE CancelWrite(r)
    <3>1. req[r].job = FirstJob
      BY <2>1 DEF CancelWrite, OneJob
    <3>2. Cancelling(FirstJob)'
      BY <1>0, <2>1, <3>1, JobsAssumption DEF CancelWrite, Cancelling, JobRow
    <3> QED BY <1>0, <2>1, <3>2 DEF CancelWrite, Ask, RequestState
  <2>2. CASE CancelQueue(r)
    BY <1>0, <2>2 DEF CancelQueue, Answer, NoReq
  <2> QED
    BY <1>3, <2>1, <2>2
       DEF RequestStep, ResumeCheck, ResumeQueue, ResumeWrite, RetryCheck, RetryInsert, OneJob
<1>4. CASE UNCHANGED req
  BY <1>1, <1>4
<1> QED
  BY <1>1, <1>2, <1>3, <1>4
     DEF Next, JobEvent, LeaseExpires, RecoverScan, OutboxClaim, OutboxPublish, OutboxFails,
         ExecEvent, Handler, ReadJob, Claim, ClaimStale, OwnResource, CheckCancelled, Refresh,
         EnterStage, Parse, RemoveCompiled, RenameCompiled, CompileWiki, MarkCompleted,
         MarkCancelled, MarkFailed, Return, Throw, StepThrows, HeartbeatFails, Timeout, Crash,
         Fetch, MessageExpires, RecoveryStep, RecoverCrash, RecoverClear, RecoverClaim,
         RecoverPublish, RecoverRelease, RecoverResource, vars

LEMMA RecoveryStays ==
    ASSUME TypeOK, OneJob, [Next]_vars, rec'.pc # "idle"
    PROVE  rec'.job = FirstJob
<1>1. CASE UNCHANGED rec
  BY <1>1 DEF OneJob
<1>2. ASSUME NEW j \in Jobs, RecoverScan(j) PROVE rec'.job = FirstJob
  BY <1>2 DEF RecoverScan, OneJob, NoJob
<1>3. CASE RecoveryStep \/ RecoverCrash
  <2>1. rec.pc # "idle" /\ rec \in RecoveryState
    BY <1>3 DEF RecoveryStep, RecoverClear, RecoverClaim, RecoverPublish, RecoverRelease,
                RecoverResource, RecoverCrash, TypeOK
  <2>2. \/ rec' = NoRec
        \/ \E pc : rec' = [rec EXCEPT !.pc = pc]
        \/ \E pc, m : rec' = [rec EXCEPT !.pc = pc, !.msg = m]
    BY <1>3 DEF RecoveryStep, RecoverClear, RecoverClaim, RecoverPublish, RecoverRelease,
                RecoverResource, RecoverCrash, Recover
  <2>3. ASSUME NEW pc, rec' = [rec EXCEPT !.pc = pc] \/ \E m : rec' = [rec EXCEPT !.pc = pc, !.msg = m]
        PROVE  rec'.job = rec.job
    BY <2>1, <2>3 DEF RecoveryState
  <2>4. rec.job = FirstJob
    BY <2>1 DEF OneJob
  <2>5. CASE rec' = NoRec
    BY <2>5 DEF NoRec
  <2> QED BY <2>2, <2>3, <2>4, <2>5
<1> QED
  BY <1>1, <1>2, <1>3
     DEF Next, JobEvent, LeaseExpires, OutboxClaim, OutboxPublish, OutboxFails, CancelRead,
         ResumeRead, RetryRead, Asks, ExecEvent, Handler, ReadJob, Claim, ClaimStale, OwnResource,
         CheckCancelled, Refresh, EnterStage, Parse, RemoveCompiled, RenameCompiled, CompileWiki,
         MarkCompleted, MarkCancelled, MarkFailed, Return, Throw, StepThrows, HeartbeatFails,
         Timeout, Crash, Fetch, MessageExpires, RequestStep, CancelWrite, CancelQueue, ResumeCheck,
         ResumeQueue, ResumeWrite, RetryCheck, RetryInsert, vars

LEMMA OneJobStep ==
    ASSUME Serial, TypeOK, OneWorker, [Next]_vars
    PROVE  OneJob'
<1>1. OneJob
  BY DEF OneWorker
<1>2. \A j \in Jobs : j # FirstJob => job'[j] = NoJob
  BY <1>1, OtherRows
<1>3. \A m \in Messages : msg'[m].state # "unsent" => msg'[m].job = FirstJob
  BY <1>1, MessagesStay
<1>4. \A e \in Execs : exec'[e].pc # "idle" => exec'[e].job = FirstJob
  BY <1>1, HandlersStay
<1>5. rec'.pc # "idle" => rec'.job = FirstJob
  BY <1>1, RecoveryStays
<1>6. \A r \in Requests :
         /\ req'[r].pc \in {"idle", "cancelWrite", "cancelQueue"}
         /\ req'[r].pc = "cancelWrite" => req'[r].job = FirstJob
         /\ req'[r].pc = "cancelQueue" => Cancelling(FirstJob)'
  BY <1>1, RequestsStay
<1> QED BY <1>2, <1>3, <1>4, <1>5, <1>6, NeverFails DEF OneJob

-------------------------------------------------------------------------------
(* The state a step starts from: the job is not cancelled.                  *)
Under == Serial /\ TypeOK /\ OneJob /\ ~Cancelling(FirstJob) /\ Sound

(* A handler that goes on keeps its message.                                *)
GoesOn(e) == /\ exec[e].pc # "idle" /\ exec'[e].pc # "idle"
             /\ Others(e) /\ Keeps(e) /\ exec'[e].aborted = exec[e].aborted
             /\ UNCHANGED <<msg, rec>>
             /\ \/ /\ faults' = faults
                   /\ exec'[e].pc \in {"fail", "throw"} => exec[e].pc \in {"fail", "throw"}
                \/ faults' = faults + 1

LEMMA GoesOnHeld ==
    ASSUME Under, NEW e \in Execs, GoesOn(e)
    PROVE  Held' /\ Budget' /\ Recovering'
<1>1. \A m \in Messages, d \in Execs : Served(m, d)' <=> Served(m, d)
  BY DEF GoesOn, Others, Keeps, Served
<1>2. Held'
  <2>1. \A d \in Execs : Holds(d)'
    <3> SUFFICES ASSUME NEW d \in Execs PROVE Holds(d)'
      OBVIOUS
    <3>1. Holds(d)
      BY DEF Under, Sound, Held
    <3>2. UNCHANGED msg
      BY DEF GoesOn
    <3>3. CASE d = e
      BY <3>1, <3>2, <3>3 DEF GoesOn, Keeps, Holds
    <3>4. CASE d # e
      BY <3>1, <3>2, <3>4 DEF GoesOn, Others, Holds
    <3> QED BY <3>3, <3>4
  <2> QED BY <1>1, <2>1 DEF Under, Sound, Held
<1>3. Budget'
  <2> SUFFICES ASSUME NEW m \in Messages PROVE Paid(m)'
    BY DEF Budget
  <2>1. Paid(m) /\ msg[m].tries \in Nat /\ faults \in Nat
    BY LimitAssumption DEF Under, Sound, Budget, TypeOK, Message
  <2>2. UNCHANGED msg
    BY DEF GoesOn
  <2>3. CASE faults' = faults + 1
    BY <2>1, <2>2, <2>3 DEF Paid
  <2>4. CASE /\ faults' = faults
             /\ exec'[e].pc \in {"fail", "throw"} => exec[e].pc \in {"fail", "throw"}
    <3>1. Due(m)' => Due(m)
      BY <1>1, <2>2, <2>4 DEF Due, GoesOn, Others
    <3> QED BY <2>1, <2>2, <2>4, <3>1 DEF Paid
  <2> QED BY <2>3, <2>4 DEF GoesOn
<1>4. Recovering'
  BY DEF GoesOn, Under, Sound, Recovering
<1> QED BY <1>2, <1>3, <1>4

(* The job and its output are left alone.                                   *)
Kept == UNCHANGED <<job, resource, compiled, wiki>>

LEMMA GoesOnSound ==
    ASSUME Under, NEW e \in Execs, GoesOn(e), Kept,
           Working(e)' => Working(e),
           exec[e].pc \in {"read", "claim", "throw"} =>
              exec'[e].pc \in {"read", "claim", "throw"} \/ job[FirstJob].status # "queued",
           Made(e)'
    PROVE  Sound'
<1>1. \A m \in Messages, d \in Execs : Served(m, d)' <=> Served(m, d)
  BY DEF GoesOn, Others, Keeps, Served
<1>2. Held' /\ Budget' /\ Recovering'
  BY GoesOnHeld
<1>3. Ownership'
  BY DEF Under, Sound, Ownership, GoesOn, Others, Kept, Working
<1>4. Output'
  <2>1. \A d \in Execs : d # e => Made(d)'
    BY DEF Under, Sound, Output, GoesOn, Others, Kept, Made
  <2> QED BY <2>1 DEF Under, Sound, Output, Kept
<1>5. Delivery'
  <2> SUFFICES ASSUME job[FirstJob].status = "queued",
                      NEW m \in Messages, Delivers(m)
               PROVE  Delivers(m)'
    BY DEF Under, Sound, Delivery, Kept
  <2>1. \A d \in Execs : d # e => exec'[d] = exec[d]
    BY DEF GoesOn, Others
  <2>2. UNCHANGED msg
    BY DEF GoesOn
  <2> QED BY <1>1, <2>1, <2>2 DEF Delivers
<1> QED BY <1>2, <1>3, <1>4, <1>5 DEF Sound

LEMMA OneOwner ==
    ASSUME Under, NEW d \in Execs, NEW e \in Execs, Working(d), Working(e)
    PROVE  d = e
BY DEF Under, Sound, Ownership

LEMMA GoesOnByGo ==
    ASSUME Under, NEW e \in Execs, NEW pc, pc # "idle", exec[e].pc # "idle", Go(e, pc),
           UNCHANGED <<msg, rec>>,
           \/ faults' = faults /\ (pc \in {"fail", "throw"} => exec[e].pc \in {"fail", "throw"})
           \/ faults' = faults + 1
    PROVE  GoesOn(e) /\ exec'[e].pc = pc /\ exec'[e].at = exec[e].at
BY GoEffect DEF Under, GoesOn

LEMMA GoesOnByAdvance ==
    ASSUME Under, NEW e \in Execs, exec[e].pc # "idle", Advance(e), UNCHANGED <<msg, rec, faults>>
    PROVE  GoesOn(e) /\ exec'[e].pc = exec[e].pc /\ exec'[e].at = exec[e].at + 1
BY AdvanceEffect DEF Under, GoesOn

(* Going to the end of the handler, or through a step that makes nothing.   *)
LEMMA GoSound ==
    ASSUME Under, NEW e \in Execs, NEW pc \in {"claim", "claimStale", "cancel", "fail", "return", "throw"},
           exec[e].pc # "idle", Go(e, pc), UNCHANGED <<msg, rec>>, Kept,
           \/ faults' = faults /\ (pc \in {"fail", "throw"} => exec[e].pc \in {"fail", "throw"})
           \/ faults' = faults + 1,
           pc = "fail" => Working(e),
           pc = "claim" => exec[e].pc = "read",
           pc = "claimStale" => exec[e].pc = "claim",
           exec[e].pc \in {"read", "claim", "throw"} /\ pc # "claim" =>
              job[FirstJob].status # "queued"
    PROVE  Sound'
<1>1. GoesOn(e) /\ exec'[e].pc = pc /\ exec'[e].at = exec[e].at
  BY GoesOnByGo
<1>2. Made(e)'
  BY <1>1 DEF Under, Sound, Output, Made
<1> QED BY <1>1, <1>2, GoesOnSound DEF Working

LEMMA AdvanceSound ==
    ASSUME Under, NEW e \in Execs, exec[e].pc = "work", Advance(e),
           Steps[exec[e].at] \notin {"remove", "rename", "compile", "complete"},
           UNCHANGED <<msg, rec, faults>>, Kept
    PROVE  Sound'
<1>1. GoesOn(e) /\ exec'[e].pc = exec[e].pc /\ exec'[e].at = exec[e].at + 1
  BY GoesOnByAdvance
<1>2. exec[e].at \in 1 .. Len(Steps)
  BY DEF Under, TypeOK, HandlerState
<1>3. exec[e].at \notin {6, 7, 13}
  <2>1. Steps[6] = "remove" /\ Steps[7] = "rename" /\ Steps[13] = "compile"
    BY DEF Steps
  <2> QED BY <2>1
<1>4. Made(e)'
  BY <1>1, <1>2, <1>3 DEF Under, Sound, Output, Made, Kept
<1> QED BY <1>1, <1>4, GoesOnSound DEF Working

-------------------------------------------------------------------------------
(* A claim: nobody else works on the job.                                   *)
LEMMA ClaimSound ==
    ASSUME Under, NEW e \in Execs, exec[e].pc \in {"claim", "claimStale"}, exec[e].job = FirstJob,
           Claimable(FirstJob) \/ ClaimableStale(FirstJob),
           job' = Claimed(FirstJob, e), Go(e, "own"),
           UNCHANGED <<resource, msg, rec, compiled, wiki, faults>>
    PROVE  Sound'
<1>1. GoesOn(e) /\ exec'[e].pc = "own" /\ exec'[e].at = exec[e].at
  BY GoesOnByGo
<1>2. /\ job'[FirstJob].status = "processing" /\ job'[FirstJob].token = e
      /\ job'[FirstJob].lease = "live"
  BY ClaimedEffect, JobsAssumption DEF Under
<1>3. \A d \in Execs : d # e => ~Working(d)
  <2> SUFFICES ASSUME NEW d \in Execs, d # e, Working(d) PROVE FALSE
    OBVIOUS
  <2>1. "stall" \notin Faults
    BY DEF Under, Serial
  <2>2. job[FirstJob].status = "processing" /\ job[FirstJob].lease = "live"
    BY <2>1 DEF Under, Sound, Ownership
  <2> QED BY <2>2 DEF Claimable, ClaimableStale
<1>4. Held' /\ Budget' /\ Recovering'
  BY <1>1, GoesOnHeld
<1>5. Delivery' /\ Ownership'
  BY <1>1, <1>2, <1>3 DEF Delivery, Ownership, Working, GoesOn, Others
<1>6. Output'
  <2>1. \A d \in Execs : d # e => Made(d)'
    BY <1>1 DEF Under, Sound, Output, GoesOn, Others, Made
  <2>2. Made(e)'
    BY <1>1 DEF Under, Sound, Output, Made
  <2> QED BY <1>2, <2>1, <2>2 DEF Output
<1> QED BY <1>4, <1>5, <1>6 DEF Sound

(* A step of the owner that writes the resource or the output.              *)
LEMMA OwnerWrites ==
    ASSUME Under, NEW e \in Execs, Working(e), GoesOn(e), UNCHANGED job, exec'[e].pc # "own",
           \A d \in Execs : exec[d].pc = "work" => d = e,
           Made(e)'
    PROVE  Sound'
<1>1. Held' /\ Budget' /\ Recovering'
  BY GoesOnHeld
<1>2. job[FirstJob].status = "processing"
  BY DEF Under, Sound, Ownership
<1>3. Delivery' /\ Ownership'
  BY <1>2 DEF Under, Sound, Delivery, Ownership, Working, GoesOn, Others
<1>4. Output'
  <2>1. \A d \in Execs : d # e => Made(d)'
    BY DEF Under, Sound, Output, GoesOn, Others, Made
  <2> QED BY <1>2, <2>1 DEF Output
<1> QED BY <1>1, <1>3, <1>4 DEF Sound

(* The owner lets go of the job.                                            *)
LEMMA ReleaseSound ==
    ASSUME Under, NEW e \in Execs, Working(e), GoesOn(e), exec'[e].pc \in {"return", "throw"},
           NEW s, job' = Released(FirstJob, s),
           s = "queued" => exec'[e].pc = "throw",
           s = "completed" => compiled /\ wiki /\ resource' = "ready",
           UNCHANGED <<compiled, wiki>>
    PROVE  Sound'
<1>1. Held' /\ Budget' /\ Recovering'
  BY GoesOnHeld
<1>2. job'[FirstJob].status = s
  BY ReleasedEffect, JobsAssumption DEF Under
<1>3. \A d \in Execs : ~Working(d)'
  BY OneOwner DEF Under, GoesOn, Others, Working
<1>4. Ownership'
  BY <1>3 DEF Ownership
<1>5. Output'
  <2>1. \A d \in Execs : d # e => Made(d)'
    BY DEF Under, Sound, Output, GoesOn, Others, Made
  <2>2. Made(e)'
    BY <1>3 DEF Under, Sound, Output, Made, Working
  <2> QED BY <1>2, <2>1, <2>2 DEF Output
<1>6. ASSUME s = "queued" PROVE \E m \in Messages : Delivers(m)'
  <2> DEFINE m == exec[e].msg
  <2>1. Holds(e) /\ Holds(e)'
    BY <1>1 DEF Under, Sound, Held
  <2>2. m \in Messages /\ exec'[e].msg = m
    BY <2>1 DEF Holds, Working, GoesOn, Keeps
  <2>3. CASE exec'[e].aborted
    <3>1. Delivers(m)'
      BY <2>1, <2>2, <2>3 DEF Holds, Delivers, GoesOn
    <3> QED BY <2>2, <3>1
  <2>4. CASE ~exec'[e].aborted
    <3>1. msg'[m].state = "active" /\ Served(m, e)'
      BY <2>1, <2>2, <2>4 DEF Holds, Served, GoesOn
    <3>2. \A d \in Execs : Served(m, d)' => d = e
      BY <1>1, <2>2, <3>1 DEF Held
    <3>3. Delivers(m)'
      BY <1>6, <2>2, <3>1, <3>2 DEF Delivers
    <3> QED BY <2>2, <3>3
  <2> QED BY <2>2, <2>3, <2>4
<1>7. Delivery'
  BY <1>2, <1>6 DEF Delivery
<1> QED BY <1>1, <1>4, <1>5, <1>7 DEF Sound

LEMMA HandlerSound ==
    ASSUME Under, NEW e \in Execs,
           \/ ReadJob(e) \/ Claim(e) \/ ClaimStale(e) \/ OwnResource(e)
           \/ CheckCancelled(e) \/ Refresh(e) \/ EnterStage(e) \/ Parse(e)
           \/ RemoveCompiled(e) \/ RenameCompiled(e) \/ CompileWiki(e)
           \/ MarkCompleted(e) \/ MarkFailed(e) \/ StepThrows(e)
    PROVE  Sound'
<1>0. TypeOK /\ job[FirstJob].status \notin {"cancel_requested", "cancelled"}
  BY DEF Under, Cancelling
<1>f. exec[e].pc # "idle" => exec[e].job = FirstJob
  BY DEF Under, OneJob
<1>at. exec[e].at \in 1 .. Len(Steps)
  BY DEF Under, TypeOK, HandlerState
<1>w. ASSUME exec[e].pc = "work" PROVE \A d \in Execs : exec[d].pc = "work" => d = e
  BY <1>w, OneOwner DEF Working
<1>1. CASE ReadJob(e)
  <2>1. Go(e, "claim") /\ exec[e].pc = "read" /\ Kept /\ UNCHANGED <<msg, rec, faults>>
    BY <1>0, <1>1, <1>f DEF ReadJob, Cancelling, Kept
  <2> QED BY <2>1, GoSound
<1>2. CASE Claim(e)
  <2>1. CASE Claimable(FirstJob)
    BY <1>2, <1>f, <2>1, ClaimSound DEF Claim
  <2>2. CASE ~Claimable(FirstJob)
    <3>1. Go(e, "claimStale") /\ exec[e].pc = "claim" /\ Kept /\ UNCHANGED <<msg, rec, faults>>
      BY <1>2, <1>f, <2>2 DEF Claim, Kept
    <3> QED BY <2>2, <3>1, GoSound DEF Claimable
  <2> QED BY <2>1, <2>2
<1>3. CASE ClaimStale(e)
  <2>1. CASE ClaimableStale(FirstJob)
    BY <1>3, <1>f, <2>1, ClaimSound DEF ClaimStale
  <2>2. CASE ~ClaimableStale(FirstJob)
    <3>1. Go(e, "return") /\ exec[e].pc = "claimStale" /\ Kept /\ UNCHANGED <<msg, rec, faults>>
      BY <1>3, <1>f, <2>2 DEF ClaimStale, Kept
    <3> QED BY <3>1, GoSound
  <2> QED BY <2>1, <2>2
<1>4. CASE OwnResource(e)
  <2>1. exec[e].pc = "own" /\ Go(e, "work") /\ UNCHANGED <<job, msg, rec, compiled, wiki, faults>>
    BY <1>4 DEF OwnResource
  <2>2. GoesOn(e) /\ exec'[e].pc = "work" /\ exec'[e].at = exec[e].at
    BY <2>1, GoesOnByGo
  <2>3. Made(e)'
    BY <2>1, <2>2 DEF Under, Sound, Output, Made
  <2>4. \A d \in Execs : exec[d].pc = "work" => d = e
    BY <2>1, OneOwner DEF Working
  <2> QED BY <2>1, <2>2, <2>3, <2>4, OwnerWrites DEF Working
<1>5. CASE CheckCancelled(e)
  <2>1. /\ exec[e].pc = "work" /\ Steps[exec[e].at] = "check"
        /\ Go(e, "cancel") \/ Advance(e)
        /\ Kept /\ UNCHANGED <<msg, rec, faults>>
    BY <1>5 DEF CheckCancelled, At, Kept
  <2> QED BY <2>1, GoSound, AdvanceSound
<1>6. CASE Refresh(e) \/ EnterStage(e) \/ Parse(e)
  <2>1. /\ exec[e].pc = "work" /\ Steps[exec[e].at] \in {"refresh", "guard", "stage", "parse"}
        /\ Go(e, "return") \/ Advance(e)
        /\ Kept /\ UNCHANGED <<msg, rec, faults>>
    BY <1>6 DEF Refresh, EnterStage, Parse, At, Kept
  <2> QED BY <2>1, GoSound, AdvanceSound
<1>7. CASE RemoveCompiled(e)
  <2>1. exec[e].pc = "work" /\ exec[e].at = 6
    BY <1>7, <1>at, StepNumbers DEF RemoveCompiled, At
  <2>2. GoesOn(e) /\ exec'[e].pc = "work" /\ exec'[e].at = 7 /\ compiled' = FALSE
    BY <1>7, <2>1, GoesOnByAdvance DEF RemoveCompiled
  <2> QED BY <1>7, <1>w, <2>1, <2>2, OwnerWrites DEF RemoveCompiled, Working, Made
<1>8. CASE RenameCompiled(e)
  <2>1. exec[e].pc = "work" /\ exec[e].at = 7
    BY <1>8, <1>at, StepNumbers DEF RenameCompiled, At
  <2>2. ~compiled
    BY <2>1 DEF Under, Sound, Output, Made
  <2>3. GoesOn(e) /\ exec'[e].pc = "work" /\ exec'[e].at = 8 /\ compiled' = TRUE
    BY <1>8, <2>1, <2>2, GoesOnByAdvance DEF RenameCompiled
  <2> QED BY <1>8, <1>w, <2>1, <2>3, OwnerWrites DEF RenameCompiled, Working, Made
<1>9. CASE CompileWiki(e)
  <2>1. exec[e].pc = "work" /\ exec[e].at = 13
    BY <1>9, <1>at, StepNumbers DEF CompileWiki, At
  <2>2. GoesOn(e) /\ exec'[e].pc = "work" /\ exec'[e].at = 14 /\ wiki' = TRUE
    BY <1>9, <2>1, GoesOnByAdvance DEF CompileWiki
  <2>3. compiled' = TRUE
    BY <1>9, <2>1 DEF CompileWiki, Under, Sound, Output, Made, TypeOK
  <2> QED BY <1>9, <1>w, <2>1, <2>2, <2>3, OwnerWrites DEF CompileWiki, Working, Made
<1>10. CASE MarkCompleted(e)
  <2>1. exec[e].pc = "work" /\ exec[e].at = 18
    BY <1>10, <1>at, StepNumbers DEF MarkCompleted, At
  <2>2. GoesOn(e) /\ exec'[e].pc = "return"
    BY <1>10, <2>1, GoesOnByGo DEF MarkCompleted
  <2>3. CASE Owns(e, exec[e].job)
    <3>1. compiled /\ wiki
      BY <2>1 DEF Under, Sound, Output, Made
    <3>2. /\ job' = Released(FirstJob, "completed") /\ resource' = "ready"
          /\ UNCHANGED <<compiled, wiki>>
      BY <1>10, <1>f, <2>1, <2>3 DEF MarkCompleted
    <3> QED BY <2>1, <2>2, <3>1, <3>2, ReleaseSound DEF Working
  <2>4. CASE ~Owns(e, exec[e].job)
    <3>1. Go(e, "return") /\ Kept /\ UNCHANGED <<msg, rec, faults>>
      BY <1>10, <2>4 DEF MarkCompleted, Kept
    <3> QED BY <2>1, <3>1, GoSound
  <2> QED BY <2>3, <2>4
<1>11. CASE MarkFailed(e)
  <2>1. exec[e].pc = "fail" /\ exec[e].tries < RetryLimit
    BY <1>11, FailsEarly DEF MarkFailed, Under, Sound
  <2>2. GoesOn(e) /\ exec'[e].pc = "throw"
    BY <1>11, <2>1, GoesOnByGo DEF MarkFailed
  <2>3. CASE Owns(e, exec[e].job)
    <3>1. job' = Released(FirstJob, "queued") /\ UNCHANGED <<compiled, wiki>>
      BY <1>11, <1>f, <2>1, <2>3 DEF MarkFailed
    <3> QED BY <2>1, <2>2, <3>1, ReleaseSound DEF Working
  <2>4. CASE ~Owns(e, exec[e].job)
    <3>1. Go(e, "throw") /\ Kept /\ UNCHANGED <<msg, rec, faults>>
      BY <1>11, <2>4 DEF MarkFailed, Kept
    <3> QED BY <2>1, <3>1, GoSound
  <2> QED BY <2>3, <2>4
<1>12. CASE StepThrows(e)
  <2>1. exec[e].pc = "work" /\ Kept /\ UNCHANGED <<msg, rec>>
    BY <1>12 DEF StepThrows, At, Kept
  <2>2. CASE Faulty("error") /\ Go(e, "fail")
    BY <1>0, <2>1, <2>2, FaultCounted, GoSound DEF Working
  <2>3. CASE Go(e, "cancel") /\ UNCHANGED faults
    BY <2>1, <2>3, GoSound
  <2> QED BY <1>12, <2>2, <2>3 DEF StepThrows
<1> QED
  BY <1>1, <1>2, <1>3, <1>4, <1>5, <1>6, <1>7, <1>8, <1>9, <1>10, <1>11, <1>12

-------------------------------------------------------------------------------
(* Who serves a message does so in the same place as before.                *)
SameService(n) == \A d \in Execs : Served(n, d)' => Served(n, d) /\ exec'[d].pc = exec[d].pc

LEMMA SameServiceKept ==
    ASSUME Under, NEW n \in Messages, SameService(n), msg'[n] = msg[n], faults' >= faults,
           faults' \in Nat,
           msg[n].state = "active" => \A d \in Execs : Served(n, d) => Served(n, d)'
    PROVE  Paid(n)' /\ (Delivers(n) => Delivers(n)')
<1>1. Paid(n) /\ msg[n].tries \in Nat /\ faults \in Nat
  BY LimitAssumption DEF Under, Sound, Budget, TypeOK, Message
<1>2. Due(n)' => Due(n)
  BY DEF Due, SameService
<1>3. Delivers(n) => Delivers(n)'
  BY DEF Delivers, SameService
<1> QED BY <1>1, <1>2, <1>3 DEF Paid

(* A message goes back to the queue, for a fault.                           *)
LEMMA ReadyAgain ==
    ASSUME Under, NEW m \in Messages,
           \A n \in Messages : n # m => msg'[n] = msg[n],
           msg'[m].state = "ready", msg'[m].tries <= faults', faults' >= faults, faults' \in Nat,
           \A d \in Execs : ~Served(m, d)',
           \A n \in Messages : n # m => SameService(n) /\ \A d \in Execs : Served(n, d) => Served(n, d)',
           \A d \in Execs : Holds(d)'
    PROVE  Held' /\ Budget' /\ Delivery'
<1>1. Held'
  BY DEF Held, SameService, Under, Sound
<1>2. ASSUME NEW n \in Messages PROVE Paid(n)'
  <2>1. CASE n # m
    BY <2>1, SameServiceKept
  <2>2. CASE n = m
    BY <2>2 DEF Paid, Due
  <2> QED BY <2>1, <2>2
<1>3. Delivers(m)'
  BY DEF Delivers
<1>4. Delivery'
  BY <1>3 DEF Delivery
<1> QED BY <1>1, <1>2, <1>4 DEF Budget

LEMMA ActiveHandler ==
    ASSUME Under, NEW e \in Execs, exec[e].pc # "idle", ~exec[e].aborted
    PROVE  /\ exec[e].msg \in Messages /\ msg[exec[e].msg].state = "active"
           /\ exec[e].tries = msg[exec[e].msg].tries
           /\ \A d \in Execs : Served(exec[e].msg, d) => d = e
BY DEF Under, Sound, Held, Holds, Served

(* Every message has been redelivered as often as there were faults at most.*)
LEMMA TriesPaid ==
    ASSUME Under, NEW m \in Messages
    PROVE  /\ msg[m].tries \in Nat /\ faults \in Nat /\ RetryLimit \in Nat /\ faults <= RetryLimit
           /\ msg[m].tries <= faults /\ (Due(m) => msg[m].tries + 1 <= faults)
<1>1. msg[m].tries \in Nat /\ faults \in Nat /\ RetryLimit \in Nat /\ faults <= RetryLimit
  BY LimitAssumption DEF Under, Serial, TypeOK, Message
<1>2. Paid(m)
  BY DEF Under, Sound, Budget
<1> QED BY <1>1, <1>2 DEF Paid

(* A handler ends while the job and the recovery stay as they are.          *)
LEMMA EndKeeps ==
    ASSUME Under, NEW e \in Execs, exec[e].pc # "idle", Others(e), exec'[e].pc = "idle", Kept,
           UNCHANGED rec
    PROVE  /\ Ownership' /\ Recovering' /\ Output'
           /\ \A n \in Messages : SameService(n)
           /\ \A n \in Messages, d \in Execs : Served(n, d) /\ d # e => Served(n, d)'
           /\ \A n \in Messages : ~Served(n, e)'
<1>1. Ownership'
  BY DEF Under, Sound, Ownership, Others, Kept, Working
<1>2. Recovering'
  BY DEF Under, Sound, Recovering, Kept
<1>3. Output'
  <2>1. \A d \in Execs : d # e => Made(d)'
    BY DEF Under, Sound, Output, Others, Kept, Made
  <2>2. Made(e)'
    BY DEF Made
  <2> QED BY <2>1, <2>2 DEF Under, Sound, Output, Kept
<1>4. \A n \in Messages : SameService(n) /\ ~Served(n, e)'
  BY DEF SameService, Served, Others
<1>5. \A n \in Messages, d \in Execs : Served(n, d) /\ d # e => Served(n, d)'
  BY DEF Served, Others
<1> QED BY <1>1, <1>2, <1>3, <1>4, <1>5

(* An aborted handler that ends leaves its message to the queue.            *)
LEMMA AbortedEnds ==
    ASSUME Under, NEW e \in Execs, exec[e].pc # "idle", exec[e].aborted,
           Others(e), exec'[e].pc = "idle", Kept,
           UNCHANGED <<msg, rec>>, faults' >= faults, faults' \in Nat
    PROVE  Sound'
<1>1. /\ Ownership' /\ Recovering' /\ Output' /\ \A n \in Messages : SameService(n)
      /\ \A n \in Messages, d \in Execs : Served(n, d) => Served(n, d)'
  BY EndKeeps DEF Served
<1>2. Held'
  BY <1>1 DEF Under, Sound, Held, Holds, Others, SameService
<1>3. Budget' /\ Delivery'
  BY <1>1, SameServiceKept DEF Budget, Delivery, Under, Sound, Kept
<1> QED BY <1>1, <1>2, <1>3 DEF Sound

LEMMA ReturnSound == ASSUME Under, NEW e \in Execs, Return(e) PROVE Sound'
<1>1. /\ exec[e].pc = "return" /\ Others(e) /\ exec'[e].pc = "idle" /\ Kept
      /\ UNCHANGED <<rec, faults>>
  BY EndEffect DEF Under, Return, Kept
<1>f. faults \in Nat
  BY LimitAssumption DEF Under, TypeOK
<1>2. CASE exec[e].aborted
  BY <1>1, <1>2, <1>f, AbortedEnds DEF Return
<1>3. CASE ~exec[e].aborted
  <2> PICK m \in Messages : m = exec[e].msg
    BY <1>1, <1>3, ActiveHandler
  <2>1. msg[m].state = "active" /\ \A d \in Execs : Served(m, d) => d = e
    BY <1>1, <1>3, ActiveHandler
  <2>2. /\ \A n \in Messages : n # m => msg'[n] = msg[n]
        /\ msg'[m].state = "completed" /\ msg'[m].tries = msg[m].tries
    BY <1>3, <2>1, AcknowledgedEffect DEF Return, Under
  <2>s. Served(m, e)
    BY <1>1, <1>3 DEF Served
  <2>3. /\ Ownership' /\ Recovering' /\ Output'
        /\ \A n \in Messages : SameService(n)
        /\ \A n \in Messages, d \in Execs : Served(n, d) /\ d # e => Served(n, d)'
        /\ \A n \in Messages : ~Served(n, e)'
    BY <1>1, EndKeeps
  <2>4. \A n \in Messages : n # m => ~Served(n, e)
    BY <2>s DEF Served
  <2>5. Held'
    <3>1. \A d \in Execs : d # e => Holds(d)'
      <4> SUFFICES ASSUME NEW d \in Execs, d # e, exec[d].pc # "idle" PROVE Holds(d)'
        BY <1>1 DEF Others, Holds
      <4>1. Holds(d)
        BY DEF Under, Sound, Held
      <4>2. exec[d].msg # m
        BY <2>1, <4>1 DEF Holds, Served
      <4> QED BY <1>1, <2>2, <4>1, <4>2 DEF Others, Holds
    <3>2. Holds(e)'
      BY <1>1 DEF Holds
    <3> QED BY <2>3, <3>1, <3>2 DEF Under, Sound, Held, SameService
  <2>6. ASSUME NEW n \in Messages, n # m PROVE Paid(n)' /\ (Delivers(n) => Delivers(n)')
    BY <1>1, <1>f, <2>2, <2>3, <2>4, <2>6, SameServiceKept
  <2>7. Paid(m)' /\ ~Delivers(m)
    <3>1. Paid(m)'
      BY <1>1, <2>1, <2>2, TriesPaid DEF Paid, Due
    <3>2. ~Delivers(m)
      BY <1>1, <2>1, <2>s DEF Delivers
    <3> QED BY <3>1, <3>2
  <2>8. Budget' /\ Delivery'
    BY <1>1, <2>6, <2>7 DEF Budget, Delivery, Under, Sound, Kept
  <2> QED BY <2>3, <2>5, <2>8 DEF Sound
<1> QED BY <1>2, <1>3

LEMMA ThrowSound == ASSUME Under, NEW e \in Execs, Throw(e) PROVE Sound'
<1>1. /\ exec[e].pc = "throw" /\ Others(e) /\ exec'[e].pc = "idle" /\ Kept
      /\ UNCHANGED <<rec, faults>>
  BY EndEffect DEF Under, Throw, Kept
<1>f. faults \in Nat
  BY LimitAssumption DEF Under, TypeOK
<1>2. CASE exec[e].aborted
  BY <1>1, <1>2, <1>f, AbortedEnds DEF Throw
<1>3. CASE ~exec[e].aborted
  <2> PICK m \in Messages : m = exec[e].msg
    BY <1>1, <1>3, ActiveHandler
  <2>1. msg[m].state = "active" /\ \A d \in Execs : Served(m, d) => d = e
    BY <1>1, <1>3, ActiveHandler
  <2>2. Due(m)
    BY <1>1, <2>1 DEF Due
  <2>3. msg[m].tries + 1 <= faults /\ msg[m].tries < RetryLimit
    BY <2>1, <2>2, TriesPaid
  <2>4. /\ \A n \in Messages : n # m => msg'[n] = msg[n]
        /\ msg'[m].state = "ready" /\ msg'[m].tries = msg[m].tries + 1
    BY <1>3, <2>1, <2>3, RedeliveredEffect DEF Throw, Under
  <2>s. Served(m, e)
    BY <1>1, <1>3 DEF Served
  <2>5. /\ Ownership' /\ Recovering' /\ Output'
        /\ \A n \in Messages : SameService(n)
        /\ \A n \in Messages, d \in Execs : Served(n, d) /\ d # e => Served(n, d)'
        /\ \A n \in Messages : ~Served(n, e)'
    BY <1>1, EndKeeps
  <2>6. /\ \A d \in Execs : ~Served(m, d)'
        /\ \A n \in Messages, d \in Execs : n # m => (Served(n, d) => Served(n, d)')
    <3>1. \A n \in Messages : n # m => ~Served(n, e)
      BY <2>s DEF Served
    <3> QED BY <2>1, <2>5, <3>1 DEF SameService
  <2>7. \A d \in Execs : Holds(d)'
    <3> SUFFICES ASSUME NEW d \in Execs, d # e, exec[d].pc # "idle" PROVE Holds(d)'
      BY <1>1 DEF Others, Holds
    <3>1. Holds(d)
      BY DEF Under, Sound, Held
    <3>2. exec[d].msg # m
      BY <2>1, <3>1 DEF Holds, Served
    <3> QED BY <1>1, <2>4, <3>1, <3>2 DEF Others, Holds
  <2>8. Held' /\ Budget' /\ Delivery'
    BY <1>1, <1>f, <2>1, <2>3, <2>4, <2>5, <2>6, <2>7, ReadyAgain
  <2> QED BY <2>5, <2>8 DEF Sound
<1> QED BY <1>2, <1>3

LEMMA HeartbeatSound == ASSUME Under, NEW e \in Execs, HeartbeatFails(e) PROVE Sound'
<1>1. exec[e].pc = "work" /\ faults' = faults + 1 /\ Kept /\ UNCHANGED <<msg, rec>>
  BY FaultCounted DEF Under, HeartbeatFails, At, Kept
<1>2. /\ Others(e) /\ Keeps(e) /\ exec'[e].aborted = exec[e].aborted
      /\ exec'[e].at = exec[e].at /\ exec'[e].pc = exec[e].pc
  BY DEF Under, TypeOK, HandlerState, HeartbeatFails, Others, Keeps
<1>3. GoesOn(e)
  BY <1>1, <1>2 DEF GoesOn
<1>4. Made(e)'
  BY <1>1, <1>2 DEF Under, Sound, Output, Made, Kept
<1> QED BY <1>1, <1>2, <1>3, <1>4, GoesOnSound DEF Working

(* pg-boss gives the message of a living handler away: there is one slot.   *)
LEMMA TimeoutSound == ASSUME Under, NEW e \in Execs, Timeout(e) PROVE Sound'
<1>1. /\ exec[e].pc # "idle" /\ ~exec[e].aborted /\ "timeout" \in Faults
      /\ faults' = faults + 1 /\ faults < MaxFaults /\ faults \in Nat /\ Kept /\ UNCHANGED rec
  BY FaultCounted DEF Under, Timeout, Kept
<1>2. \A d \in Execs : d = e
  BY <1>1 DEF Under, Serial
<1>3. PICK m \in Messages : m = exec[e].msg /\ msg[m].state = "active" /\ exec[e].tries = msg[m].tries
  BY <1>1, ActiveHandler
<1>4. msg[m].tries < RetryLimit /\ msg[m].tries + 1 <= faults'
  BY <1>1, <1>3, TriesPaid, LimitAssumption DEF Under, Serial
<1>5. /\ \A n \in Messages : n # m => msg'[n] = msg[n]
      /\ msg'[m].state = "ready" /\ msg'[m].tries = msg[m].tries + 1
  BY <1>3, <1>4, RedeliveredEffect DEF Timeout, Under
<1>6. /\ Keeps(e) /\ exec'[e].aborted = TRUE /\ exec'[e].pc = exec[e].pc /\ exec'[e].at = exec[e].at
  BY DEF Under, TypeOK, HandlerState, Timeout, Keeps
<1>7. \A n \in Messages, d \in Execs : ~Served(n, d)' /\ (n # m => ~Served(n, d))
  BY <1>2, <1>3, <1>6 DEF Served
<1>8. \A d \in Execs : Holds(d)'
  BY <1>1, <1>2, <1>3, <1>4, <1>5, <1>6 DEF Holds, Keeps
<1>9. Held' /\ Budget' /\ Delivery'
  BY <1>1, <1>4, <1>5, <1>7, <1>8, ReadyAgain DEF SameService
<1>10. Ownership' /\ Output'
  BY <1>1, <1>2, <1>6 DEF Under, Sound, Ownership, Output, Made, Working, Kept
<1>11. Recovering'
  BY <1>1 DEF Under, Sound, Recovering
<1> QED BY <1>9, <1>10, <1>11 DEF Sound

LEMMA CrashSound == ASSUME Under, NEW e \in Execs, Crash(e) PROVE Sound'
<1>1. /\ exec[e].pc # "idle" /\ Others(e) /\ exec'[e].pc = "idle" /\ Kept
      /\ UNCHANGED <<msg, rec>> /\ faults' = faults + 1 /\ faults \in Nat /\ faults' \in Nat
  BY EndEffect, FaultCounted DEF Under, Crash, Kept
<1>2. CASE exec[e].aborted
  BY <1>1, <1>2, AbortedEnds
<1>3. CASE ~exec[e].aborted
  <2> PICK m \in Messages : m = exec[e].msg
    BY <1>1, <1>3, ActiveHandler
  <2>1. msg[m].state = "active" /\ \A d \in Execs : Served(m, d) => d = e
    BY <1>1, <1>3, ActiveHandler
  <2>2. /\ Ownership' /\ Recovering' /\ Output'
        /\ \A n \in Messages : SameService(n)
        /\ \A n \in Messages, d \in Execs : Served(n, d) /\ d # e => Served(n, d)'
        /\ \A n \in Messages : ~Served(n, e)'
    BY <1>1, EndKeeps
  <2>3. Held'
    BY <1>1, <2>2 DEF Under, Sound, Held, Holds, Others, SameService
  <2>4. \A n \in Messages : n # m => ~Served(n, e)
    BY DEF Served
  <2>5. ASSUME NEW n \in Messages, n # m PROVE Paid(n)' /\ (Delivers(n) => Delivers(n)')
    BY <1>1, <2>2, <2>4, <2>5, SameServiceKept
  <2>6. Paid(m)' /\ Delivers(m)'
    <3>1. Paid(m)'
      BY <1>1, TriesPaid DEF Paid
    <3>2. \A d \in Execs : ~Served(m, d)'
      BY <2>1, <2>2 DEF SameService
    <3> QED BY <1>1, <2>1, <3>1, <3>2 DEF Delivers
  <2>7. Budget' /\ Delivery'
    BY <1>1, <2>5, <2>6 DEF Budget, Delivery
  <2> QED BY <2>2, <2>3, <2>7 DEF Sound
<1> QED BY <1>2, <1>3

LEMMA FetchSound == ASSUME Under, NEW e \in Execs, NEW m \in Messages, Fetch(e, m) PROVE Sound'
<1>1. /\ exec[e].pc = "idle" /\ msg[m].state = "ready" /\ rec.pc = "idle" /\ Kept
      /\ UNCHANGED <<rec, faults>> /\ faults \in Nat
  BY LimitAssumption DEF Under, Serial, TypeOK, Fetch, Kept
<1>2. /\ \A n \in Messages : n # m => msg'[n] = msg[n]
      /\ msg'[m].state = "active" /\ msg'[m].tries = msg[m].tries
  BY DEF Fetch, Under, TypeOK, Message
<1>3. /\ Others(e) /\ exec'[e].pc = "read" /\ exec'[e].msg = m /\ exec'[e].at = 1
      /\ exec'[e].tries = msg[m].tries /\ exec'[e].aborted = FALSE
  BY DEF Fetch, Under, TypeOK, NoExec, Others
<1>4. \A d \in Execs : exec[d].pc # "idle" => exec[d].msg # m
  <2> SUFFICES ASSUME NEW d \in Execs, exec[d].pc # "idle", exec[d].msg = m PROVE FALSE
    OBVIOUS
  <2>1. exec[d].aborted
    BY <1>1 DEF Under, Sound, Held, Holds
  <2>2. d = e
    BY <2>1 DEF Under, Sound, Held, Holds, Serial
  <2> QED BY <1>1, <2>2
<1>5. Held'
  <2>1. \A d \in Execs : d # e => Holds(d)'
    <3> SUFFICES ASSUME NEW d \in Execs, d # e, exec[d].pc # "idle" PROVE Holds(d)'
      BY <1>3 DEF Others, Holds
    <3>1. Holds(d)
      BY DEF Under, Sound, Held
    <3> QED BY <1>2, <1>3, <1>4, <3>1 DEF Others, Holds
  <2>2. Holds(e)'
    BY <1>2, <1>3 DEF Holds
  <2>3. \A c, d \in Execs, n \in Messages : Served(n, c)' /\ Served(n, d)' => c = d
    BY <1>3, <1>4 DEF Under, Sound, Held, Served, Others
  <2> QED BY <2>1, <2>2, <2>3 DEF Held
<1>6. \A d \in Execs : Served(m, d)' <=> d = e
  BY <1>3, <1>4 DEF Served, Others
<1>7. ASSUME NEW n \in Messages, n # m PROVE Paid(n)' /\ (Delivers(n) => Delivers(n)')
  <2>1. ~Served(n, e)' /\ ~Served(n, e)
    BY <1>1, <1>3, <1>7 DEF Served
  <2>2. SameService(n) /\ \A d \in Execs : Served(n, d) => Served(n, d)'
    BY <1>3, <2>1 DEF SameService, Served, Others
  <2> QED BY <1>1, <1>2, <1>7, <2>2, SameServiceKept
<1>8. Paid(m)' /\ Delivers(m)'
  <2>1. ~Due(m)'
    BY <1>3, <1>6 DEF Due
  <2>2. Paid(m)'
    BY <1>1, <1>2, <2>1, TriesPaid DEF Paid
  <2>3. Delivers(m)'
    BY <1>2, <1>3, <1>6 DEF Delivers
  <2> QED BY <2>2, <2>3
<1>9. Budget' /\ Delivery'
  BY <1>7, <1>8 DEF Budget, Delivery
<1>10. Ownership' /\ Recovering' /\ Output'
  <2>1. Ownership'
    BY <1>1, <1>3 DEF Under, Sound, Ownership, Working, Others, Kept
  <2>2. Recovering'
    BY <1>1 DEF Under, Sound, Recovering
  <2>3. \A d \in Execs : d # e => Made(d)'
    BY <1>1, <1>3 DEF Under, Sound, Output, Others, Kept, Made
  <2>4. Made(e)'
    BY <1>3 DEF Made
  <2> QED BY <1>1, <2>1, <2>2, <2>3, <2>4 DEF Output, Under, Sound, Kept
<1> QED BY <1>5, <1>9, <1>10 DEF Sound

LEMMA ExpirySound == ASSUME Under, NEW m \in Messages, MessageExpires(m) PROVE Sound'
<1>1. /\ msg[m].state = "active" /\ \A d \in Execs : exec[d].pc # "idle" => exec[d].msg # m
      /\ Kept /\ UNCHANGED <<exec, rec, faults>>
  BY DEF MessageExpires, Kept
<1>2. \A d \in Execs : ~Served(m, d)
  BY <1>1 DEF Served
<1>3. msg[m].tries + 1 <= faults /\ msg[m].tries < RetryLimit /\ faults \in Nat
  BY <1>1, <1>2, TriesPaid DEF Due
<1>4. /\ \A n \in Messages : n # m => msg'[n] = msg[n]
      /\ msg'[m].state = "ready" /\ msg'[m].tries = msg[m].tries + 1
  BY <1>1, <1>3, RedeliveredEffect DEF MessageExpires, Under
<1>5. \A d \in Execs : Holds(d)'
  BY <1>1, <1>4 DEF Under, Sound, Held, Holds
<1>6. \A n \in Messages, d \in Execs : Served(n, d)' <=> Served(n, d)
  BY <1>1 DEF Served
<1>7. Held' /\ Budget' /\ Delivery'
  BY <1>1, <1>2, <1>3, <1>4, <1>5, <1>6, ReadyAgain DEF SameService
<1>8. Ownership' /\ Output'
  BY <1>1 DEF Under, Sound, Ownership, Output, Made, Working, Kept
<1>9. Recovering'
  <2>1. rec.pc = "release" => rec.msg # m
    BY <1>1 DEF Under, Sound, Recovering
  <2> QED BY <1>1, <1>4, <2>1 DEF Under, Sound, Recovering, Kept
<1> QED BY <1>7, <1>8, <1>9 DEF Sound

-------------------------------------------------------------------------------
(* The steps of nobody in particular leave the handlers alone.              *)
LEMMA HandlersRest ==
    ASSUME Under, UNCHANGED <<exec, msg>>, faults' >= faults, faults' \in Nat
    PROVE  Held' /\ Budget' /\ \A m \in Messages : Delivers(m) => Delivers(m)'
<1>1. Held'
  BY DEF Under, Sound, Held, Holds, Served
<1>2. \A m \in Messages : SameService(m) /\ \A d \in Execs : Served(m, d) => Served(m, d)'
  BY DEF SameService, Served
<1> QED BY <1>1, <1>2, SameServiceKept DEF Budget

LEMMA LeaseSound == ASSUME Under, NEW j \in Jobs, LeaseExpires(j) PROVE Sound'
<1>1. j = FirstJob
  BY DEF Under, OneJob, NoJob, LeaseExpires
<1>2. /\ job'[FirstJob].status = job[FirstJob].status /\ job'[FirstJob].token = job[FirstJob].token
      /\ job'[FirstJob].outbox = job[FirstJob].outbox
      /\ UNCHANGED <<resource, msg, exec, rec, compiled, wiki>>
  BY <1>1, JobsAssumption DEF LeaseExpires, Under, TypeOK, JobRow
<1>3. faults' >= faults /\ faults' \in Nat
  BY FaultCounted, LimitAssumption DEF LeaseExpires, Under, TypeOK
<1>4. Held' /\ Budget' /\ Delivery'
  BY <1>2, <1>3, HandlersRest DEF Under, Sound, Delivery
<1>5. Ownership'
  <2> SUFFICES ASSUME NEW e \in Execs, Working(e) PROVE "stall" \in Faults
    BY <1>2 DEF Under, Sound, Ownership, Working
  <2>1. job[FirstJob].status = "processing" /\ HolderAlive(FirstJob)
    BY DEF Under, Sound, Ownership, OneJob, Working, HolderAlive
  <2> QED BY <1>1, <2>1, FaultCounted DEF LeaseExpires, Under
<1>6. Recovering' /\ Output'
  BY <1>2 DEF Under, Sound, Recovering, Output, Made
<1> QED BY <1>4, <1>5, <1>6 DEF Sound

(* The outbox row changes, and a message may appear.                        *)
LEMMA OutboxSound ==
    ASSUME Under, NEW j \in Jobs, OutboxClaim(j) \/ OutboxPublish(j) \/ OutboxFails(j)
    PROVE  Sound'
<1>1. j = FirstJob
  BY DEF Under, OneJob, NoJob, OutboxClaim, OutboxPublish, OutboxFails
<1>2. /\ job'[FirstJob].status = job[FirstJob].status /\ job'[FirstJob].token = job[FirstJob].token
      /\ job'[FirstJob].lease = job[FirstJob].lease
      /\ UNCHANGED <<resource, exec, rec, compiled, wiki>>
  BY <1>1, JobsAssumption DEF OutboxClaim, OutboxPublish, OutboxFails, Under, TypeOK, JobRow
<1>3. faults' >= faults /\ faults' \in Nat
  BY FaultCounted, LimitAssumption DEF OutboxClaim, OutboxPublish, OutboxFails, Under, TypeOK
<1>4. Ownership' /\ Output'
  BY <1>2 DEF Under, Sound, Ownership, Output, Made, Working
<1>5. CASE OutboxClaim(j) \/ OutboxFails(j)
  <2>1. UNCHANGED msg
    BY <1>5 DEF OutboxClaim, OutboxFails
  <2>2. Held' /\ Budget'
    BY <1>2, <1>3, <2>1, HandlersRest
  <2>3. Delivery'
    <3>1. job[FirstJob].status = "queued" => job'[FirstJob].outbox \in {"pending", "dispatching"}
      BY <1>1, <1>5, JobsAssumption DEF OutboxClaim, OutboxFails, Under, TypeOK, JobRow
    <3> QED BY <1>2, <3>1 DEF Delivery
  <2>4. Recovering'
    BY <1>2, <2>1 DEF Under, Sound, Recovering
  <2> QED BY <1>4, <2>2, <2>3, <2>4 DEF Sound
<1>6. CASE OutboxPublish(j)
  <2>1. PICK m \in Messages : msg[m].state = "unsent" /\ msg' = Sent(m, j)
    BY <1>6 DEF OutboxPublish
  <2>2. /\ \A n \in Messages : n # m => msg'[n] = msg[n]
        /\ msg'[m].state = "ready" /\ msg'[m].tries = 0
    BY <2>1, SentEffect DEF Under
  <2>3. \A d \in Execs : exec[d].pc # "idle" => exec[d].msg # m
    BY <2>1 DEF Under, Sound, Held, Holds
  <2>4. \A d \in Execs : Holds(d)'
    BY <1>2, <2>2, <2>3 DEF Under, Sound, Held, Holds
  <2>5. \A n \in Messages, d \in Execs : Served(n, d)' <=> Served(n, d)
    BY <1>2 DEF Served
  <2>6. \A d \in Execs : ~Served(m, d)'
    BY <2>3, <2>5 DEF Served
  <2>7. Held' /\ Budget' /\ Delivery'
    BY <1>2, <1>3, <2>2, <2>4, <2>5, <2>6, ReadyAgain DEF SameService
  <2>8. Recovering'
    BY <1>2, <2>1, <2>2 DEF Under, Sound, Recovering
  <2> QED BY <1>4, <2>7, <2>8 DEF Sound
<1> QED BY <1>5, <1>6

-------------------------------------------------------------------------------
(* The recovery has the job to itself.                                      *)
LEMMA RecoverySound ==
    ASSUME Under, (\E j \in Jobs : RecoverScan(j)) \/ RecoveryStep \/ RecoverCrash
    PROVE  Sound'
<1>0. /\ TypeOK /\ rec \in RecoveryState /\ faults \in Nat
      /\ rec.pc \notin {"clear", "cancelled"} /\ (rec.pc # "idle" => rec.job = FirstJob)
      /\ job[FirstJob].status # "cancel_requested"
  BY LimitAssumption DEF Under, TypeOK, Sound, Recovering, OneJob, Cancelling
<1>1. /\ \A e \in Execs : exec[e].pc = "idle" /\ exec'[e].pc = "idle"
      /\ UNCHANGED exec
  BY DEF Under, Serial, Sound, Recovering, RecoverScan, RecoveryStep, RecoverClear, RecoverClaim,
         RecoverPublish, RecoverRelease, RecoverResource, RecoverCrash
<1>2. faults' >= faults /\ faults' \in Nat
  <2>1. CASE UNCHANGED faults
    BY <1>0, <2>1
  <2>2. CASE Faulty("queue") \/ Faulty("relapse")
    BY <1>0, <2>2, FaultCounted
  <2>3. UNCHANGED faults \/ Faulty("queue") \/ Faulty("relapse")
    BY DEF RecoverScan, RecoveryStep, RecoverClear, RecoverClaim,
           RecoverPublish, RecoverRelease, RecoverResource, RecoverCrash
  <2> QED BY <2>1, <2>2, <2>3
<1>3. Ownership' /\ \A e \in Execs : Made(e)'
  BY <1>1 DEF Ownership, Working, Made
<1>4. ASSUME UNCHANGED msg PROVE Held' /\ Budget' /\ \A m \in Messages : Delivers(m) => Delivers(m)'
  BY <1>1, <1>2, <1>4, HandlersRest
<1>5. CASE UNCHANGED <<job, resource, msg, compiled, wiki>>
           /\ (rec' = NoRec \/ (rec'.pc = "claim" /\ \A e \in Execs : exec[e].pc = "idle"))
  <2>1. Recovering'
    BY <1>1, <1>5 DEF Recovering, NoRec
  <2>2. Delivery' /\ Output'
    BY <1>3, <1>4, <1>5 DEF Under, Sound, Delivery, Output
  <2> QED BY <1>3, <1>4, <1>5, <2>1, <2>2 DEF Sound
<1>6. ASSUME NEW j \in Jobs, RecoverScan(j) PROVE Sound'
  <2>1. j = FirstJob
    BY <1>6 DEF RecoverScan, Under, OneJob, NoJob
  <2> QED BY <1>0, <1>1, <1>5, <1>6, <2>1 DEF RecoverScan
<1>7. CASE RecoverClaim
  <2>1. CASE ClaimableStale(rec.job)
    <3>1. job' = Claimed(FirstJob, Recovery) /\ rec' = [rec EXCEPT !.pc = "publish"]
      BY <1>0, <1>7, <2>1 DEF RecoverClaim, Recover, ClaimableStale
    <3>2. job'[FirstJob].status = "processing"
      BY <1>0, <3>1, ClaimedEffect, JobsAssumption
    <3>3. Recovering'
      BY <1>0, <1>1, <3>1 DEF Recovering, RecoveryState
    <3>4. UNCHANGED <<resource, msg, compiled, wiki>>
      BY <1>7 DEF RecoverClaim
    <3> QED BY <1>3, <1>4, <3>2, <3>3, <3>4 DEF Sound, Delivery, Output
  <2> QED BY <1>5, <1>7, <2>1 DEF RecoverClaim
<1>8. CASE RecoverPublish
  <2>1. CASE rec' = NoRec /\ UNCHANGED msg
    BY <1>5, <1>8, <2>1 DEF RecoverPublish
  <2>2. ASSUME NEW m \in Messages, msg' = Sent(m, rec.job),
               rec' = [rec EXCEPT !.pc = "release", !.msg = m]
        PROVE  Sound'
    <3>1. /\ \A n \in Messages : n # m => msg'[n] = msg[n]
          /\ msg'[m].state = "ready" /\ msg'[m].tries = 0
      BY <1>0, <2>2, SentEffect
    <3>2. \A n \in Messages, d \in Execs : ~Served(n, d)' /\ ~Served(n, d)
      BY <1>1 DEF Served
    <3>3. \A d \in Execs : Holds(d)'
      BY <1>1 DEF Holds
    <3>4. Held' /\ Budget' /\ Delivery'
      BY <1>2, <3>1, <3>2, <3>3, ReadyAgain DEF SameService
    <3>5. rec'.pc = "release" /\ rec'.msg = m
      BY <1>0, <2>2 DEF RecoveryState
    <3>6. Recovering'
      BY <1>1, <3>1, <3>5 DEF Recovering
    <3>7. Output'
      BY <1>3, <1>8 DEF RecoverPublish, Under, Sound, Output
    <3> QED BY <1>3, <3>4, <3>6, <3>7 DEF Sound
  <2> QED BY <1>8, <2>1, <2>2 DEF RecoverPublish
<1>9. CASE RecoverRelease
  <2>1. CASE rec' = NoRec /\ UNCHANGED job
    BY <1>5, <1>9, <2>1 DEF RecoverRelease
  <2>2. CASE /\ job' = [Released(rec.job, "queued") EXCEPT ![rec.job].queueId = rec.msg]
             /\ Recover("queued")
    <3>1. job'[FirstJob].status = "queued"
      <4>1. Released(FirstJob, "queued") \in [Jobs -> JobRow]
        BY <1>0, ReleasedTyped DEF JobStatus
      <4> QED BY <1>0, <1>9, <2>2, <4>1, ReleasedEffect, JobsAssumption DEF RecoverRelease, JobRow
    <3>2. rec'.pc = "queued"
      BY <1>0, <2>2 DEF Recover, RecoveryState
    <3>3. UNCHANGED <<resource, msg, compiled, wiki>>
      BY <1>9 DEF RecoverRelease
    <3>4. rec.msg \in Messages /\ msg[rec.msg].state = "ready"
      BY <1>9 DEF RecoverRelease, Under, Sound, Recovering
    <3>5. Delivery'
      BY <3>3, <3>4 DEF Delivery, Delivers
    <3>6. Recovering' /\ Output'
      BY <1>1, <1>3, <3>1, <3>2 DEF Recovering, Output
    <3> QED BY <1>3, <1>4, <3>3, <3>5, <3>6 DEF Sound
  <2> QED BY <1>9, <2>1, <2>2 DEF RecoverRelease
<1>10. CASE RecoverResource
  <2>1. job[FirstJob].status = "queued" /\ UNCHANGED <<job, msg>> /\ rec' = NoRec
    BY <1>0, <1>10 DEF RecoverResource, Under, Sound, Recovering
  <2>2. Recovering' /\ Output'
    BY <1>1, <1>3, <2>1 DEF Recovering, NoRec, Output
  <2>3. Delivery'
    BY <1>4, <2>1 DEF Under, Sound, Delivery
  <2> QED BY <1>3, <1>4, <2>1, <2>2, <2>3 DEF Sound
<1>11. CASE RecoverCrash
  BY <1>5, <1>11 DEF RecoverCrash
<1>12. ~RecoverClear
  BY <1>0 DEF RecoverClear
<1> QED BY <1>6, <1>7, <1>8, <1>9, <1>10, <1>11, <1>12 DEF RecoveryStep

-------------------------------------------------------------------------------
LEMMA RestSound ==
    ASSUME Under, UNCHANGED <<job, resource, msg, exec, rec, compiled, wiki, faults>>
    PROVE  Sound'
<1>1. Held' /\ Budget' /\ \A m \in Messages : Delivers(m) => Delivers(m)'
  BY HandlersRest, LimitAssumption DEF Under, TypeOK
<1>2. Delivery' /\ Ownership' /\ Recovering' /\ Output'
  BY <1>1 DEF Under, Sound, Delivery, Ownership, Recovering, Output, Made, Working
<1> QED BY <1>1, <1>2 DEF Sound

LEMMA SoundStep ==
    ASSUME Under, [Next]_vars
    PROVE  Sound' \/ Cancelling(FirstJob)'
<1>1. ASSUME NEW j \in Jobs, JobEvent(j) PROVE Sound'
  <2>1. ASSUME NEW r \in Requests, CancelRead(r, j) \/ ResumeRead(r, j) \/ RetryRead(r, j)
        PROVE  Sound'
    BY <2>1, RestSound DEF CancelRead, ResumeRead, RetryRead, Asks
  <2> QED BY <1>1, <2>1, LeaseSound, OutboxSound, RecoverySound DEF JobEvent
<1>2. ASSUME NEW e \in Execs, ExecEvent(e) PROVE Sound' \/ Cancelling(FirstJob)'
  <2>1. CASE MarkCancelled(e)
    <3>1. exec[e].job = FirstJob
      BY <2>1 DEF MarkCancelled, Under, OneJob
    <3> QED BY <2>1, <3>1, ReleasedEffect, JobsAssumption DEF MarkCancelled, Under, Cancelling
  <2> QED BY <1>2, <2>1, HandlerSound, ReturnSound, ThrowSound, HeartbeatSound, TimeoutSound,
             CrashSound, FetchSound
          DEF ExecEvent, Handler
<1>3. ASSUME NEW m \in Messages, MessageExpires(m) PROVE Sound'
  BY <1>3, ExpirySound
<1>4. ASSUME NEW r \in Requests, RequestStep(r) PROVE Cancelling(FirstJob)'
  <2>1. CancelWrite(r)
    BY <1>4 DEF RequestStep, CancelQueue, ResumeCheck, ResumeQueue, ResumeWrite, RetryCheck,
                RetryInsert, Under, OneJob
  <2>2. req[r].job = FirstJob
    BY <2>1 DEF CancelWrite, Under, OneJob
  <2> QED BY <2>1, <2>2, JobsAssumption DEF CancelWrite, Cancelling, Under, TypeOK, JobRow
<1>5. CASE RecoveryStep \/ RecoverCrash
  BY <1>5, RecoverySound
<1>6. CASE UNCHANGED vars
  BY <1>6, RestSound DEF vars
<1> QED BY <1>1, <1>2, <1>3, <1>4, <1>5, <1>6 DEF Next

LEMMA OneWorkerStep ==
    ASSUME Serial, TypeOK, OneWorker, [Next]_vars
    PROVE  OneWorker'
<1>1. OneJob'
  BY OneJobStep
<1>2. CASE Cancelling(FirstJob)
  BY <1>1, <1>2, CancelledStays DEF OneWorker
<1>3. CASE ~Cancelling(FirstJob)
  BY <1>1, <1>3, SoundStep DEF OneWorker, Under
<1> QED BY <1>2, <1>3

(* What the invariant says of the job and its delivery.                     *)
LEMMA OneWorkerDelivers ==
    ASSUME Serial, TypeOK, OneWorker
    PROVE  NoOrphanedJob
<1> SUFFICES ASSUME NEW j \in Jobs, job[j].status = "queued" PROVE Deliverable(j)
  BY DEF NoOrphanedJob
<1>1. j = FirstJob
  BY DEF OneWorker, OneJob, NoJob
<1>2. Under
  BY <1>1 DEF OneWorker, Under, Cancelling
<1>3. CASE job[j].outbox \in {"pending", "dispatching"}
  BY <1>3 DEF Deliverable
<1>4. ASSUME NEW m \in Messages, Delivers(m) PROVE Deliverable(j)
  <2>1. msg[m].job = j
    BY <1>1, <1>4 DEF Delivers, OneWorker, OneJob
  <2>2. CASE msg[m].state = "ready"
    BY <2>1, <2>2 DEF Deliverable
  <2>3. CASE \E e \in Execs : Served(m, e) /\ exec[e].pc \in {"read", "claim"}
    BY <1>4, <2>1, <2>3 DEF Deliverable, Delivers, Served
  <2>4. CASE /\ msg[m].state = "active"
             /\ ~\E e \in Execs : Served(m, e) /\ exec[e].pc \in {"read", "claim"}
    <3>1. Due(m)
      BY <1>4, <2>4 DEF Delivers, Due
    <3>2. msg[m].tries < RetryLimit
      BY <1>2, <3>1, TriesPaid
    <3> QED BY <2>1, <2>4, <3>2 DEF Deliverable
  <2> QED BY <1>4, <2>2, <2>3, <2>4 DEF Delivers
<1> QED BY <1>1, <1>2, <1>3, <1>4 DEF Under, Sound, Delivery

LEMMA OneWorkerCompletes ==
    ASSUME OneWorker
    PROVE  CompletedIsUsable
<1> SUFFICES ASSUME NEW j \in Jobs, job[j].status = "completed"
             PROVE  compiled /\ wiki /\ resource = "ready"
  BY DEF CompletedIsUsable, CompletedHasOutput, ReadyWhenCompleted
<1>1. j = FirstJob
  BY DEF OneWorker, OneJob, NoJob
<1> QED BY <1>1 DEF OneWorker, Cancelling, Sound, Output

(* A queued job is always on its way to a handler: in the outbox, in the    *)
(* queue, or with a handler that has yet to claim it.                       *)
THEOREM NoOrphanedJobHolds == ASSUME Serial PROVE Spec => []NoOrphanedJob
<1>1. TypeOK /\ OneWorker /\ [Next]_vars => OneWorker'
  BY OneWorkerStep
<1>2. TypeOK /\ OneWorker => NoOrphanedJob
  BY OneWorkerDelivers
<1> QED BY <1>1, <1>2, OneWorkerInit, TypeInit, TypeStep, PTL DEF Spec

(* A completed job has its compiled output and its pages, and its resource  *)
(* is ready, however often handlers and workers died on the way.            *)
THEOREM CompletedIsUsableHolds == ASSUME Serial PROVE Spec => []CompletedIsUsable
<1>1. TypeOK /\ OneWorker /\ [Next]_vars => OneWorker'
  BY OneWorkerStep
<1>2. OneWorker => CompletedIsUsable
  BY OneWorkerCompletes
<1> QED BY <1>1, <1>2, OneWorkerInit, TypeInit, TypeStep, PTL DEF Spec
===============================================================================
