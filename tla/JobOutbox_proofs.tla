--------------------------- MODULE JobOutbox_proofs ---------------------------
(***************************************************************************)
(* Proofs about JobOutbox for any number of rows and dispatchers and any   *)
(* bound on faults.  TypeOK is inductive only together with                *)
(* GivenUpCovered: a handler settles a job by taking one from copies, and  *)
(* that a taken job has a copy is part of GivenUpCovered.                  *)
(***************************************************************************)
EXTENDS JobOutbox, FiniteSetTheorems, TLAPS

IInv == TypeOK /\ GivenUpCovered

LEMMA RowIsTyped ==
    ASSUME NEW s \in {"pending", "dispatching", "sent", "discarded"},
           NEW t \in Dispatchers \cup {None}, NEW l \in {"none", "live", "expired"}
    PROVE  Row(s, t, l) \in RowState
BY DEF Row, RowState

LEMMA GaveUpIsTyped ==
    ASSUME TypeOK, NEW d \in Dispatchers, NEW s \in {"pending", "sent", "discarded"}
    PROVE  GaveUp(d, s) \in [Rows -> RowState]
<1>1. Row(s, None, "none") \in RowState
  BY RowIsTyped
<1> QED BY <1>1 DEF GaveUp, TypeOK

(* A dispatcher's move to another program counter, row or filter.           *)
LEMMA DispIsTyped ==
    ASSUME TypeOK, NEW d \in Dispatchers, NEW x \in DispState,
           disp' = [disp EXCEPT ![d] = x],
           x.pc \notin {"idle", "select"} => x.row \in Rows
    PROVE  /\ disp' \in [Dispatchers -> DispState]
           /\ \A e \in Dispatchers : disp'[e].pc \notin {"idle", "select"} => disp'[e].row \in Rows
BY DEF TypeOK

LEMMA IdleIsTyped == Idle \in DispState /\ Idle.pc = "idle"
BY DEF Idle, DispState

LEMMA SelectIsTyped ==
    ASSUME NEW only \in Rows \cup {None}
    PROVE  [pc |-> "select", only |-> only, row |-> None] \in DispState
BY DEF DispState

LEMMA GoToIsTyped ==
    ASSUME TypeOK, NEW d \in Dispatchers,
           NEW pc \in {"claim", "read", "discard", "publish", "confirm", "fail"},
           disp[d].pc \notin {"idle", "select"}, GoTo(d, pc)
    PROVE  /\ disp' \in [Dispatchers -> DispState]
           /\ \A e \in Dispatchers : disp'[e].pc \notin {"idle", "select"} => disp'[e].row \in Rows
<1> DEFINE x == [disp[d] EXCEPT !.pc = pc]
<1>1. disp[d] \in DispState /\ disp[d].row \in Rows
  BY DEF TypeOK
<1>2. x \in DispState /\ x.row = disp[d].row
  BY <1>1 DEF DispState
<1>3. disp' = [disp EXCEPT ![d] = x]
  BY DEF GoTo
<1> HIDE DEF x
<1> QED BY <1>1, <1>2, <1>3, DispIsTyped

LEMMA FinishIsTyped ==
    ASSUME TypeOK, NEW d \in Dispatchers, Finish(d)
    PROVE  /\ disp' \in [Dispatchers -> DispState]
           /\ \A e \in Dispatchers : disp'[e].pc \notin {"idle", "select"} => disp'[e].row \in Rows
BY IdleIsTyped, DispIsTyped DEF Finish

LEMMA IterateIsTyped ==
    ASSUME TypeOK, NEW d \in Dispatchers, Iterate(d)
    PROVE  /\ disp' \in [Dispatchers -> DispState]
           /\ \A e \in Dispatchers : disp'[e].pc \notin {"idle", "select"} => disp'[e].row \in Rows
<1>1. CASE disp' = [disp EXCEPT ![d] = Idle]
  BY <1>1, FinishIsTyped DEF Finish
<1>2. CASE disp' = [disp EXCEPT ![d] = [pc |-> "select", only |-> None, row |-> None]]
  BY <1>2, SelectIsTyped, DispIsTyped
<1> QED BY <1>1, <1>2 DEF Iterate

LEMMA FaultyIsTyped == ASSUME TypeOK, NEW f, Faulty(f) PROVE faults' \in 0 .. MaxFaults
BY BoundsAssumption DEF TypeOK, Faulty

-------------------------------------------------------------------------------
LEMMA TypeInit == Init => TypeOK
<1>1. NewRow \in RowState
  BY DEF NewRow, RowState
<1>2. ASSUME Init PROVE TypeOK
  BY <1>1, <1>2, IdleIsTyped, BoundsAssumption DEF Init, TypeOK
<1> QED BY <1>2

LEMMA TypeStep == IInv /\ [Next]_vars => TypeOK'
<1> SUFFICES ASSUME TypeOK, GivenUpCovered, [Next]_vars PROVE TypeOK'
  BY DEF IInv
<1>1. ASSUME NEW d \in Dispatchers, DispatcherStep(d) PROVE TypeOK'
  <2>1. CASE Begin(d)
    <3> PICK only \in Rows \cup {None} :
          disp' = [disp EXCEPT ![d] = [pc |-> "select", only |-> only, row |-> None]]
      BY <2>1 DEF Begin
    <3> QED BY <2>1, SelectIsTyped, DispIsTyped DEF Begin, TypeOK
  <2>2. CASE Select(d)
    <3>1. CASE Finish(d)
      BY <2>2, <3>1, FinishIsTyped DEF Select, TypeOK
    <3>2. CASE \E r \in Candidates(d) :
                 disp' = [disp EXCEPT ![d] = [@ EXCEPT !.pc = "claim", !.row = r]]
      <4> PICK r \in Candidates(d) :
            disp' = [disp EXCEPT ![d] = [@ EXCEPT !.pc = "claim", !.row = r]]
        BY <3>2
      <4> DEFINE x == [disp[d] EXCEPT !.pc = "claim", !.row = r]
      <4>1. r \in Rows /\ disp[d] \in DispState
        BY DEF Candidates, TypeOK
      <4>2. x \in DispState /\ x.row = r /\ disp' = [disp EXCEPT ![d] = x]
        BY <4>1 DEF DispState
      <4> HIDE DEF x
      <4> QED BY <2>2, <4>1, <4>2, DispIsTyped DEF Select, TypeOK
    <3> QED BY <2>2, <3>1, <3>2 DEF Select
  <2>3. CASE ClaimRow(d)
    <3> DEFINE r == disp[d].row
    <3>1. Row("dispatching", d, "live") \in RowState
      BY RowIsTyped
    <3>2. outbox' \in [Rows -> RowState]
      BY <2>3, <3>1 DEF ClaimRow, TypeOK
    <3> QED BY <2>3, <3>2, GoToIsTyped, IterateIsTyped DEF ClaimRow, TypeOK
  <2>4. CASE ReadStatus(d)
    BY <2>4, GoToIsTyped DEF ReadStatus, TypeOK
  <2>5. CASE Discard(d)
    BY <2>5, GaveUpIsTyped, IterateIsTyped DEF Discard, TypeOK
  <2>6. CASE Publish(d)
    BY <2>6, GoToIsTyped DEF Publish, Sends, TypeOK
  <2>7. CASE PublishThrows(d)
    BY <2>7, GoToIsTyped, FaultyIsTyped DEF PublishThrows, Sends, TypeOK
  <2>8. CASE Confirm(d)
    BY <2>8, GaveUpIsTyped, IterateIsTyped DEF Confirm, TypeOK
  <2>9. CASE ConfirmThrows(d)
    BY <2>9, GoToIsTyped, FaultyIsTyped DEF ConfirmThrows, TypeOK
  <2>10. CASE Fail(d)
    BY <2>10, GaveUpIsTyped, FinishIsTyped DEF Fail, TypeOK
  <2>11. CASE Crash(d)
    BY <2>11, FinishIsTyped, FaultyIsTyped DEF Crash, TypeOK
  <2> QED BY <1>1, <2>1, <2>2, <2>3, <2>4, <2>5, <2>6, <2>7, <2>8, <2>9, <2>10, <2>11
             DEF DispatcherStep, Dispatch
<1>2. ASSUME NEW r \in Rows, JobStep(r) PROVE TypeOK'
  <2>1. CASE JobSettled(r)
    <3>1. copies[r] \in Nat /\ copies[r] > 0
      BY <2>1 DEF JobSettled, GivenUpCovered, TypeOK
    <3> QED BY <2>1, <3>1 DEF JobSettled, TypeOK
  <2>2. CASE MessageDropped(r)
    BY <2>2 DEF MessageDropped, TypeOK
  <2>3. CASE JobResumed(r)
    <3>1. NewRow \in RowState
      BY DEF NewRow, RowState
    <3> QED BY <2>3, <3>1, BoundsAssumption DEF JobResumed, TypeOK
  <2>4. CASE JobTaken(r) \/ JobRequeued(r) \/ JobCancelled(r)
    BY <2>4 DEF JobTaken, JobRequeued, JobCancelled, TypeOK
  <2> QED BY <1>2, <2>1, <2>2, <2>3, <2>4 DEF JobStep
<1>3. ASSUME NEW r \in Rows, LeaseExpires(r) PROVE TypeOK'
  <2>1. outbox' \in [Rows -> RowState]
    BY <1>3 DEF LeaseExpires, TypeOK, RowState
  <2>2. faults' \in 0 .. MaxFaults
    BY <1>3, FaultyIsTyped DEF LeaseExpires, TypeOK
  <2> QED BY <1>3, <2>1, <2>2 DEF LeaseExpires, TypeOK
<1>4. CASE UNCHANGED vars
  BY <1>4 DEF vars, TypeOK
<1> QED BY <1>1, <1>2, <1>3, <1>4 DEF Next

-------------------------------------------------------------------------------
(* Giving a row up takes it from its holder and gives it to nobody.         *)
LEMMA GaveUpHolds ==
    ASSUME TypeOK, NEW d \in Dispatchers, NEW s \in {"pending", "sent", "discarded"},
           outbox' = GaveUp(d, s), NEW e \in Dispatchers, NEW r \in Rows, Holds(e, r)'
    PROVE  Holds(e, r)
BY DEF TypeOK, GaveUp, Holds, Row

LEMMA GaveUpCovers ==
    ASSUME TypeOK, GivenUpCovered, NEW d \in Dispatchers,
           disp[d].pc \in {"discard", "confirm"}, NEW s \in {"sent", "discarded"},
           outbox' = GaveUp(d, s), NEW r \in Rows, outbox'[r].status \in {"sent", "discarded"}
    PROVE  Covered(r)
BY DEF TypeOK, GivenUpCovered, GaveUp, Row

(* A dispatcher d that moves to pc, with the other dispatchers where they   *)
(* are.                                                                     *)
LEMMA GoToOthers ==
    ASSUME TypeOK, NEW d \in Dispatchers, NEW pc, GoTo(d, pc), NEW e \in Dispatchers
    PROVE  /\ e # d => disp'[e] = disp[e]
           /\ disp'[d].pc = pc /\ disp'[d].row = disp[d].row
BY DEF TypeOK, DispState, GoTo

LEMMA EndOthers ==
    ASSUME TypeOK, NEW d \in Dispatchers, Finish(d) \/ Iterate(d), NEW e \in Dispatchers
    PROVE  /\ e # d => disp'[e] = disp[e]
           /\ disp'[d].pc \in {"idle", "select"}
BY DEF TypeOK, Finish, Iterate, Idle

LEMMA CoveredInit == Init => GivenUpCovered
<1>1. NewRow.status = "pending" /\ Idle.pc = "idle"
  BY DEF NewRow, Idle
<1> QED BY <1>1 DEF Init, GivenUpCovered

LEMMA CoveredStep == IInv /\ [Next]_vars => GivenUpCovered'
<1> SUFFICES ASSUME TypeOK, GivenUpCovered, [Next]_vars PROVE GivenUpCovered'
  BY DEF IInv
<1>1. ASSUME NEW d \in Dispatchers, DispatcherStep(d) PROVE GivenUpCovered'
  <2>1. CASE Begin(d) \/ Select(d)
    <3>1. disp'[d].pc \in {"idle", "select", "claim"}
      <4>1. CASE Finish(d)
        BY <4>1, EndOthers
      <4>2. CASE Begin(d)
        BY <4>2 DEF Begin, TypeOK
      <4>3. ASSUME NEW r, disp' = [disp EXCEPT ![d] = [@ EXCEPT !.pc = "claim", !.row = r]]
            PROVE  disp'[d].pc = "claim"
        BY <4>3 DEF TypeOK, DispState
      <4> QED BY <2>1, <4>1, <4>2, <4>3 DEF Select
    <3>2. \A e \in Dispatchers : e # d => disp'[e] = disp[e]
      BY <2>1 DEF Begin, Select, Finish, TypeOK
    <3> QED BY <2>1, <3>1, <3>2 DEF Begin, Select, GivenUpCovered, Covered, Holds
  <2>2. CASE ClaimRow(d)
    <3>1. CASE Dispatchable(disp[d].row)
      <4>1. disp[d].row \in Rows
        BY <2>2 DEF ClaimRow, TypeOK
      <4>2. /\ outbox' = [outbox EXCEPT ![disp[d].row] = Row("dispatching", d, "live")]
            /\ GoTo(d, "read") /\ UNCHANGED <<status, copies>>
        BY <2>2, <3>1 DEF ClaimRow
      <4> QED BY <4>1, <4>2, GoToOthers DEF GivenUpCovered, Covered, Holds, Row, TypeOK
    <3>2. CASE ~Dispatchable(disp[d].row)
      BY <2>2, <3>2, EndOthers DEF ClaimRow, GivenUpCovered, Covered, Holds
    <3> QED BY <3>1, <3>2
  <2>3. CASE ReadStatus(d)
    BY <2>3, GoToOthers DEF ReadStatus, GivenUpCovered, Covered, Holds
  <2>4. CASE Discard(d) \/ Confirm(d)
    <3>1. PICK s \in {"sent", "discarded"} : outbox' = GaveUp(d, s)
      BY <2>4 DEF Discard, Confirm
    <3>2. disp[d].pc \in {"discard", "confirm"} /\ Iterate(d) /\ UNCHANGED <<status, copies>>
      BY <2>4 DEF Discard, Confirm
    <3>3. \A r \in Rows : outbox'[r].status \in {"sent", "discarded"} => Covered(r)
      BY <3>1, <3>2, GaveUpCovers
    <3>4. \A e \in Dispatchers, r \in Rows : Holds(e, r)' => Holds(e, r)
      BY <3>1, GaveUpHolds
    <3>5. ASSUME NEW e \in Dispatchers, disp'[e].pc \in {"discard", "confirm"},
                 Holds(e, disp[e].row)'
          PROVE  e # d /\ disp'[e] = disp[e] /\ Covered(disp[e].row)
      BY <3>2, <3>4, <3>5, EndOthers DEF GivenUpCovered, TypeOK
    <3> QED BY <3>2, <3>3, <3>5, EndOthers DEF GivenUpCovered, Covered, Holds
  <2>5. CASE Publish(d) \/ PublishThrows(d)
    <3>1. GoTo(d, "confirm") \/ GoTo(d, "fail")
      BY <2>5 DEF Publish, PublishThrows
    <3>2. \A r \in Rows : copies'[r] >= copies[r] /\ copies'[r] \in Nat
      BY <2>5 DEF Publish, PublishThrows, Sends, TypeOK
    <3>3. GoTo(d, "confirm") => copies'[disp[d].row] > 0
      BY <2>5, GoToOthers DEF Publish, PublishThrows, Sends, TypeOK
    <3>4. UNCHANGED <<outbox, status>>
      BY <2>5 DEF Publish, PublishThrows
    <3> QED BY <3>1, <3>2, <3>3, <3>4, GoToOthers DEF GivenUpCovered, Covered, Holds, TypeOK
  <2>6. CASE Fail(d)
    <3>1. \A e \in Dispatchers, r \in Rows : Holds(e, r)' => Holds(e, r)
      BY <2>6, GaveUpHolds DEF Fail
    <3>2. \A r \in Rows : outbox'[r].status \in {"sent", "discarded"} =>
                               outbox[r].status \in {"sent", "discarded"}
      BY <2>6 DEF Fail, GaveUp, Row, TypeOK
    <3>3. ASSUME NEW e \in Dispatchers, disp'[e].pc \in {"discard", "confirm"},
                 Holds(e, disp[e].row)'
          PROVE  e # d /\ disp'[e] = disp[e] /\ Covered(disp[e].row)
      BY <2>6, <3>1, <3>3, EndOthers DEF Fail, GivenUpCovered, TypeOK
    <3> QED BY <2>6, <3>2, <3>3, EndOthers DEF Fail, GivenUpCovered, Covered, Holds
  <2>7. CASE ConfirmThrows(d)
    BY <2>7, GoToOthers DEF ConfirmThrows, GivenUpCovered, Covered, Holds
  <2>8. CASE Crash(d)
    BY <2>8, EndOthers DEF Crash, GivenUpCovered, Covered, Holds
  <2> QED BY <1>1, <2>1, <2>2, <2>3, <2>4, <2>5, <2>6, <2>7, <2>8 DEF DispatcherStep, Dispatch
<1>2. ASSUME NEW r \in Rows, JobStep(r) PROVE GivenUpCovered'
  <2>1. CASE JobTaken(r) \/ JobSettled(r) \/ JobRequeued(r) \/ JobCancelled(r)
    BY <2>1 DEF JobTaken, JobSettled, JobRequeued, JobCancelled, GivenUpCovered, Covered,
                Holds, TypeOK
  <2>2. CASE MessageDropped(r)
    BY <2>2 DEF MessageDropped, GivenUpCovered, Covered, Holds, TypeOK
  <2>3. CASE JobResumed(r)
    <3>1. outbox'[r].status = "pending"
      BY <2>3 DEF JobResumed, NewRow, TypeOK
    <3> QED BY <2>3, <3>1 DEF JobResumed, GivenUpCovered, Covered, Holds, TypeOK
  <2> QED BY <1>2, <2>1, <2>2, <2>3 DEF JobStep
<1>3. ASSUME NEW r \in Rows, LeaseExpires(r) PROVE GivenUpCovered'
  <2>1. \A q \in Rows : outbox'[q].status = outbox[q].status /\ outbox'[q].token = outbox[q].token
    BY <1>3 DEF LeaseExpires, TypeOK, RowState
  <2> QED BY <1>3, <2>1 DEF LeaseExpires, GivenUpCovered, Covered, Holds, TypeOK
<1>4. CASE UNCHANGED vars
  BY <1>4 DEF vars, GivenUpCovered, Covered, Holds
<1> QED BY <1>1, <1>2, <1>3, <1>4 DEF Next

-------------------------------------------------------------------------------
(* Every variable of the outbox keeps to its type, for any number of rows   *)
(* and dispatchers: in particular no message is taken that was never sent.  *)
THEOREM TypeCorrect == Spec => []TypeOK
<1>1. Init => IInv
  BY TypeInit, CoveredInit DEF IInv
<1>2. IInv /\ [Next]_vars => IInv'
  BY TypeStep, CoveredStep DEF IInv
<1>3. IInv => TypeOK
  BY DEF IInv
<1> QED BY <1>1, <1>2, <1>3, PTL DEF Spec

(* A row is closed, and a dispatcher closes a row it holds, only for a job  *)
(* that has a message on its way or no longer waits.                        *)
THEOREM CoveredCorrect == Spec => []GivenUpCovered
<1>1. Init => IInv
  BY TypeInit, CoveredInit DEF IInv
<1>2. IInv /\ [Next]_vars => IInv'
  BY TypeStep, CoveredStep DEF IInv
<1>3. IInv => GivenUpCovered
  BY DEF IInv
<1> QED BY <1>1, <1>2, <1>3, PTL DEF Spec

(* No queued job is ever lost between the outbox and the queue.             *)
THEOREM NothingLost == Spec => []NoLostIntent
<1>1. TypeOK /\ GivenUpCovered => NoLostIntent
  BY DEF TypeOK, RowState, GivenUpCovered, Covered, NoLostIntent, Open
<1> QED BY <1>1, TypeCorrect, CoveredCorrect, PTL

-------------------------------------------------------------------------------
LEMMA DispatchInit == Init => DispatchConsistent
<1>1. NewRow.status = "pending" /\ NewRow.token = None /\ NewRow.lease = "none"
  BY DEF NewRow
<1> QED BY <1>1 DEF Init, DispatchConsistent

(* A row changes only as a whole, into one of the shapes below.             *)
LEMMA DispatchStep == TypeOK /\ DispatchConsistent /\ [Next]_vars => DispatchConsistent'
<1> DEFINE Shape(row) == /\ row.status = "dispatching" <=> row.token # None
                         /\ row.status = "dispatching" <=> row.lease # "none"
<1> SUFFICES ASSUME TypeOK, DispatchConsistent, [Next]_vars, NEW r \in Rows
             PROVE  Shape(outbox'[r])
  BY DEF DispatchConsistent
<1>1. Shape(outbox[r])
  BY DEF DispatchConsistent
<1>2. ASSUME NEW s \in {"pending", "sent", "discarded"} PROVE Shape(Row(s, None, "none"))
  BY <1>2 DEF Row
<1>3. ASSUME NEW d \in Dispatchers PROVE Shape(Row("dispatching", d, "live"))
  BY <1>3, NoneAssumption DEF Row
<1>4. Shape(NewRow)
  BY DEF NewRow
<1>5. ASSUME NEW d \in Dispatchers, NEW s \in {"pending", "sent", "discarded"},
             outbox' = GaveUp(d, s)
      PROVE  Shape(outbox'[r])
  <2>1. outbox'[r] = outbox[r] \/ outbox'[r] = Row(s, None, "none")
    BY <1>5 DEF GaveUp, TypeOK
  <2> HIDE DEF Shape
  <2> QED BY <2>1, <1>1, <1>2
<1>6. ASSUME NEW q \in Rows, LeaseExpires(q) PROVE Shape(outbox'[r])
  <2>1. CASE r = q
    BY <1>1, <1>6, <2>1 DEF LeaseExpires, TypeOK, RowState
  <2>2. CASE r # q
    BY <1>1, <1>6, <2>2 DEF LeaseExpires, TypeOK
  <2> QED BY <2>1, <2>2
<1> HIDE DEF Shape
<1>7. ASSUME NEW d \in Dispatchers, DispatcherStep(d) PROVE Shape(outbox'[r])
  <2>1. CASE ClaimRow(d)
    <3>1. outbox'[r] = outbox[r] \/ outbox'[r] = Row("dispatching", d, "live")
      BY <2>1 DEF ClaimRow, TypeOK
    <3> QED BY <1>1, <1>3, <3>1
  <2>2. CASE Discard(d) \/ Confirm(d) \/ Fail(d)
    BY <2>2, <1>5 DEF Discard, Confirm, Fail
  <2>3. CASE \/ Begin(d) \/ Select(d) \/ ReadStatus(d) \/ Publish(d)
             \/ PublishThrows(d) \/ ConfirmThrows(d) \/ Crash(d)
    BY <1>1, <2>3 DEF Begin, Select, ReadStatus, Publish, PublishThrows, ConfirmThrows, Crash
  <2> QED BY <1>7, <2>1, <2>2, <2>3 DEF DispatcherStep, Dispatch
<1>8. ASSUME NEW q \in Rows, JobStep(q) PROVE Shape(outbox'[r])
  <2>1. CASE JobResumed(q)
    <3>1. outbox'[r] = outbox[r] \/ outbox'[r] = NewRow
      BY <2>1 DEF JobResumed, TypeOK
    <3> QED BY <1>1, <1>4, <3>1
  <2>2. CASE \/ JobTaken(q) \/ JobSettled(q) \/ JobRequeued(q) \/ MessageDropped(q)
             \/ JobCancelled(q)
    BY <1>1, <2>2 DEF JobTaken, JobSettled, JobRequeued, MessageDropped, JobCancelled
  <2> QED BY <1>8, <2>1, <2>2 DEF JobStep
<1>9. CASE UNCHANGED vars
  BY <1>1, <1>9 DEF vars
<1> QED BY <1>6, <1>7, <1>8, <1>9 DEF Next

(* A row names a dispatcher and a lease exactly while it is dispatched.     *)
THEOREM DispatchCorrect == Spec => []DispatchConsistent
BY DispatchInit, DispatchStep, TypeCorrect, PTL DEF Spec

(* The three together are what dispatchPendingProcessingOutbox promises at  *)
(* any moment.                                                              *)
THEOREM DeliveryCorrect == Spec => []DeliverySafe
<1>1. DispatchConsistent /\ GivenUpCovered /\ NoLostIntent => DeliverySafe
  BY DEF DeliverySafe
<1> QED BY <1>1, DispatchCorrect, CoveredCorrect, NothingLost, PTL

-------------------------------------------------------------------------------
(* OncePerFault.  A publish needs a claim of the row before it, and a claim  *)
(* needs a row that nobody is about to close: one that is new, or that a     *)
(* fault or a resume has left.  So the messages sent, the dispatchers that   *)
(* may still send one and the row, if it may be claimed again, are together  *)
(* no more than 1 + faults.                                                  *)

Sending(r) == {d \in Dispatchers : disp[d].row = r /\ disp[d].pc \in {"read", "publish"}}

(* The row's dispatcher is at work, in time and on its way to closing it.   *)
Closing(r) ==
    /\ outbox[r].lease = "live"
    /\ \E d \in Dispatchers : Holds(d, r) /\ disp[d].row = r
                              /\ disp[d].pc \in {"read", "publish", "discard", "confirm"}

Loose(r) == Open(r) /\ ~Closing(r)
Share(r) == IF Loose(r) THEN 1 ELSE 0

Room(r) ==
    /\ IsFiniteSet(Sending(r))
    /\ published[r] + Cardinality(Sending(r)) + Share(r) <= 1 + faults

Spends == faults' = faults + 1
Spares(r) == faults' = faults /\ (Loose(r)' => Loose(r))

LEMMA RoomKept ==
    ASSUME TypeOK, NEW r \in Rows, Room(r), published'[r] \in {0, published[r]},
           Sending(r)' \subseteq Sending(r), Spends \/ Spares(r)
    PROVE  Room(r)'
<1> DEFINE S == Sending(r)
           T == Sending(r)'
<1>1. IsFiniteSet(S) /\ IsFiniteSet(T) /\ Cardinality(T) <= Cardinality(S)
  BY FS_Subset DEF Room
<1>2. Cardinality(S) \in Nat /\ Cardinality(T) \in Nat
  BY <1>1, FS_CardinalityType
<1>3. published[r] \in Nat /\ faults \in Nat
  BY BoundsAssumption DEF TypeOK
<1>4. published[r] + Cardinality(S) + Share(r) <= 1 + faults
  BY DEF Room
<1>5. published'[r] + Cardinality(T) + Share(r)' <= 1 + faults'
  <2> HIDE DEF S, T
  <2>1. Share(r)' \in {0, 1} /\ Share(r) \in {0, 1}
    BY DEF Share
  <2>2. CASE Spends
    BY <1>1, <1>2, <1>3, <1>4, <2>1, <2>2 DEF Spends
  <2>3. CASE Spares(r)
    <3>1. Share(r)' <= Share(r)
      BY <2>3 DEF Spares, Share
    <3> QED BY <1>1, <1>2, <1>3, <1>4, <2>1, <2>3, <3>1 DEF Spares
  <2> QED BY <2>2, <2>3
<1> QED BY <1>1, <1>5 DEF Room

(* A dispatcher that has sent a message is none that may send one.          *)
LEMMA RoomSent ==
    ASSUME TypeOK, NEW r \in Rows, Room(r), NEW d \in Sending(r),
           Sending(r)' = Sending(r) \ {d}, published'[r] \in {published[r], published[r] + 1},
           Spends \/ Spares(r)
    PROVE  Room(r)'
<1> DEFINE S == Sending(r)
           T == Sending(r)'
<1>1. IsFiniteSet(S) /\ IsFiniteSet(T) /\ Cardinality(T) = Cardinality(S) - 1
  BY FS_RemoveElement DEF Room
<1>2. Cardinality(S) \in Nat /\ Cardinality(T) \in Nat
  BY <1>1, FS_CardinalityType
<1>3. published[r] \in Nat /\ faults \in Nat
  BY BoundsAssumption DEF TypeOK
<1>4. published[r] + Cardinality(S) + Share(r) <= 1 + faults
  BY DEF Room
<1>5. published'[r] + Cardinality(T) + Share(r)' <= 1 + faults'
  <2> HIDE DEF S, T
  <2>1. Share(r)' \in {0, 1} /\ Share(r) \in {0, 1}
    BY DEF Share
  <2>2. CASE Spends
    BY <1>1, <1>2, <1>3, <1>4, <2>1, <2>2 DEF Spends
  <2>3. CASE Spares(r)
    <3>1. Share(r)' <= Share(r)
      BY <2>3 DEF Spares, Share
    <3> QED BY <1>1, <1>2, <1>3, <1>4, <2>1, <2>3, <3>1 DEF Spares
  <2> QED BY <2>2, <2>3
<1> QED BY <1>1, <1>5 DEF Room

(* A dispatcher that has claimed a row takes over the row's share.          *)
LEMMA RoomClaimed ==
    ASSUME TypeOK, NEW r \in Rows, Room(r), Loose(r), NEW d \in Dispatchers, d \notin Sending(r),
           Sending(r)' = Sending(r) \cup {d}, ~Loose(r)', UNCHANGED <<published, faults>>
    PROVE  Room(r)'
<1> DEFINE S == Sending(r)
           T == Sending(r)'
<1>1. IsFiniteSet(S) /\ IsFiniteSet(T) /\ Cardinality(T) = Cardinality(S) + 1
  BY FS_AddElement DEF Room
<1>2. Cardinality(S) \in Nat
  BY <1>1, FS_CardinalityType
<1>3. published[r] \in Nat /\ faults \in Nat
  BY BoundsAssumption DEF TypeOK
<1>4. published[r] + Cardinality(S) + 1 <= 1 + faults
  BY DEF Room, Share
<1>5. published'[r] + Cardinality(T) + Share(r)' <= 1 + faults'
  <2>1. Share(r)' = 0
    BY DEF Share
  <2> HIDE DEF S, T
  <2> QED BY <1>1, <1>2, <1>3, <1>4, <2>1
<1> QED BY <1>1, <1>5 DEF Room

LEMMA RoomInit == Init => \A r \in Rows : Room(r)
<1> SUFFICES ASSUME Init, NEW r \in Rows PROVE Room(r)
  OBVIOUS
<1>1. Sending(r) = {}
  BY DEF Init, Sending, Idle
<1>2. IsFiniteSet(Sending(r)) /\ Cardinality(Sending(r)) = 0
  BY <1>1, FS_EmptySet
<1>3. Share(r) \in {0, 1} /\ published[r] = 0 /\ faults = 0
  BY DEF Share, Init
<1> QED BY <1>2, <1>3 DEF Room

(* Giving up a row that one holds closes it or leaves it pending; the row   *)
(* of another is left alone.                                                *)
LEMMA GaveUpShare ==
    ASSUME TypeOK, DispatchConsistent, NEW d \in Dispatchers, disp[d].row \in Rows,
           NEW s \in {"pending", "sent", "discarded"}, outbox' = GaveUp(d, s),
           \A e \in Dispatchers \ {d} : disp'[e] = disp[e],
           s = "pending" => disp[d].pc = "fail", NEW r \in Rows, faults' = faults
    PROVE  Spares(r)
<1>1. CASE Holds(d, r) /\ r = disp[d].row
  <2>1. outbox'[r] = Row(s, None, "none")
    BY <1>1 DEF GaveUp, TypeOK
  <2>2. CASE s = "pending"
    <3>1. \A e \in Dispatchers : Holds(e, r) => e = d
      BY <1>1 DEF Holds
    <3>2. Loose(r)
      BY <1>1, <2>2, <3>1 DEF Loose, Open, Closing, Holds
    <3> QED BY <3>2 DEF Spares
  <2>3. CASE s # "pending"
    BY <2>1, <2>3 DEF Spares, Loose, Open, Row
  <2> QED BY <2>2, <2>3
<1>2. CASE ~(Holds(d, r) /\ r = disp[d].row)
  <2>1. outbox'[r] = outbox[r]
    BY <1>2 DEF GaveUp, TypeOK
  <2>2. Closing(r) => Closing(r)'
    BY <1>2, <2>1 DEF Closing, Holds
  <2> QED BY <2>1, <2>2 DEF Spares, Loose, Open
<1> QED BY <1>1, <1>2

LEMMA RoomStep ==
    ASSUME TypeOK, DispatchConsistent, \A q \in Rows : Room(q), [Next]_vars, NEW r \in Rows
    PROVE  Room(r)'
<1>0. Room(r)
  OBVIOUS
<1>1. ASSUME NEW d \in Dispatchers, DispatcherStep(d) PROVE Room(r)'
  <2>0. \A e \in Dispatchers \ {d} : disp'[e] = disp[e]
    BY ZenonT(60), <1>1, GoToOthers, EndOthers
       DEF DispatcherStep, Dispatch, Begin, Select, ClaimRow, ReadStatus, Discard,
       Publish, PublishThrows, Confirm, ConfirmThrows, Fail, Crash, TypeOK
  <2>1. CASE Begin(d) \/ Select(d)
    <3>1. disp[d].pc \in {"idle", "select"} /\ disp'[d].pc \in {"idle", "select", "claim"}
      <4>1. CASE Finish(d)
        BY <2>1, <4>1, EndOthers DEF Begin, Select
      <4>2. CASE Begin(d)
        BY <4>2 DEF Begin, TypeOK
      <4>3. ASSUME NEW q, disp' = [disp EXCEPT ![d] = [@ EXCEPT !.pc = "claim", !.row = q]]
            PROVE  disp'[d].pc = "claim"
        BY <4>3 DEF TypeOK, DispState
      <4> QED BY <2>1, <4>1, <4>2, <4>3 DEF Begin, Select
    <3>2. Sending(r)' = Sending(r)
      BY <2>0, <3>1 DEF Sending
    <3>3. UNCHANGED <<outbox, published, faults>>
      BY <2>1 DEF Begin, Select
    <3>4. Spares(r)
      BY <2>0, <3>1, <3>3 DEF Spares, Loose, Open, Closing, Holds
    <3> QED BY <1>0, <3>2, <3>3, <3>4, RoomKept
  <2>2. CASE ClaimRow(d)
    <3>1. UNCHANGED <<published, faults>> /\ disp[d].pc = "claim" /\ disp[d].row \in Rows
      BY <2>2 DEF ClaimRow, TypeOK
    <3>2. CASE Dispatchable(disp[d].row)
      <4>1. outbox' = [outbox EXCEPT ![disp[d].row] = Row("dispatching", d, "live")] /\ GoTo(d, "read")
        BY <2>2, <3>2 DEF ClaimRow
      <4>2. disp'[d].pc = "read" /\ disp'[d].row = disp[d].row
        BY <4>1, GoToOthers
      <4>3. CASE r = disp[d].row
        <5>1. outbox'[r] = [status |-> "dispatching", token |-> d, lease |-> "live"]
          BY <4>1, <4>3 DEF Row, TypeOK
        <5>2. ~Loose(r)'
          BY <4>2, <4>3, <5>1 DEF Loose, Closing, Holds
        <5>3. Loose(r)
          BY <3>2, <4>3 DEF Loose, Open, Closing, Dispatchable, Holds
        <5>4. d \notin Sending(r) /\ Sending(r)' = Sending(r) \cup {d}
          BY <2>0, <3>1, <4>2, <4>3 DEF Sending
        <5> QED BY <1>0, <3>1, <5>2, <5>3, <5>4, RoomClaimed
      <4>4. CASE r # disp[d].row
        <5>1. outbox'[r] = outbox[r]
          BY <4>1, <4>4 DEF TypeOK
        <5>2. Sending(r)' = Sending(r)
          BY <2>0, <4>2, <4>4 DEF Sending
        <5>3. Spares(r)
          BY <2>0, <3>1, <4>2, <4>4, <5>1 DEF Spares, Loose, Open, Closing, Holds
        <5> QED BY <1>0, <3>1, <5>2, <5>3, RoomKept
      <4> QED BY <4>3, <4>4
    <3>3. CASE ~Dispatchable(disp[d].row)
      <4>1. disp'[d].pc \in {"idle", "select"} /\ UNCHANGED outbox
        BY <2>2, <3>3, EndOthers DEF ClaimRow
      <4>2. Sending(r)' = Sending(r)
        BY <2>0, <3>1, <4>1 DEF Sending
      <4>3. Spares(r)
        BY <2>0, <3>1, <4>1 DEF Spares, Loose, Open, Closing, Holds
      <4> QED BY <1>0, <3>1, <4>2, <4>3, RoomKept
    <3> QED BY <3>2, <3>3
  <2>3. CASE ReadStatus(d)
    <3>1. disp[d].pc = "read" /\ UNCHANGED <<outbox, published, faults>>
      BY <2>3 DEF ReadStatus
    <3>2. disp'[d].row = disp[d].row /\ disp'[d].pc \in {"publish", "discard"}
      BY <2>3, GoToOthers DEF ReadStatus
    <3>3. Sending(r)' \subseteq Sending(r)
      BY <2>0, <3>1, <3>2 DEF Sending
    <3>4. Spares(r)
      <4>1. Closing(r) => Closing(r)'
        BY <2>0, <3>1, <3>2 DEF Closing, Holds
      <4> QED BY <3>1, <4>1 DEF Spares, Loose, Open
    <3> QED BY <1>0, <3>1, <3>3, <3>4, RoomKept
  <2>4. CASE Discard(d) \/ Confirm(d) \/ Fail(d)
    <3>1. PICK s \in {"pending", "sent", "discarded"} :
            outbox' = GaveUp(d, s) /\ (s = "pending" => disp[d].pc = "fail")
      BY <2>4 DEF Discard, Confirm, Fail
    <3>2. /\ disp[d].pc \in {"discard", "confirm", "fail"} /\ disp[d].row \in Rows
          /\ UNCHANGED <<published, faults>>
      BY <2>4 DEF Discard, Confirm, Fail, TypeOK
    <3>3. disp'[d].pc \in {"idle", "select"}
      BY <2>4, EndOthers DEF Discard, Confirm, Fail
    <3>4. Sending(r)' = Sending(r)
      BY <2>0, <3>2, <3>3 DEF Sending
    <3>5. Spares(r)
      BY <2>0, <3>1, <3>2, GaveUpShare
    <3> QED BY <1>0, <3>2, <3>4, <3>5, RoomKept
  <2>5. CASE Publish(d) \/ PublishThrows(d)
    <3>1. /\ disp[d].pc = "publish" /\ disp[d].row \in Rows /\ UNCHANGED outbox
          /\ disp'[d].pc \in {"confirm", "fail"} /\ disp'[d].row = disp[d].row
      BY <2>5, GoToOthers DEF Publish, PublishThrows, TypeOK
    <3>2. Spends \/ Spares(r)
      <4>1. CASE Publish(d)
        <5>1. disp'[d].pc = "confirm" /\ UNCHANGED faults
          BY <4>1, GoToOthers DEF Publish
        <5>2. Closing(r) => Closing(r)'
          BY <2>0, <3>1, <5>1 DEF Closing, Holds
        <5> QED BY <3>1, <5>1, <5>2 DEF Spares, Loose, Open
      <4>2. CASE PublishThrows(d)
        BY <4>2 DEF PublishThrows, Faulty, Spends
      <4> QED BY <2>5, <4>1, <4>2
    <3>3. CASE r = disp[d].row
      <4>1. d \in Sending(r) /\ Sending(r)' = Sending(r) \ {d}
        BY <2>0, <3>1, <3>3 DEF Sending
      <4>2. published'[r] \in {published[r], published[r] + 1}
        BY <2>5, <3>3 DEF Publish, PublishThrows, Sends, TypeOK
      <4> QED BY <1>0, <3>2, <4>1, <4>2, RoomSent
    <3>4. CASE r # disp[d].row
      <4>1. Sending(r)' = Sending(r)
        BY <2>0, <3>1, <3>4 DEF Sending
      <4>2. published'[r] = published[r]
        BY <2>5, <3>4 DEF Publish, PublishThrows, Sends, TypeOK
      <4> QED BY <1>0, <3>2, <4>1, <4>2, RoomKept
    <3> QED BY <3>3, <3>4
  <2>6. CASE ConfirmThrows(d) \/ Crash(d)
    <3>1. Spends /\ UNCHANGED published
      BY <2>6 DEF ConfirmThrows, Crash, Faulty, Spends
    <3>2. disp'[d].pc \in {"fail", "idle", "select"}
      BY <2>6, GoToOthers, EndOthers DEF ConfirmThrows, Crash
    <3>3. Sending(r)' \subseteq Sending(r)
      BY <2>0, <3>2 DEF Sending
    <3> QED BY <1>0, <3>1, <3>3, RoomKept
  <2> QED BY <1>1, <2>1, <2>2, <2>3, <2>4, <2>5, <2>6 DEF DispatcherStep, Dispatch
<1>2. ASSUME NEW q \in Rows, JobResumed(q) PROVE Room(r)'
  <2>1. Spends /\ UNCHANGED disp /\ published'[r] \in {0, published[r]}
    BY <1>2 DEF JobResumed, Spends, TypeOK
  <2> QED BY <1>0, <2>1, RoomKept DEF Sending
<1>3. ASSUME NEW q \in Rows, LeaseExpires(q) PROVE Room(r)'
  <2>1. UNCHANGED <<disp, published>>
    BY <1>3 DEF LeaseExpires
  <2>2. ASSUME faults' = faults PROVE Spares(r)
    <3>1. ~\E d \in Dispatchers : outbox[q].token = d /\ Works(d, q)
      BY <1>3, <2>2, BoundsAssumption DEF LeaseExpires, Faulty, TypeOK
    <3>2. CASE r = q
      <4>1. ~Closing(r)
        BY <3>1, <3>2 DEF Closing, Holds, Works
      <4>2. Open(r)' => Open(r)
        BY <1>3 DEF LeaseExpires, Open, TypeOK, RowState
      <4> QED BY <2>2, <4>1, <4>2 DEF Spares, Loose
    <3>3. CASE r # q
      <4>1. outbox'[r] = outbox[r]
        BY <1>3, <3>3 DEF LeaseExpires, TypeOK
      <4> QED BY <2>1, <2>2, <4>1 DEF Spares, Loose, Open, Closing, Holds
    <3> QED BY <3>2, <3>3
  <2>3. faults' = faults \/ Spends
    BY <1>3 DEF LeaseExpires, Faulty, Spends
  <2> QED BY <1>0, <2>1, <2>2, <2>3, RoomKept DEF Sending
<1>4. ASSUME UNCHANGED <<outbox, disp, published, faults>> PROVE Room(r)'
  <2>1. Spares(r) /\ Sending(r)' = Sending(r)
    BY <1>4 DEF Spares, Loose, Open, Closing, Holds, Sending
  <2> QED BY <1>0, <1>4, <2>1, RoomKept
<1>5. ASSUME NEW q \in Rows, JobStep(q), ~JobResumed(q) PROVE UNCHANGED <<outbox, disp, published, faults>>
  BY <1>5 DEF JobStep, JobTaken, JobSettled, JobRequeued, MessageDropped, JobCancelled
<1> QED BY <1>1, <1>2, <1>3, <1>4, <1>5 DEF Next, vars

(* A row is published once, and once more for each fault or resume, however *)
(* many dispatchers drain the outbox at once: overlapping drains alone send  *)
(* nothing twice (dispatchPendingProcessingOutbox).                          *)
THEOREM OncePerFaultHolds == Spec => []OncePerFault
<1>1. TypeOK /\ DispatchConsistent /\ (\A r \in Rows : Room(r)) /\ [Next]_vars => (\A r \in Rows : Room(r))'
  BY RoomStep
<1>2. TypeOK /\ (\A r \in Rows : Room(r)) => OncePerFault
  <2> SUFFICES ASSUME TypeOK, NEW r \in Rows, Room(r) PROVE published[r] <= 1 + faults
    BY DEF OncePerFault
  <2>1. Cardinality(Sending(r)) \in Nat /\ Share(r) \in {0, 1}
    BY FS_CardinalityType DEF Room, Share
  <2> QED BY <2>1, BoundsAssumption DEF Room, TypeOK
<1> QED BY <1>1, <1>2, RoomInit, TypeCorrect, DispatchCorrect, PTL DEF Spec

-------------------------------------------------------------------------------
(* The outbox implements DeliveryIntent: a row that is pending or being     *)
(* dispatched is the abstract debt.                                         *)

LEMMA IntentInit == Init => Intent!Init
<1>1. NewRow.status = "pending"
  BY DEF NewRow
<1> QED BY <1>1 DEF Init, Intent!Init, Open

(* Giving a row up either leaves every debt or discharges a covered one.    *)
LEMMA GaveUpIntent ==
    ASSUME IInv, NEW d \in Dispatchers, disp[d].pc \in {"discard", "confirm"},
           NEW s \in {"sent", "discarded"}, outbox' = GaveUp(d, s),
           UNCHANGED <<status, copies>>
    PROVE  [Intent!Next]_(Intent!vars)
<1>1. PICK r \in Rows : r = disp[d].row
  BY DEF IInv, TypeOK
<1>2. CASE Holds(d, r)
  <2>1. Covered(r)
    BY <1>1, <1>2 DEF IInv, GivenUpCovered
  <2>2. /\ Open(r)' = FALSE
        /\ \A q \in Rows : q # r => Open(q)' = Open(q)
    BY <1>1, <1>2 DEF GaveUp, Open, Row, IInv, TypeOK
  <2>3. [q \in Rows |-> Open(q)]' = [[q \in Rows |-> Open(q)] EXCEPT ![r] = FALSE]
    BY <1>1, <2>2
  <2>4. Intent!Discharge(r)
    BY <2>1, <2>3 DEF Intent!Discharge, Covered
  <2> QED BY <1>1, <2>4 DEF Intent!Next
<1>3. CASE ~Holds(d, r)
  BY <1>1, <1>3 DEF GaveUp, Intent!vars, Open
<1> QED BY <1>2, <1>3

LEMMA IntentStep == IInv /\ [Next]_vars => [Intent!Next]_(Intent!vars)
<1> SUFFICES ASSUME IInv, [Next]_vars PROVE [Intent!Next]_(Intent!vars)
  OBVIOUS
<1> DEFINE owed == [q \in Rows |-> Open(q)]
<1>1. ASSUME UNCHANGED <<status, copies>>, \A q \in Rows : Open(q)' = Open(q)
      PROVE  UNCHANGED Intent!vars
  BY <1>1 DEF Intent!vars
<1>2. ASSUME NEW d \in Dispatchers, DispatcherStep(d) PROVE [Intent!Next]_(Intent!vars)
  <2>1. CASE Discard(d) \/ Confirm(d)
    BY <2>1, GaveUpIntent DEF Discard, Confirm
  <2>2. CASE Fail(d)
    <3>1. \A q \in Rows : Open(q)' = Open(q)
      BY <2>2 DEF Fail, GaveUp, Holds, Open, Row, IInv, TypeOK
    <3> QED BY <2>2, <3>1, <1>1 DEF Fail
  <2>3. CASE ClaimRow(d)
    <3>1. \A q \in Rows : Open(q)' = Open(q)
      BY <2>3 DEF ClaimRow, Dispatchable, Open, Row, IInv, TypeOK
    <3> QED BY <2>3, <3>1, <1>1 DEF ClaimRow
  <2>4. CASE Publish(d) \/ PublishThrows(d)
    <3>1. owed' = owed
      BY <2>4 DEF Publish, PublishThrows, Open
    <3>2. CASE Sends(disp[d].row)
      <4>1. Intent!Deliver(disp[d].row) /\ disp[d].row \in Rows
        BY <2>4, <3>1, <3>2 DEF Publish, PublishThrows, Sends, Intent!Deliver, IInv, TypeOK
      <4> QED BY <4>1 DEF Intent!Next
    <3>3. CASE UNCHANGED copies
      BY <2>4, <3>1, <3>3 DEF Publish, PublishThrows, Intent!vars
    <3> QED BY <2>4, <3>2, <3>3 DEF Publish, PublishThrows
  <2>5. CASE Begin(d) \/ Select(d) \/ ReadStatus(d) \/ ConfirmThrows(d) \/ Crash(d)
    BY <2>5, <1>1 DEF Begin, Select, ReadStatus, ConfirmThrows, Crash, Open
  <2> QED BY <1>2, <2>1, <2>2, <2>3, <2>4, <2>5 DEF DispatcherStep, Dispatch
<1>3. ASSUME NEW r \in Rows, JobStep(r) PROVE Intent!Next
  <2>1. CASE JobResumed(r)
    <3>1. Open(r)' /\ \A q \in Rows : q # r => Open(q)' = Open(q)
      BY <2>1 DEF JobResumed, NewRow, Open, IInv, TypeOK
    <3>2. owed' = [owed EXCEPT ![r] = TRUE]
      BY <3>1
    <3>3. Intent!Renew(r)
      BY <2>1, <3>2 DEF JobResumed, Intent!Renew
    <3> QED BY <3>3 DEF Intent!Next
  <2>2. ASSUME UNCHANGED outbox PROVE owed' = owed
    BY <2>2 DEF Open
  <2>3. CASE JobTaken(r)
    BY <2>2, <2>3 DEF JobTaken, Intent!Take, Intent!Next
  <2>4. CASE JobSettled(r)
    BY <2>2, <2>4 DEF JobSettled, Intent!Settle, Intent!Next
  <2>5. CASE JobRequeued(r)
    BY <2>2, <2>5 DEF JobRequeued, Intent!HandBack, Intent!Next
  <2>6. CASE MessageDropped(r)
    BY <2>2, <2>6 DEF MessageDropped, Intent!Drop, Intent!Next
  <2>7. CASE JobCancelled(r)
    BY <2>2, <2>7 DEF JobCancelled, Intent!Cancel, Intent!Next
  <2> QED BY <1>3, <2>1, <2>3, <2>4, <2>5, <2>6, <2>7 DEF JobStep
<1>4. ASSUME NEW r \in Rows, LeaseExpires(r) PROVE [Intent!Next]_(Intent!vars)
  <2>1. \A q \in Rows : Open(q)' = Open(q)
    BY <1>4 DEF LeaseExpires, Open, IInv, TypeOK, RowState
  <2> QED BY <1>4, <2>1, <1>1 DEF LeaseExpires
<1>5. CASE UNCHANGED vars
  BY <1>5, <1>1 DEF vars, Open
<1> QED BY <1>2, <1>3, <1>4, <1>5 DEF Next

(* The outbox protocol delivers at least once: every behaviour of its       *)
(* dispatchers is one that DeliveryIntent allows.                           *)
THEOREM IntentImplemented == Spec => IntentKept
<1>1. Init => IInv
  BY TypeInit, CoveredInit DEF IInv
<1>2. IInv /\ [Next]_vars => IInv'
  BY TypeStep, CoveredStep DEF IInv
<1> QED BY <1>1, <1>2, IntentInit, IntentStep, PTL DEF Spec, IntentKept, Intent!Spec

===============================================================================
