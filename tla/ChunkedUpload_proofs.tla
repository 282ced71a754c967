------------------------- MODULE ChunkedUpload_proofs -------------------------
(***************************************************************************)
(* Proofs about ChunkedUpload for every number of parts, requests,         *)
(* handlers, messages, redeliveries and faults.                            *)
(***************************************************************************)
EXTENDS ChunkedUpload, TLAPS

ActorState == [pc : Steps, op : {"none", "get", "put", "complete", "finalize"},
               seen : Statuses, part : Parts \cup {None},
               msg : Messages \cup {None}, last : BOOLEAN,
               error : {"transient", "terminal", "settled"}]

Message == [state : {"absent", "ready", "active", "gone"}, tries : 0 .. RetryLimit]

(* The parts of TypeOK, by variable.                                        *)
TypedSession == /\ session \in [status : Statuses, late : BOOLEAN]
                /\ reserved \in BOOLEAN /\ twin \in BOOLEAN /\ version \in Nat
TypedBlobs   == rows \subseteq Parts /\ file \in [Parts -> {"none", "torn", "whole"}]
TypedJob     == job \in [status : {"absent", "queued", "completed", "failed"},
                         outbox : {"none", "pending", "sent"}]
TypedMsg     == msg \in [Messages -> Message]
TypedAct     == act \in [Actors -> ActorState]
TypedClean   == clean \in [pc : {"idle", "file", "row"}, parts : SUBSET Parts,
                           at : Parts \cup {None}]
TypedFaults  == faults \in 0 .. MaxFaults

LEMMA TypeParts ==
    TypeOK <=> /\ TypedSession /\ TypedBlobs /\ TypedJob /\ TypedMsg
               /\ TypedAct /\ TypedClean /\ TypedFaults
BY DEF TypeOK, TypedSession, TypedBlobs, TypedJob, TypedMsg, TypedAct, TypedClean,
       TypedFaults, ActorState, Message

LEMMA TypePartsNext ==
    /\ TypedSession' /\ TypedBlobs' /\ TypedJob' /\ TypedMsg'
    /\ TypedAct' /\ TypedClean' /\ TypedFaults'
    => TypeOK'
BY DEF TypeOK, TypedSession, TypedBlobs, TypedJob, TypedMsg, TypedAct, TypedClean,
       TypedFaults, ActorState, Message

LEMMA IdleTyped == Idle \in ActorState
BY DEF Idle, ActorState, Steps, Statuses

LEMMA TypeInit == Init => TypeOK
<1> SUFFICES ASSUME Init PROVE TypeOK
  OBVIOUS
<1>1. TypedSession /\ TypedBlobs /\ TypedJob
  BY DEF Init, TypedSession, TypedBlobs, TypedJob, Statuses
<1>2. TypedMsg
  BY BoundsAssumption DEF Init, TypedMsg, Message
<1>3. TypedAct
  BY IdleTyped DEF Init, TypedAct
<1>4. TypedClean /\ TypedFaults
  BY BoundsAssumption DEF Init, TypedClean, NoClean, TypedFaults
<1> QED BY <1>1, <1>2, <1>3, <1>4, TypeParts

-------------------------------------------------------------------------------
(* What one actor's step does to the actors.                                *)

(* The other actors rest.                                                   *)
Alone(a) == \A b \in Actors : b # a => act'[b] = act[b]

(* The actor a is at pc, with the operation op on part.                     *)
Arrives(a, pc, op, part) ==
    TypedAct' /\ Alone(a) /\ act'[a].pc = pc /\ act'[a].op = op /\ act'[a].part = part

LEMMA Replaced ==
    ASSUME TypedAct, NEW a \in Actors, NEW s \in ActorState, act' = [act EXCEPT ![a] = s]
    PROVE  Arrives(a, s.pc, s.op, s.part)
BY DEF TypedAct, Alone, Arrives

LEMMA GoToMoves ==
    ASSUME TypedAct, NEW a \in Actors, NEW pc \in Steps, GoTo(a, pc)
    PROVE  Arrives(a, pc, act[a].op, act[a].part)
<1> DEFINE s == [act[a] EXCEPT !.pc = pc]
<1>1. s \in ActorState /\ s.pc = pc /\ s.op = act[a].op /\ s.part = act[a].part
  BY DEF TypedAct, ActorState
<1>2. act' = [act EXCEPT ![a] = s]
  BY DEF GoTo
<1> HIDE DEF s
<1> QED BY <1>1, <1>2, Replaced

LEMMA EndsMoves ==
    ASSUME TypedAct, NEW a \in Actors, Ends(a)
    PROVE  Arrives(a, "idle", "none", None) /\ act'[a] = Idle
<1>1. Arrives(a, Idle.pc, Idle.op, Idle.part)
  BY IdleTyped, Replaced DEF Ends
<1>2. act'[a] = Idle
  BY DEF Ends, TypedAct
<1> QED BY <1>1, <1>2 DEF Idle

LEMMA FailsMoves ==
    ASSUME TypedAct, NEW a \in Actors, NEW error \in {"transient", "terminal", "settled"},
           act' = [act EXCEPT ![a] = [@ EXCEPT !.pc = "mark", !.error = error]]
    PROVE  Arrives(a, "mark", act[a].op, act[a].part)
<1> DEFINE s == [act[a] EXCEPT !.pc = "mark", !.error = error]
<1>0. act[a] \in ActorState
  BY DEF TypedAct
<1>1. s \in ActorState /\ s.pc = "mark" /\ s.op = act[a].op /\ s.part = act[a].part
  BY <1>0 DEF ActorState, Steps
<1> HIDE DEF s
<1>2. act' = [act EXCEPT ![a] = s]
  BY DEF s
<1> QED BY <1>1, <1>2, Replaced

LEMMA SeesMoves ==
    ASSUME TypedAct, NEW a \in Actors, NEW seen \in Statuses,
           act' = [act EXCEPT ![a] = [@ EXCEPT !.pc = "check", !.seen = seen]]
    PROVE  Arrives(a, "check", act[a].op, act[a].part)
<1> DEFINE s == [act[a] EXCEPT !.pc = "check", !.seen = seen]
<1>0. act[a] \in ActorState
  BY DEF TypedAct
<1>1. s \in ActorState /\ s.pc = "check" /\ s.op = act[a].op /\ s.part = act[a].part
  BY <1>0 DEF ActorState, Steps
<1> HIDE DEF s
<1>2. act' = [act EXCEPT ![a] = s]
  BY DEF s
<1> QED BY <1>1, <1>2, Replaced

LEMMA PutMoves ==
    ASSUME TypedAct, NEW a \in Actors, NEW p \in Parts,
           act' = [act EXCEPT ![a] = [Idle EXCEPT !.pc = "own", !.op = "put", !.part = p]]
    PROVE  Arrives(a, "own", "put", p)
<1> DEFINE s == [Idle EXCEPT !.pc = "own", !.op = "put", !.part = p]
<1>1. s \in ActorState /\ s.pc = "own" /\ s.op = "put" /\ s.part = p
  BY DEF Idle, ActorState, Steps, Statuses
<1> HIDE DEF s
<1>2. act' = [act EXCEPT ![a] = s]
  BY DEF s
<1> QED BY <1>1, <1>2, Replaced

LEMMA BeginsMoves ==
    ASSUME TypedAct, NEW a \in Actors, NEW op \in {"get", "complete"},
           act' = [act EXCEPT ![a] = [Idle EXCEPT !.pc = "own", !.op = op]]
    PROVE  Arrives(a, "own", op, None)
<1> DEFINE s == [Idle EXCEPT !.pc = "own", !.op = op]
<1>1. s \in ActorState /\ s.pc = "own" /\ s.op = op /\ s.part = None
  BY DEF Idle, ActorState, Steps, Statuses
<1> HIDE DEF s
<1>2. act' = [act EXCEPT ![a] = s]
  BY DEF s
<1> QED BY <1>1, <1>2, Replaced

LEMMA FetchMoves ==
    ASSUME TypedAct, NEW h \in Handlers, NEW m \in Messages, Fetch(h, m)
    PROVE  Arrives(h, "look", "finalize", None)
<1> DEFINE s == [Idle EXCEPT !.pc = "look", !.op = "finalize", !.msg = m,
                             !.last = msg[m].tries >= RetryLimit]
<1>0. h \in Actors /\ (msg[m].tries >= RetryLimit) \in BOOLEAN
  BY DEF Actors
<1>1. s \in ActorState /\ s.pc = "look" /\ s.op = "finalize" /\ s.part = None
  BY <1>0 DEF Idle, ActorState, Steps, Statuses
<1> HIDE DEF s
<1>2. act' = [act EXCEPT ![h] = s]
  BY DEF s, Fetch
<1> QED BY <1>0, <1>1, <1>2, Replaced

LEMMA OutlastsMoves ==
    ASSUME TypedAct, NEW h \in Handlers, Outlasts(h)
    PROVE  Arrives(h, act[h].pc, act[h].op, act[h].part)
<1> DEFINE s == [act[h] EXCEPT !.msg = None]
<1>0. h \in Actors
  BY DEF Actors
<1>1. s \in ActorState /\ s.pc = act[h].pc /\ s.op = act[h].op /\ s.part = act[h].part
  BY <1>0 DEF TypedAct, ActorState
<1> HIDE DEF s
<1>2. act' = [act EXCEPT ![h] = s]
  BY DEF s, Outlasts
<1> QED BY <1>0, <1>1, <1>2, Replaced

LEMMA RedeliveredTyped ==
    ASSUME TypedMsg, NEW m \in Messages \cup {None}
    PROVE  Redelivered(m) \in [Messages -> Message]
<1>1. CASE m = None
  BY <1>1 DEF TypedMsg, Redelivered
<1>2. CASE m # None
  <2> m \in Messages
    BY <1>2
  <2>1. ASSUME msg[m].tries < RetryLimit
        PROVE  [state |-> "ready", tries |-> msg[m].tries + 1] \in Message
    BY <2>1, BoundsAssumption DEF TypedMsg, Message
  <2>2. [msg[m] EXCEPT !.state = "gone"] \in Message
    BY DEF TypedMsg, Message
  <2> DEFINE next == IF msg[m].tries < RetryLimit
                     THEN [state |-> "ready", tries |-> msg[m].tries + 1]
                     ELSE [msg[m] EXCEPT !.state = "gone"]
  <2>3. next \in Message
    BY <2>1, <2>2
  <2>4. Redelivered(m) = [msg EXCEPT ![m] = next]
    BY <1>2 DEF Redelivered
  <2> HIDE DEF next
  <2> QED BY <2>3, <2>4 DEF TypedMsg
<1> QED BY <1>1, <1>2

LEMMA StateTyped ==
    ASSUME TypedMsg, NEW m \in Messages, NEW s \in {"absent", "ready", "active", "gone"}
    PROVE  [msg EXCEPT ![m] = [@ EXCEPT !.state = s]] \in [Messages -> Message]
<1>1. [msg[m] EXCEPT !.state = s] \in Message
  BY DEF TypedMsg, Message
<1> QED BY <1>1 DEF TypedMsg

LEMMA FaultyTyped == ASSUME TypedFaults, NEW f, Faulty(f) PROVE TypedFaults'
BY BoundsAssumption DEF TypedFaults, Faulty

-------------------------------------------------------------------------------
(* Which actions change which variable.                                     *)

LEMMA FaultsFrame ==
    ASSUME Next
    PROVE  UNCHANGED faults \/ (faults < MaxFaults /\ faults' = faults + 1)
<1>1. ASSUME NEW a \in Actors, Owned(a) PROVE UNCHANGED faults
  BY <1>1 DEF Owned, OwnedRead, OwnedCheck, OwnedExpire, Release
<1>2. ASSUME NEW c \in Clients,
             Request(c) \/ Create(c) \/ Get(c) \/ Put(c) \/ Complete(c) \/ RequestDies(c)
      PROVE  UNCHANGED faults \/ (faults < MaxFaults /\ faults' = faults + 1)
  BY <1>1, <1>2 DEF Actors, Request, Create, Get, Put, Complete, RequestDies, InsertSession,
     PutLookup, PutWrite, PutInsert, PutUndo, CountParts, ClaimFinalizing, Faulty
<1>3. ASSUME NEW h \in Handlers,
             \/ Finalizer(h) \/ Outlasts(h) \/ HandlerDies(h)
             \/ \E m \in Messages : Fetch(h, m)
      PROVE  UNCHANGED faults \/ (faults < MaxFaults /\ faults' = faults + 1)
  BY <1>1, <1>3 DEF Actors, Finalizer, Outlasts, HandlerDies, Fetch, Look, Assemble, Reject, Dedupe,
     SettleDuplicate, Compose, Persist, RemoveParts, FinishJob, MarkFailure, Return, Throw, Faulty
<1>4. ASSUME \/ \E m \in Messages : Publish(m) \/ MessageExpires(m)
             \/ Cleanup \/ Expires \/ TwinUploaded
      PROVE  UNCHANGED faults \/ (faults < MaxFaults /\ faults' = faults + 1)
  BY <1>4 DEF Publish, MessageExpires, Cleanup, CleanClaim, CleanFile, CleanRow, CleanEnds,
     Expires, TwinUploaded, Faulty
<1> QED BY <1>2, <1>3, <1>4 DEF Next

-------------------------------------------------------------------------------
(* The steps of each actor.                                                 *)

ClientStep(c)  == \/ Request(c) \/ Create(c) \/ Get(c) \/ Put(c) \/ Complete(c)
                  \/ RequestDies(c)
HandlerStep(h) == \/ Finalizer(h) \/ Outlasts(h) \/ HandlerDies(h)
                  \/ \E m \in Messages : Fetch(h, m)
QueueStep      == \E m \in Messages : Publish(m) \/ MessageExpires(m)
OtherStep      == QueueStep \/ Cleanup \/ Expires \/ TwinUploaded

LEMMA NextSteps ==
    Next <=> \/ \E c \in Clients : ClientStep(c)
             \/ \E h \in Handlers : HandlerStep(h)
             \/ OtherStep
BY DEF Next, ClientStep, HandlerStep, QueueStep, OtherStep

(* A request that puts a part has one.                                      *)
PutSteps == {"lookup", "write", "insert", "undo"}
Has(c)   == /\ act[c].op = "put" => act[c].part \in Parts
            /\ act[c].pc \in PutSteps => act[c].op = "put"

LEMMA AfterOwnedTyped ==
    ASSUME NEW a \in Actors
    PROVE  /\ AfterOwned(a) \in Steps
           /\ AfterOwned(a) \in {"idle", "lookup", "count", "finish", "assemble", "mark"}
           /\ AfterOwned(a) = "lookup" => act[a].op = "put"
BY DEF AfterOwned, Steps

LEMMA OwnedMoves ==
    ASSUME TypedAct, TypedSession, NEW a \in Actors, Owned(a)
    PROVE  /\ TypedAct' /\ Alone(a)
           /\ Has(a) => Has(a)'
           /\ act[a].pc \in {"own", "check", "expire", "release"}
           /\ act[a].pc = "release" => act'[a].pc \in {"idle", "mark"}
           /\ act'[a].pc \notin {"insert-session", "insert", "undo", "remove"}
           /\ act'[a].pc = "release" => OwnedExpire(a)
<1>1. CASE OwnedRead(a)
  <2>1. session.status \in Statuses
    BY DEF TypedSession
  <2>2. Arrives(a, "check", act[a].op, act[a].part)
    BY <1>1, <2>1, SeesMoves DEF OwnedRead
  <2> QED BY <1>1, <2>2 DEF OwnedRead, Arrives, Has, PutSteps
<1>2. CASE OwnedCheck(a)
  <2>1. CASE GoTo(a, "expire")
    <3>1. Arrives(a, "expire", act[a].op, act[a].part)
      BY <2>1, GoToMoves DEF Steps
    <3> QED BY <1>2, <3>1 DEF OwnedCheck, Arrives, Has, PutSteps
  <2>2. CASE Ends(a)
    <3>1. Arrives(a, "idle", "none", None)
      BY <2>2, EndsMoves
    <3> QED BY <1>2, <3>1 DEF OwnedCheck, Arrives, Has, PutSteps
  <2>3. CASE GoTo(a, AfterOwned(a))
    <3>1. Arrives(a, AfterOwned(a), act[a].op, act[a].part)
      BY <2>3, GoToMoves, AfterOwnedTyped
    <3> QED BY <1>2, <3>1, AfterOwnedTyped DEF OwnedCheck, Arrives, Has, PutSteps
  <2> QED BY <1>2, <2>1, <2>2, <2>3 DEF OwnedCheck
<1>3. CASE OwnedExpire(a)
  <2>1. Arrives(a, "release", act[a].op, act[a].part)
    BY <1>3, GoToMoves DEF OwnedExpire, Steps
  <2> QED BY <1>3, <2>1 DEF OwnedExpire, Arrives, Has, PutSteps
<1>4. CASE Release(a)
  <2>1. \/ Arrives(a, "mark", act[a].op, act[a].part)
        \/ Arrives(a, "idle", "none", None)
    BY <1>4, FailsMoves, EndsMoves DEF Release
  <2> QED BY <1>4, <2>1 DEF Release, Arrives, Has, PutSteps
<1> QED BY <1>1, <1>2, <1>3, <1>4 DEF Owned

(* What a step of a request does to the request.                            *)
LEMMA ClientMoves ==
    ASSUME TypedAct, TypedSession, NEW c \in Clients, Has(c), ClientStep(c)
    PROVE  /\ TypedAct' /\ Alone(c) /\ Has(c)'
           /\ act'[c].pc # "remove"
           /\ act'[c].pc = "insert-session" => Create(c)
           /\ act'[c].pc = "release" => (InsertSession(c) /\ UNCHANGED session) \/ OwnedExpire(c)
           /\ act'[c].pc = "insert" => PutWrite(c) /\ file[act[c].part] = "none"
                                         /\ file' = [file EXCEPT ![act[c].part] = "whole"]
           /\ act'[c].pc = "undo" => PutInsert(c) /\ UNCHANGED rows
           /\ act'[c].pc \in {"insert", "undo"} => act'[c].part = act[c].part
           /\ act[c].pc = "idle" => session.status # "absent" \/ Create(c)
           /\ act[c].pc = "insert-session" => InsertSession(c) \/ RequestDies(c)
           /\ act[c].pc = "release" => act'[c].pc = "idle"
<1> c \in Actors /\ c \notin Handlers
  BY ActorsAssumption DEF Actors
<1> USE DEF Arrives, Has, PutSteps
<1>1. CASE Owned(c)
  <2>1. CASE Release(c)
    <3>1. Arrives(c, "idle", "none", None)
      BY <2>1, EndsMoves DEF Release
    <3> QED BY <2>1, <3>1 DEF Release
  <2>2. CASE ~Release(c)
    BY <1>1, <2>2, OwnedMoves DEF Owned, OwnedRead, OwnedCheck, OwnedExpire
  <2> QED BY <2>1, <2>2
<1>2. CASE Create(c)
  <2>1. Arrives(c, "insert-session", act[c].op, act[c].part)
    BY <1>2, GoToMoves DEF Create, Steps
  <2> QED BY <1>2, <2>1 DEF Create
<1>3. CASE InsertSession(c)
  <2>1. CASE Ends(c)
    <3>1. Arrives(c, "idle", "none", None)
      BY <2>1, EndsMoves
    <3> QED BY <1>3, <3>1 DEF InsertSession
  <2>2. CASE GoTo(c, "release") /\ UNCHANGED session
    <3>1. Arrives(c, "release", act[c].op, act[c].part)
      BY <2>2, GoToMoves DEF Steps
    <3> QED BY <1>3, <2>2, <3>1 DEF InsertSession
  <2> QED BY <1>3, <2>1, <2>2 DEF InsertSession
<1>4. CASE Get(c)
  <2>1. Arrives(c, "own", "get", None)
    BY <1>4, BeginsMoves DEF Get, Gets
  <2> QED BY <1>4, <2>1 DEF Get
<1>5. CASE Put(c)
  <2>1. \E p \in Parts : Arrives(c, "own", "put", p)
    BY <1>5, PutMoves DEF Put
  <2> QED BY <1>5, <2>1 DEF Put
<1>6. CASE Complete(c)
  <2>1. Arrives(c, "own", "complete", None)
    BY <1>6, BeginsMoves DEF Complete
  <2> QED BY <1>6, <2>1 DEF Complete
<1>7. CASE PutLookup(c)
  <2>1. Arrives(c, "own", "get", None) \/ Arrives(c, "write", act[c].op, act[c].part)
    BY <1>7, BeginsMoves, GoToMoves DEF PutLookup, Gets, Steps
  <2> QED BY <1>7, <2>1 DEF PutLookup
<1>8. CASE PutWrite(c)
  <2>1. CASE Ends(c)
    <3>1. Arrives(c, "idle", "none", None)
      BY <2>1, EndsMoves
    <3> QED BY <1>8, <3>1 DEF PutWrite
  <2>2. CASE file[act[c].part] = "none" /\ file' = [file EXCEPT ![act[c].part] = "whole"]
             /\ GoTo(c, "insert")
    <3>1. Arrives(c, "insert", act[c].op, act[c].part)
      BY <2>2, GoToMoves DEF Steps
    <3> QED BY <1>8, <2>2, <3>1 DEF PutWrite
  <2> QED BY <1>8, <2>1, <2>2 DEF PutWrite
<1>9. CASE PutInsert(c)
  <2>1. CASE Gets(c)
    <3>1. Arrives(c, "own", "get", None)
      BY <2>1, BeginsMoves DEF Gets
    <3> QED BY <1>9, <3>1 DEF PutInsert
  <2>2. CASE GoTo(c, "undo") /\ UNCHANGED rows
    <3>1. Arrives(c, "undo", act[c].op, act[c].part)
      BY <2>2, GoToMoves DEF Steps
    <3> QED BY <1>9, <2>2, <3>1 DEF PutInsert
  <2> QED BY <1>9, <2>1, <2>2 DEF PutInsert
<1>10. CASE PutUndo(c)
  <2>1. Arrives(c, "idle", "none", None)
    BY <1>10, EndsMoves DEF PutUndo
  <2> QED BY <1>10, <2>1 DEF PutUndo
<1>11. CASE CountParts(c)
  <2>1. Arrives(c, "idle", "none", None) \/ Arrives(c, "claim", act[c].op, act[c].part)
    BY <1>11, EndsMoves, GoToMoves DEF CountParts, Steps
  <2> QED BY <1>11, <2>1 DEF CountParts
<1>12. CASE ClaimFinalizing(c)
  <2>1. Arrives(c, "idle", "none", None)
    BY <1>12, EndsMoves DEF ClaimFinalizing
  <2> QED BY <1>12, <2>1 DEF ClaimFinalizing
<1>13. CASE RequestDies(c)
  <2>1. Arrives(c, "idle", "none", None)
    BY <1>13, EndsMoves DEF RequestDies
  <2> QED BY <1>13, <2>1 DEF RequestDies
<1> QED BY <1>1, <1>2, <1>3, <1>4, <1>5, <1>6, <1>7, <1>8, <1>9, <1>10, <1>11, <1>12, <1>13
        DEF ClientStep, Request

(* What a step of a handler does to the handler.                            *)
LEMMA HandlerMoves ==
    ASSUME TypedAct, TypedSession, NEW h \in Handlers, HandlerStep(h)
    PROVE  /\ TypedAct' /\ Alone(h)
           /\ act'[h].pc = "release" => OwnedExpire(h) \/ (act[h].pc = "release" /\ Outlasts(h))
           /\ act'[h].pc = "insert-session" => act[h].pc = "insert-session" /\ Outlasts(h)
           /\ act'[h].pc = "remove" => \/ SettleDuplicate(h) /\ session'.status = "completed"
                                       \/ Persist(h) /\ session'.status = "completed"
                                       \/ act[h].pc = "remove" /\ Outlasts(h)
<1> h \in Actors
  BY DEF Actors
<1> USE DEF Arrives
<1>1. CASE Owned(h)
  <2>1. /\ TypedAct' /\ Alone(h)
        /\ act'[h].pc \notin {"insert-session", "insert", "undo", "remove"}
        /\ act'[h].pc = "release" => OwnedExpire(h)
    BY <1>1, OwnedMoves
  <2> QED BY <2>1
<1>2. CASE Look(h)
  <2>1. \E pc \in {"return", "own", "mark"} : Arrives(h, pc, act[h].op, act[h].part)
    BY <1>2, GoToMoves, FailsMoves DEF Look, Fails, Steps
  <2> QED BY <2>1
<1>3. CASE Assemble(h) \/ Reject(h) \/ Dedupe(h) \/ Compose(h)
  <2>1. \E pc \in {"dedupe", "mark", "settle", "compose", "persist"} :
          Arrives(h, pc, act[h].op, act[h].part)
    BY <1>3, GoToMoves, FailsMoves DEF Assemble, Reject, Dedupe, Compose, Fails, Steps
  <2> QED BY <2>1
<1>4. CASE SettleDuplicate(h)
  <2>1. CASE \E e \in {"transient", "terminal"} : Fails(h, e)
    <3>1. Arrives(h, "mark", act[h].op, act[h].part)
      BY <2>1, FailsMoves DEF Fails
    <3> QED BY <3>1
  <2>2. CASE SessionIs("completed") /\ GoTo(h, "remove")
    <3>1. Arrives(h, "remove", act[h].op, act[h].part)
      BY <2>2, GoToMoves DEF Steps
    <3> QED BY <1>4, <2>2, <3>1 DEF SessionIs, TypedSession
  <2> QED BY <1>4, <2>1, <2>2 DEF SettleDuplicate
<1>5. CASE Persist(h)
  <2>1. CASE \E e \in {"transient", "terminal"} : Fails(h, e)
    <3>1. Arrives(h, "mark", act[h].op, act[h].part)
      BY <2>1, FailsMoves DEF Fails
    <3> QED BY <3>1
  <2>2. CASE session'.status = "completed" /\ GoTo(h, "remove")
    <3>1. Arrives(h, "remove", act[h].op, act[h].part)
      BY <2>2, GoToMoves DEF Steps
    <3> QED BY <1>5, <2>2, <3>1
  <2>3. ASSUME SessionIs("completed") PROVE session'.status = "completed"
    BY <2>3 DEF SessionIs, TypedSession
  <2> QED BY <1>5, <2>1, <2>2, <2>3 DEF Persist
<1>6. CASE RemoveParts(h) \/ FinishJob(h) \/ MarkFailure(h)
  <2>1. \E pc \in {"finish", "mark", "return", "throw"} :
          Arrives(h, pc, act[h].op, act[h].part)
    BY <1>6, GoToMoves, FailsMoves DEF RemoveParts, FinishJob, MarkFailure, Fails, Steps
  <2> QED BY <2>1
<1>7. CASE Return(h) \/ Throw(h) \/ HandlerDies(h)
  <2>1. Arrives(h, "idle", "none", None)
    BY <1>7, EndsMoves DEF Return, Throw, HandlerDies
  <2> QED BY <2>1
<1>8. CASE Outlasts(h)
  BY <1>8, OutlastsMoves
<1>9. ASSUME NEW m \in Messages, Fetch(h, m)
      PROVE  Arrives(h, "look", "finalize", None)
  BY <1>9, FetchMoves
<1> QED BY <1>1, <1>2, <1>3, <1>4, <1>5, <1>6, <1>7, <1>8, <1>9 DEF HandlerStep, Finalizer

LEMMA OthersRest == ASSUME OtherStep PROVE UNCHANGED act
BY DEF OtherStep, QueueStep, Publish, MessageExpires, Cleanup, CleanClaim, CleanFile, CleanRow,
       CleanEnds, Expires, TwinUploaded

-------------------------------------------------------------------------------
(* Which actions change which variables.                                    *)

AccountStep ==
    \/ \E c \in Clients : Create(c) \/ InsertSession(c) \/ ClaimFinalizing(c)
    \/ \E a \in Actors : OwnedExpire(a) \/ Release(a)
    \/ \E h \in Handlers : SettleDuplicate(h) \/ Persist(h) \/ MarkFailure(h)
    \/ CleanClaim \/ Expires

BlobStep ==
    \/ \E c \in Clients : PutWrite(c) \/ PutInsert(c) \/ PutUndo(c) \/ RequestDies(c)
    \/ \E h \in Handlers : RemoveParts(h)
    \/ (\E p \in Parts : CleanFile(p)) \/ CleanRow

JobStep ==
    \/ \E c \in Clients : ClaimFinalizing(c)
    \/ \E h \in Handlers : \/ FinishJob(h) \/ MarkFailure(h) \/ Return(h) \/ Throw(h) \/ Outlasts(h)
                           \/ \E m \in Messages : Fetch(h, m)
    \/ QueueStep

LEMMA Frames ==
    ASSUME Next
    PROVE  /\ UNCHANGED <<session, reserved, version>> \/ AccountStep
           /\ UNCHANGED blobs \/ BlobStep
           /\ UNCHANGED queue \/ JobStep
           /\ UNCHANGED clean \/ Cleanup
           /\ UNCHANGED twin \/ TwinUploaded
<1> DEFINE Framed == /\ UNCHANGED <<session, reserved, version>> \/ AccountStep
                     /\ UNCHANGED blobs \/ BlobStep
                     /\ UNCHANGED queue \/ JobStep
                     /\ UNCHANGED clean \/ Cleanup
                     /\ UNCHANGED twin \/ TwinUploaded
<1> USE DEF AccountStep, BlobStep, JobStep, blobs, queue, found
<1>1. ASSUME NEW a \in Actors, Owned(a) PROVE Framed
  BY <1>1 DEF Owned, OwnedRead, OwnedCheck, OwnedExpire, Release
<1>2. ASSUME NEW c \in Clients, ClientStep(c) PROVE Framed
  <2>1. CASE Owned(c)
    BY <1>1, <2>1 DEF Actors
  <2>2. CASE InsertSession(c) \/ PutLookup(c) \/ PutWrite(c) \/ PutInsert(c) \/ PutUndo(c)
             \/ CountParts(c) \/ ClaimFinalizing(c)
    BY <2>2 DEF InsertSession, PutLookup, PutWrite, PutInsert, PutUndo, CountParts, ClaimFinalizing
  <2>3. CASE Create(c) \/ Get(c) \/ Put(c) \/ Complete(c) \/ RequestDies(c)
    BY <2>3 DEF Create, Get, Put, Complete, RequestDies
  <2> QED BY <1>2, <2>1, <2>2, <2>3 DEF ClientStep, Request
<1>3. ASSUME NEW h \in Handlers, HandlerStep(h) PROVE Framed
  <2>1. CASE Owned(h)
    BY <1>1, <2>1 DEF Actors
  <2>2. CASE Look(h) \/ Assemble(h) \/ Reject(h) \/ Dedupe(h) \/ SettleDuplicate(h) \/ Compose(h)
    BY <2>2 DEF Look, Assemble, Reject, Dedupe, SettleDuplicate, Compose
  <2>3. CASE Persist(h) \/ RemoveParts(h) \/ FinishJob(h) \/ MarkFailure(h) \/ Return(h) \/ Throw(h)
    BY <2>3 DEF Persist, RemoveParts, FinishJob, MarkFailure, Return, Throw
  <2>4. CASE Outlasts(h) \/ HandlerDies(h) \/ \E m \in Messages : Fetch(h, m)
    BY <2>4 DEF Outlasts, HandlerDies, Fetch
  <2> QED BY <1>3, <2>1, <2>2, <2>3, <2>4 DEF HandlerStep, Finalizer
<1>4. ASSUME OtherStep PROVE Framed
  <2>1. CASE QueueStep
    BY <2>1 DEF QueueStep, Publish, MessageExpires
  <2>2. CASE Cleanup
    BY <2>2 DEF Cleanup, CleanClaim, CleanFile, CleanRow, CleanEnds
  <2>3. CASE Expires \/ TwinUploaded
    BY <2>3 DEF Expires, TwinUploaded
  <2> QED BY <1>4, <2>1, <2>2, <2>3 DEF OtherStep
<1> QED BY <1>2, <1>3, <1>4, NextSteps

-------------------------------------------------------------------------------
(* TypeOK is inductive, given that requests that put a part have one.       *)

LEMMA SessionTyped ==
    ASSUME TypedSession, NEW s \in Statuses, SessionIs(s)
    PROVE  session' \in [status : Statuses, late : BOOLEAN] /\ session'.status = s
           /\ session'.late = session.late
BY DEF TypedSession, SessionIs

LEMMA ActTyped ==
    ASSUME TypedAct, TypedSession, \A c \in Clients : Has(c), Next
    PROVE  TypedAct'
<1>1. ASSUME NEW c \in Clients, ClientStep(c) PROVE TypedAct'
  BY <1>1, ClientMoves
<1>2. ASSUME NEW h \in Handlers, HandlerStep(h) PROVE TypedAct'
  BY <1>2, HandlerMoves
<1>3. ASSUME OtherStep PROVE TypedAct'
  BY <1>3, OthersRest DEF TypedAct
<1> QED BY <1>1, <1>2, <1>3, NextSteps

LEMMA AccountTyped ==
    ASSUME TypedSession, TypedAct, Next
    PROVE  TypedSession'
<1>1. session.status \in Statuses
  BY DEF TypedSession
<1>2. twin' \in BOOLEAN
  BY Frames DEF TwinUploaded, TypedSession
<1>3. CASE UNCHANGED <<session, reserved, version>>
  BY <1>2, <1>3 DEF TypedSession
<1>4. ASSUME NEW c \in Clients, Create(c) \/ InsertSession(c) \/ ClaimFinalizing(c)
      PROVE  TypedSession'
  BY <1>2, <1>4, SessionTyped
     DEF Create, InsertSession, ClaimFinalizing, TypedSession, Statuses, found
<1>5. ASSUME NEW a \in Actors, OwnedExpire(a) \/ Release(a) PROVE TypedSession'
  BY <1>2, <1>5, SessionTyped DEF OwnedExpire, Release, TypedSession, Statuses, found
<1>6. ASSUME NEW h \in Handlers, SettleDuplicate(h) \/ Persist(h) \/ MarkFailure(h)
      PROVE  TypedSession'
  <2>1. reserved' \in BOOLEAN /\ version' \in Nat
    <3>1. CASE SettleDuplicate(h)
      BY <3>1 DEF SettleDuplicate, TypedSession, found
    <3>2. CASE Persist(h)
      <4>1. UNCHANGED <<reserved, version>> \/ (reserved' = FALSE /\ version' = version + 1)
        BY <3>2 DEF Persist
      <4>2. reserved' \in BOOLEAN
        BY <4>1, Zenon DEF TypedSession
      <4>3. version' \in Nat
        BY <4>1 DEF TypedSession
      <4> QED BY <4>2, <4>3
    <3>3. CASE MarkFailure(h)
      BY <3>3 DEF MarkFailure, TypedSession, found
    <3> QED BY <1>6, <3>1, <3>2, <3>3
  <2>2. UNCHANGED session \/ \E s \in Statuses : SessionIs(s)
    BY <1>1, <1>6 DEF SettleDuplicate, Persist, MarkFailure, Statuses
  <2> QED BY <1>2, <2>1, <2>2, SessionTyped DEF TypedSession
<1>7. CASE CleanClaim
  BY <1>1, <1>2, <1>7, SessionTyped DEF CleanClaim, TypedSession, Statuses, found
<1>8. CASE Expires
  BY <1>2, <1>8 DEF Expires, TypedSession, found
<1> QED BY <1>3, <1>4, <1>5, <1>6, <1>7, <1>8, Frames DEF AccountStep

LEMMA BlobsTyped ==
    ASSUME TypedBlobs, TypedAct, \A c \in Clients : Has(c), Next
    PROVE  TypedBlobs'
<1>1. ASSUME NEW c \in Clients, PutWrite(c) \/ PutUndo(c) \/ RequestDies(c) PROVE TypedBlobs'
  BY <1>1 DEF PutWrite, PutUndo, RequestDies, TypedBlobs
<1>2. ASSUME NEW c \in Clients, PutInsert(c) PROVE TypedBlobs'
  BY <1>2 DEF PutInsert, TypedBlobs, Has, PutSteps
<1>3. ASSUME NEW h \in Handlers, RemoveParts(h) PROVE TypedBlobs'
  BY <1>3 DEF RemoveParts, TypedBlobs
<1>4. ASSUME NEW p \in Parts, CleanFile(p) PROVE TypedBlobs'
  BY <1>4 DEF CleanFile, TypedBlobs
<1>5. CASE CleanRow
  BY <1>5 DEF CleanRow, TypedBlobs
<1>6. CASE UNCHANGED blobs
  BY <1>6 DEF blobs, TypedBlobs
<1> QED BY <1>1, <1>2, <1>3, <1>4, <1>5, <1>6, Frames DEF BlobStep

LEMMA QueueTyped ==
    ASSUME TypedJob, TypedMsg, TypedAct, Next
    PROVE  TypedJob' /\ TypedMsg'
<1>0. ASSUME NEW h \in Handlers PROVE act[h].msg \in Messages \cup {None}
  BY DEF TypedAct, ActorState, Actors
<1>1. ASSUME NEW c \in Clients, ClaimFinalizing(c) PROVE TypedJob' /\ TypedMsg'
  BY <1>1 DEF ClaimFinalizing, TypedJob, TypedMsg
<1>2. ASSUME NEW h \in Handlers, FinishJob(h) \/ MarkFailure(h) PROVE TypedJob' /\ TypedMsg'
  BY <1>2 DEF FinishJob, MarkFailure, TypedJob, TypedMsg
<1>3. ASSUME NEW h \in Handlers, Return(h) PROVE TypedJob' /\ TypedMsg'
  <2>1. msg' \in [Messages -> Message]
    <3>1. CASE act[h].msg = None
      BY <1>3, <3>1 DEF Return, Acknowledged, TypedMsg
    <3>2. CASE act[h].msg \in Messages
      <4>1. act[h].msg # None
        BY <3>2, NoneAssumption
      <4> QED BY <1>3, <3>2, <4>1, StateTyped DEF Return, Acknowledged
    <3> QED BY <1>0, <3>1, <3>2
  <2> QED BY <1>3, <2>1 DEF Return, TypedJob, TypedMsg
<1>4. ASSUME NEW h \in Handlers, Throw(h) \/ Outlasts(h) PROVE TypedJob' /\ TypedMsg'
  <2>1. msg' = Redelivered(act[h].msg)
    BY <1>4 DEF Throw, Outlasts
  <2>2. msg' \in [Messages -> Message]
    BY <1>0, <2>1, RedeliveredTyped
  <2> QED BY <1>4, <2>2 DEF Throw, Outlasts, TypedJob, TypedMsg
<1>5. ASSUME NEW h \in Handlers, NEW m \in Messages, Fetch(h, m) PROVE TypedJob' /\ TypedMsg'
  <2>1. msg' \in [Messages -> Message]
    BY <1>5, StateTyped DEF Fetch
  <2> QED BY <1>5, <2>1 DEF Fetch, TypedJob, TypedMsg
<1>6. ASSUME NEW m \in Messages, Publish(m) PROVE TypedJob' /\ TypedMsg'
  <2>1. [state |-> "ready", tries |-> 0] \in Message
    BY BoundsAssumption DEF Message
  <2> QED BY <1>6, <2>1 DEF Publish, TypedJob, TypedMsg
<1>7. ASSUME NEW m \in Messages, MessageExpires(m) PROVE TypedJob' /\ TypedMsg'
  BY <1>7, RedeliveredTyped DEF MessageExpires, TypedJob, TypedMsg
<1>8. CASE UNCHANGED queue
  BY <1>8 DEF queue, TypedJob, TypedMsg
<1> QED BY <1>1, <1>2, <1>3, <1>4, <1>5, <1>6, <1>7, <1>8, Frames DEF JobStep, QueueStep

LEMMA CleanTyped ==
    ASSUME TypedClean, TypedBlobs, Next
    PROVE  TypedClean'
<1>1. CASE CleanClaim \/ CleanRow \/ CleanEnds
  BY <1>1 DEF CleanClaim, CleanRow, CleanEnds, NoClean, TypedClean, TypedBlobs
<1>2. ASSUME NEW p \in Parts, CleanFile(p) PROVE TypedClean'
  BY <1>2 DEF CleanFile, TypedClean
<1>3. CASE UNCHANGED clean
  BY <1>3 DEF TypedClean
<1> QED BY <1>1, <1>2, <1>3, Frames DEF Cleanup

LEMMA TypeStep ==
    ASSUME TypeOK, \A c \in Clients : Has(c), Next
    PROVE  TypeOK'
<1>1. /\ TypedSession /\ TypedBlobs /\ TypedJob /\ TypedMsg
      /\ TypedAct /\ TypedClean /\ TypedFaults
  BY TypeParts
<1>2. TypedSession' /\ TypedBlobs' /\ TypedJob' /\ TypedMsg' /\ TypedAct' /\ TypedClean'
  BY <1>1, ActTyped, AccountTyped, BlobsTyped, QueueTyped, CleanTyped
<1>3. TypedFaults'
  BY <1>1, FaultsFrame, BoundsAssumption DEF TypedFaults
<1> QED BY <1>2, <1>3, TypePartsNext

-------------------------------------------------------------------------------
(* The inductive invariant.                                                 *)

Live    == session.status \in {"open", "finalizing"}
Settled == session.status \in {"completed", "failed", "expired"}

(* Before its finalization is requested a session has no job and no handler. *)
NotRequested ==
    session.status \in {"absent", "open"} =>
      /\ job.outbox = "none"
      /\ \A m \in Messages : msg[m].state = "absent"
      /\ \A h \in Handlers : act[h] = Idle

(* While it is created there is one request, with the reservation.          *)
Creating ==
    session.status = "absent" =>
      /\ rows = {} /\ clean.pc = "idle"
      /\ \A c \in Clients :
           /\ act[c].pc \in {"idle", "insert-session", "release"}
           /\ act[c].pc # "idle" =>
                reserved /\ \A d \in Clients : d # c => act[d].pc = "idle"

(* Where actors are says what the session is.                               *)
Placed ==
    /\ \A c \in Clients : act[c].pc = "insert-session" => session.status = "absent"
    /\ \A a \in Actors : act[a].pc = "release" => ~Live
    /\ \A h \in Handlers : act[h].pc = "remove" => Settled
    /\ \A c \in Clients : Has(c)

CleanPlaced ==
    /\ clean.pc # "idle" => Settled
    /\ clean.pc = "row" => clean.at \in Parts
    /\ clean.pc # "row" => clean.at = None

VersionsFollow == version <= 1 /\ (session.status \notin {"completed", "expired"} => version = 0)

Holding(c) == act[c].pc \in {"insert", "undo"}

(* A live session's requests hold different parts, written and not recorded. *)
Held ==
    Live => \A c \in Clients : Holding(c) =>
      /\ file[act[c].part] = "whole" /\ act[c].part \notin rows
      /\ \A d \in Clients : d # c /\ Holding(d) => act[d].part # act[c].part

(* Without faults every file has a row, a request that holds it, or the     *)
(* cleanup on it.                                                           *)
NoStray ==
    faults = 0 =>
      /\ \A p \in Parts : file[p] # "none" /\ clean.at # p => p \in rows \/ Putting(p)
      /\ clean.pc = "row" /\ file[clean.at] # "none" => Putting(clean.at)

IInv == /\ TypeOK /\ NotRequested /\ Creating /\ Placed /\ CleanPlaced /\ VersionsFollow
        /\ ReservationFollows /\ PartsSafe /\ Held /\ NoStray

LEMMA IInvParts ==
    ASSUME IInv
    PROVE  /\ TypedSession /\ TypedBlobs /\ TypedJob /\ TypedMsg
           /\ TypedAct /\ TypedClean /\ TypedFaults
           /\ \A c \in Clients : Has(c)
BY TypeParts DEF IInv, Placed

LEMMA IInvInit == Init => IInv
<1> SUFFICES ASSUME Init PROVE IInv
  OBVIOUS
<1>1. TypeOK
  BY TypeInit
<1>2. \A a \in Actors : act[a] = Idle
  BY DEF Init
<1>3. NotRequested
  BY <1>2 DEF Init, NotRequested, Actors
<1>4. Creating /\ Placed
  BY <1>2 DEF Init, Creating, Placed, NoClean, Actors, Idle, Has, PutSteps
<1>5. CleanPlaced /\ VersionsFollow
  BY DEF Init, CleanPlaced, VersionsFollow, NoClean
<1>6. ReservationFollows /\ PartsSafe /\ Held /\ NoStray
  BY DEF Init, ReservationFollows, PartsSafe, Held, NoStray, NoClean, Live
<1> QED BY <1>1, <1>3, <1>4, <1>5, <1>6 DEF IInv

(* The ways the status of a session may change.                             *)
StatusMoves ==
    LET s == session.status
        t == session'.status
    IN  \/ t = s
        \/ s = "absent" /\ t = "open"
        \/ s = "open" /\ t = "finalizing"
        \/ s = "finalizing" /\ t \in {"completed", "failed"}
        \/ s # "absent" /\ t = "expired"

(* The account of a session after a step.                                   *)
Accounted == StatusMoves /\ ReservationFollows' /\ VersionsFollow'

LEMMA ClientAccounted ==
    ASSUME IInv, NEW c \in Clients, Create(c) \/ InsertSession(c) \/ ClaimFinalizing(c)
    PROVE  Accounted
<1> USE DEF Accounted, StatusMoves, ReservationFollows, VersionsFollow, found
<1>0. TypedSession /\ ReservationFollows /\ VersionsFollow
  BY IInvParts DEF IInv
<1>1. CASE Create(c)
  BY <1>0, <1>1 DEF Create
<1>2. CASE InsertSession(c)
  <2>1. session.status = "absent" /\ reserved
    BY <1>2 DEF IInv, Placed, Creating, InsertSession
  <2> QED BY <1>0, <1>2, <2>1, SessionTyped DEF InsertSession, Statuses
<1>3. CASE ClaimFinalizing(c)
  BY <1>0, <1>3, SessionTyped DEF ClaimFinalizing, Statuses
<1> QED BY <1>1, <1>2, <1>3

LEMMA OwnedAccounted ==
    ASSUME IInv, NEW a \in Actors, OwnedExpire(a) \/ Release(a)
    PROVE  Accounted
<1> USE DEF Accounted, StatusMoves, ReservationFollows, VersionsFollow, found
<1>0. TypedSession /\ ReservationFollows /\ VersionsFollow
  BY IInvParts DEF IInv
<1>1. CASE OwnedExpire(a)
  <2>1. session.status # "absent"
    BY <1>1 DEF IInv, NotRequested, Creating, OwnedExpire, Actors, Idle
  <2> QED BY <1>0, <1>1, <2>1, SessionTyped DEF OwnedExpire, Statuses
<1>2. CASE Release(a)
  <2>1. ~Live
    BY <1>2 DEF IInv, Placed, Release
  <2> QED BY <1>0, <1>2, <2>1 DEF Release, Live
<1> QED BY <1>1, <1>2

LEMMA HandlerAccounted ==
    ASSUME IInv, NEW h \in Handlers, SettleDuplicate(h) \/ Persist(h) \/ MarkFailure(h)
    PROVE  Accounted
<1> USE DEF Accounted, StatusMoves, ReservationFollows, VersionsFollow
<1>0. TypedSession /\ ReservationFollows /\ VersionsFollow
  BY IInvParts DEF IInv
<1>1. session.status \notin {"absent", "open"}
  <2>1. act[h].pc # "idle"
    BY DEF SettleDuplicate, Persist, MarkFailure
  <2> QED BY <2>1 DEF IInv, NotRequested, Idle
<1>2. CASE SettleDuplicate(h)
  BY <1>0, <1>2, SessionTyped DEF SettleDuplicate, Statuses, found
<1>3. CASE Persist(h)
  BY <1>0, <1>3, SessionTyped DEF Persist, Statuses, TypedSession
<1>4. CASE MarkFailure(h)
  <2>1. CASE UNCHANGED <<session, reserved, version>>
    BY <1>0, <2>1
  <2>2. CASE SessionIs(IF session.status = "finalizing" THEN "failed" ELSE session.status)
             /\ ~reserved' /\ UNCHANGED version
    <3>1. session' = [session EXCEPT !.status = IF session.status = "finalizing" THEN "failed"
                                                ELSE session.status]
      BY <2>2 DEF SessionIs
    <3>2. /\ session'.late = session.late
          /\ session'.status = IF session.status = "finalizing" THEN "failed" ELSE session.status
      BY <1>0, <3>1 DEF TypedSession
    <3> QED BY <1>0, <1>1, <2>2, <3>2 DEF TypedSession, Statuses
  <2> QED BY <1>4, <2>1, <2>2 DEF MarkFailure, found
<1> QED BY <1>2, <1>3, <1>4

LEMMA StepAccounted ==
    ASSUME IInv, Next
    PROVE  Accounted
<1>0. TypedSession /\ ReservationFollows /\ VersionsFollow
  BY IInvParts DEF IInv
<1>1. CASE UNCHANGED <<session, reserved, version>>
  BY <1>0, <1>1 DEF Accounted, StatusMoves, ReservationFollows, VersionsFollow
<1>2. CASE CleanClaim
  <2> DEFINE s == IF session.status = "open" THEN "expired" ELSE session.status
  <2>1. s \in Statuses /\ SessionIs(s) /\ ~reserved' /\ UNCHANGED version
    BY <1>0, <1>2 DEF CleanClaim, TypedSession, Statuses, found
  <2>2. session'.status = s /\ session'.late = session.late
    BY <1>0, <2>1, SessionTyped
  <2>3. session.status \in {"open", "failed", "expired"}
    BY <1>2 DEF CleanClaim, Cleanable
  <2> QED BY <1>0, <2>1, <2>2, <2>3 DEF Accounted, StatusMoves, ReservationFollows, VersionsFollow
<1>3. CASE Expires
  BY <1>0, <1>3 DEF Expires, Accounted, StatusMoves, ReservationFollows, VersionsFollow,
     TypedSession, found
<1> QED BY <1>1, <1>2, <1>3, ClientAccounted, OwnedAccounted, HandlerAccounted, Frames DEF AccountStep

-------------------------------------------------------------------------------
(* No handler runs before its session's finalization is requested.          *)
LEMMA HandlerRests ==
    ASSUME IInv, session.status \in {"absent", "open"}, NEW h \in Handlers
    PROVE  ~HandlerStep(h)
<1>1. act[h] = Idle /\ \A m \in Messages : msg[m].state = "absent"
  BY DEF IInv, NotRequested
<1>2. act[h].pc = "idle" /\ act[h].msg = None
  BY <1>1 DEF Idle
<1>3. ~Finalizer(h)
  BY <1>2 DEF Finalizer, Owned, OwnedRead, OwnedCheck, OwnedExpire, Release, Look, Assemble, Reject,
     Dedupe, SettleDuplicate, Compose, Persist, RemoveParts, FinishJob, MarkFailure, Return, Throw
<1>4. ~Outlasts(h) /\ ~HandlerDies(h) /\ ~\E m \in Messages : Fetch(h, m)
  BY <1>1, <1>2 DEF Outlasts, HandlerDies, Fetch
<1> QED BY <1>3, <1>4 DEF HandlerStep

(* NotRequested.                                                            *)

LEMMA NotRequestedStep ==
    ASSUME IInv, Next
    PROVE  NotRequested'
<1> SUFFICES ASSUME session'.status \in {"absent", "open"} PROVE NotRequested'
  BY DEF NotRequested
<1>1. session.status \in {"absent", "open"}
  BY StepAccounted DEF Accounted, StatusMoves
<1>2. /\ job.outbox = "none" /\ \A m \in Messages : msg[m].state = "absent"
      /\ \A h \in Handlers : act[h] = Idle
  BY <1>1 DEF IInv, NotRequested
<1>3. ASSUME NEW h \in Handlers PROVE ~HandlerStep(h)
  BY <1>1, HandlerRests
<1>4. ~QueueStep
  BY <1>2 DEF QueueStep, Publish, MessageExpires
<1>5. ASSUME NEW c \in Clients, ClientStep(c) PROVE NotRequested'
  <2>1. \A h \in Handlers : act'[h] = act[h]
    BY <1>5, IInvParts, ClientMoves, ActorsAssumption DEF Alone, Actors
  <2>2. UNCHANGED queue
    <3>1. UNCHANGED queue \/ \E d \in Clients : ClaimFinalizing(d) /\ ~UNCHANGED queue
      BY <1>3, <1>4, Frames DEF JobStep, HandlerStep, Finalizer
    <3>2. ASSUME NEW d \in Clients, ClaimFinalizing(d) PROVE UNCHANGED queue
      BY <3>2, IInvParts, SessionTyped DEF ClaimFinalizing, queue, Statuses
    <3> QED BY <3>1, <3>2
  <2> QED BY <1>2, <2>1, <2>2 DEF NotRequested, queue
<1>6. ASSUME OtherStep PROVE NotRequested'
  <2>1. UNCHANGED queue
    BY <1>4, <1>6 DEF OtherStep, Cleanup, CleanClaim, CleanFile, CleanRow, CleanEnds, Expires,
       TwinUploaded, queue
  <2> QED BY <1>2, <1>6, <2>1, OthersRest DEF NotRequested, queue
<1> QED BY <1>3, <1>5, <1>6, NextSteps

(* Creating.                                                                *)
LEMMA CreatingStep ==
    ASSUME IInv, Next
    PROVE  Creating'
<1> SUFFICES ASSUME session'.status = "absent" PROVE Creating'
  BY DEF Creating
<1>1. session.status = "absent"
  BY StepAccounted DEF Accounted, StatusMoves
<1>2. /\ rows = {} /\ clean.pc = "idle"
      /\ \A c \in Clients :
           /\ act[c].pc \in {"idle", "insert-session", "release"}
           /\ act[c].pc # "idle" =>
                reserved /\ \A d \in Clients : d # c => act[d].pc = "idle"
  BY <1>1 DEF IInv, Creating
<1>3. ASSUME NEW h \in Handlers PROVE act[h] = Idle
  BY <1>1 DEF IInv, NotRequested
<1>4. ~BlobStep \/ UNCHANGED rows
  BY <1>2 DEF BlobStep, PutWrite, PutInsert, PutUndo, RequestDies, RemoveParts, CleanFile, CleanRow
<1>5. ~Cleanup
  BY <1>1, <1>2 DEF Cleanup, CleanClaim, Cleanable, CleanFile, CleanRow, CleanEnds
<1>6. rows' = {} /\ clean'.pc = "idle"
  BY <1>2, <1>4, <1>5, Frames DEF blobs
<1>7. ASSUME NEW c \in Clients, ClientStep(c) PROVE Creating'
  <2>0. /\ Alone(c) /\ Clients \subseteq Actors
        /\ act[c].pc = "idle" => Create(c)
        /\ act[c].pc = "insert-session" => InsertSession(c) \/ RequestDies(c)
        /\ act[c].pc = "release" => act'[c].pc = "idle"
    BY <1>1, <1>7, IInvParts, ClientMoves DEF Actors
  <2>1. CASE act[c].pc = "idle"
    <3>1. ~reserved /\ reserved' /\ GoTo(c, "insert-session")
      BY <2>0, <2>1 DEF Create
    <3>2. act'[c].pc = "insert-session"
      BY <2>0, <3>1, IInvParts, GoToMoves DEF Arrives, Steps
    <3>3. \A d \in Clients : act[d].pc = "idle"
      BY <1>2, <3>1
    <3> QED BY <1>6, <2>0, <3>1, <3>2, <3>3 DEF Creating, Alone
  <2>2. CASE act[c].pc = "insert-session"
    <3>1. \A d \in Clients : d # c => act'[d].pc = "idle"
      BY <1>2, <2>0, <2>2 DEF Alone
    <3>2. reserved' /\ act'[c].pc \in {"idle", "release"}
      <4>1. reserved
        BY <1>2, <2>2
      <4>2. CASE RequestDies(c)
        BY <2>0, <4>1, <4>2, IInvParts, EndsMoves DEF RequestDies, Arrives
      <4>3. CASE InsertSession(c)
        BY <2>0, <4>1, <4>3, IInvParts, EndsMoves, GoToMoves DEF InsertSession, Arrives, Steps
      <4> QED BY <2>0, <2>2, <4>2, <4>3
    <3> QED BY <1>6, <3>1, <3>2 DEF Creating
  <2>3. CASE act[c].pc = "release"
    <3>1. \A d \in Clients : act'[d].pc = "idle"
      BY <1>2, <2>0, <2>3 DEF Alone
    <3> QED BY <1>6, <3>1 DEF Creating
  <2> QED BY <1>2, <2>1, <2>2, <2>3
<1>8. ASSUME NEW h \in Handlers, HandlerStep(h) PROVE FALSE
  BY <1>1, <1>8, HandlerRests
<1>9. ASSUME OtherStep PROVE Creating'
  <2>1. UNCHANGED reserved
    BY <1>5, <1>9 DEF OtherStep, QueueStep, Publish, MessageExpires, Expires, TwinUploaded
  <2> QED BY <1>2, <1>6, <1>9, <2>1, OthersRest DEF Creating
<1> QED BY <1>7, <1>8, <1>9, NextSteps

-------------------------------------------------------------------------------
(* Placed.                                                                  *)

(* What was said of an actor stays true while the actor rests.              *)
LEMMA RestPlaced ==
    ASSUME IInv, StatusMoves, NEW b \in Actors, act'[b] = act[b],
           session.status = "absent" /\ session'.status = "open" => act[b].pc = "idle"
    PROVE  /\ b \in Clients /\ act'[b].pc = "insert-session" => session'.status = "absent"
           /\ act'[b].pc = "release" => ~Live'
           /\ b \in Handlers /\ act'[b].pc = "remove" => Settled'
           /\ b \in Clients => Has(b)'
<1>1. /\ b \in Clients /\ act[b].pc = "insert-session" => session.status = "absent"
      /\ act[b].pc = "release" => ~Live
      /\ b \in Handlers /\ act[b].pc = "remove" => Settled
      /\ b \in Clients => Has(b)
  BY DEF IInv, Placed
<1>2. /\ b \in Clients /\ session.status = "absent" =>
             act[b].pc \in {"idle", "insert-session", "release"}
      /\ b \in Handlers /\ session.status = "absent" => act[b].pc = "idle"
  BY DEF IInv, Creating, NotRequested, Idle
<1>3. b \in Clients /\ act[b].pc = "insert-session" => session'.status \in {"absent"}
  BY <1>1, <1>2 DEF StatusMoves
<1> QED BY <1>1, <1>2, <1>3 DEF StatusMoves, Live, Settled, Has

LEMMA PlacedStep ==
    ASSUME IInv, Next
    PROVE  Placed'
<1>0. TypedAct /\ TypedSession /\ \A c \in Clients : Has(c)
  BY IInvParts
<1>1. StatusMoves
  BY StepAccounted DEF Accounted
<1>2. Clients \subseteq Actors /\ Handlers \subseteq Actors
  BY DEF Actors
<1> DEFINE Fits(b) == /\ b \in Clients /\ act'[b].pc = "insert-session" => session'.status = "absent"
                      /\ act'[b].pc = "release" => ~Live'
                      /\ b \in Handlers /\ act'[b].pc = "remove" => Settled'
                      /\ b \in Clients => Has(b)'
<1>3. SUFFICES \A b \in Actors : Fits(b)
  BY <1>2 DEF Placed
<1>4. ASSUME NEW c \in Clients, ClientStep(c) PROVE \A b \in Actors : Fits(b)
  <2>1. /\ Alone(c) /\ Has(c)'
        /\ act'[c].pc # "remove"
        /\ act'[c].pc = "insert-session" => Create(c)
        /\ act'[c].pc = "release" => (InsertSession(c) /\ UNCHANGED session) \/ OwnedExpire(c)
        /\ act[c].pc = "idle" => session.status # "absent" \/ Create(c)
    BY <1>0, <1>4, ClientMoves
  <2>2. session.status = "absent" /\ session'.status = "open" => act[c].pc # "idle"
    BY <2>1 DEF Create
  <2>3. session.status = "absent" /\ session'.status = "open"
        => \A b \in Actors : b # c => act[b].pc = "idle"
    BY <2>2 DEF IInv, Creating, NotRequested, Idle, Actors
  <2>4. \A b \in Actors : b # c => Fits(b)
    BY <1>1, <2>1, <2>3, RestPlaced DEF Alone
  <2>5. act'[c].pc = "insert-session" => session'.status = "absent"
    BY <2>1 DEF Create
  <2>6. act'[c].pc = "release" => ~Live'
    <3>1. CASE InsertSession(c) /\ UNCHANGED session
      BY <3>1 DEF IInv, Placed, InsertSession, Live
    <3>2. CASE OwnedExpire(c)
      BY <1>0, <3>2, SessionTyped DEF OwnedExpire, Live, Statuses
    <3> QED BY <2>1, <3>1, <3>2
  <2>7. Fits(c)
    BY <2>1, <2>5, <2>6
  <2> QED BY <2>4, <2>7
<1>5. ASSUME NEW h \in Handlers, HandlerStep(h) PROVE \A b \in Actors : Fits(b)
  <2>1. /\ Alone(h)
        /\ act'[h].pc = "release" => OwnedExpire(h) \/ (act[h].pc = "release" /\ Outlasts(h))
        /\ act'[h].pc = "remove" => \/ SettleDuplicate(h) /\ session'.status = "completed"
                                    \/ Persist(h) /\ session'.status = "completed"
                                    \/ act[h].pc = "remove" /\ Outlasts(h)
    BY <1>0, <1>5, HandlerMoves
  <2>2. session.status # "absent"
    BY <1>5, HandlerRests
  <2>3. \A b \in Actors : b # h => Fits(b)
    BY <1>1, <2>1, <2>2, RestPlaced DEF Alone
  <2>4. act'[h].pc = "release" => ~Live'
    <3>1. CASE OwnedExpire(h)
      BY <1>0, <3>1, SessionTyped DEF OwnedExpire, Live, Statuses
    <3>2. CASE act[h].pc = "release" /\ Outlasts(h)
      BY <1>2, <3>2 DEF IInv, Placed, Outlasts, Live
    <3> QED BY <2>1, <3>1, <3>2
  <2>5. act'[h].pc = "remove" => Settled'
    BY <2>1 DEF IInv, Placed, Outlasts, Settled
  <2>6. Fits(h)
    BY <2>4, <2>5, ActorsAssumption
  <2> QED BY <2>3, <2>6
<1>6. ASSUME OtherStep PROVE \A b \in Actors : Fits(b)
  <2>1. session.status = "absent" => UNCHANGED session
    BY <1>6 DEF IInv, Creating, OtherStep, QueueStep, Publish, MessageExpires, Cleanup, CleanClaim,
       Cleanable, CleanFile, CleanRow, CleanEnds, Expires, TwinUploaded
  <2>2. UNCHANGED act
    BY <1>6, OthersRest
  <2> QED BY <1>1, <2>1, <2>2, RestPlaced
<1> QED BY <1>4, <1>5, <1>6, NextSteps

LEMMA CleanPlacedStep ==
    ASSUME IInv, Next
    PROVE  CleanPlaced'
<1>1. StatusMoves /\ CleanPlaced
  BY StepAccounted DEF Accounted, IInv
<1>2. CASE UNCHANGED clean
  BY <1>1, <1>2 DEF StatusMoves, CleanPlaced, Settled
<1>3. CASE CleanClaim
  <2>1. /\ session'.status = IF session.status = "open" THEN "expired" ELSE session.status
        /\ session.status \in {"open", "failed", "expired"}
    BY <1>3, IInvParts DEF CleanClaim, Cleanable, SessionIs, TypedSession
  <2> QED BY <1>3, <2>1 DEF CleanClaim, CleanPlaced, Settled
<1>4. ASSUME NEW p \in Parts, CleanFile(p) PROVE CleanPlaced'
  BY <1>1, <1>4, IInvParts DEF CleanFile, CleanPlaced, Settled, TypedClean
<1>5. CASE CleanRow \/ CleanEnds
  BY <1>1, <1>5 DEF CleanRow, CleanEnds, CleanPlaced, Settled, NoClean
<1> QED BY <1>2, <1>3, <1>4, <1>5, Frames DEF Cleanup

-------------------------------------------------------------------------------
(* Parts.                                                                   *)

(* While the session is live only its requests touch parts.                 *)
LEMMA LiveParts ==
    ASSUME IInv, Next, Live'
    PROVE  \/ UNCHANGED <<rows, file>> /\ \A c \in Clients : Holding(c)' => act'[c] = act[c]
           \/ \E c \in Clients : PutWrite(c) \/ PutInsert(c) \/ PutUndo(c) \/ RequestDies(c)
<1> DEFINE Still == UNCHANGED <<rows, file>> /\ \A c \in Clients : Holding(c)' => act'[c] = act[c]
           Puts  == \E c \in Clients : PutWrite(c) \/ PutInsert(c) \/ PutUndo(c) \/ RequestDies(c)
<1>1. ~Settled /\ clean.pc = "idle"
  BY StepAccounted DEF Accounted, StatusMoves, Settled, Live, IInv, CleanPlaced
<1>2. UNCHANGED <<rows, file>> \/ Puts
  <2>1. ASSUME NEW h \in Handlers PROVE ~RemoveParts(h)
    BY <1>1 DEF IInv, Placed, RemoveParts
  <2>2. ~CleanRow /\ \A p \in Parts : ~CleanFile(p)
    BY <1>1 DEF CleanRow, CleanFile
  <2> QED BY <2>1, <2>2, Frames DEF BlobStep, blobs
<1>3. ASSUME NEW c \in Clients, ClientStep(c), ~Puts PROVE \A d \in Clients : Holding(d)' => act'[d] = act[d]
  BY <1>3, IInvParts, ClientMoves DEF Alone, Actors, Holding
<1>4. ASSUME NEW h \in Handlers, HandlerStep(h) PROVE \A d \in Clients : act'[d] = act[d]
  BY <1>4, IInvParts, HandlerMoves, ActorsAssumption DEF Alone, Actors
<1>5. OtherStep => UNCHANGED act
  BY OthersRest
<1> QED BY <1>2, <1>3, <1>4, <1>5, NextSteps

LEMMA PartsStep ==
    ASSUME IInv, Next
    PROVE  PartsSafe' /\ Held'
<1> SUFFICES ASSUME Live' PROVE PartsSafe' /\ Held'
  BY DEF PartsSafe, Held, Live
<1>0. TypedAct /\ TypedBlobs /\ TypedSession /\ \A c \in Clients : Has(c)
  BY IInvParts
<1>1. CASE session.status = "absent"
  <2>1. rows = {} /\ \A c \in Clients : act[c].pc \notin PutSteps
    BY <1>1 DEF IInv, Creating, PutSteps
  <2>2. ~\E c \in Clients : PutWrite(c) \/ PutInsert(c) \/ PutUndo(c)
    BY <2>1 DEF PutSteps, PutWrite, PutInsert, PutUndo
  <2>3. ASSUME NEW c \in Clients, RequestDies(c) PROVE rows' = {} /\ \A d \in Clients : ~Holding(d)'
    <3>1. act'[c] = Idle /\ Alone(c)
      BY <1>0, <2>3, EndsMoves DEF RequestDies, Actors, Arrives
    <3> QED BY <2>1, <2>3, <3>1 DEF RequestDies, Alone, Actors, Holding, PutSteps, Idle
  <2>4. rows' = {} /\ \A d \in Clients : ~Holding(d)'
    BY <2>1, <2>2, <2>3, LiveParts DEF Holding, PutSteps
  <2> QED BY <2>4 DEF PartsSafe, Held
<1>2. CASE session.status # "absent"
  <2>1. Live
    BY <1>2, StepAccounted DEF Accounted, StatusMoves, Live
  <2>2. /\ \A p \in rows : file[p] = "whole"
        /\ \A c \in Clients : Holding(c) =>
             /\ file[act[c].part] = "whole" /\ act[c].part \notin rows
             /\ \A d \in Clients : d # c /\ Holding(d) => act[d].part # act[c].part
    BY <2>1 DEF IInv, PartsSafe, Held, Live
  <2> DEFINE Safe == /\ \A p \in rows' : file'[p] = "whole"
                     /\ \A c \in Clients : Holding(c)' =>
                          /\ file'[act'[c].part] = "whole" /\ act'[c].part \notin rows'
                          /\ \A d \in Clients : d # c /\ Holding(d)' => act'[d].part # act'[c].part
  <2>3. ASSUME UNCHANGED <<rows, file>>, \A c \in Clients : Holding(c)' => act'[c] = act[c]
        PROVE  Safe
    <3>1. \A c \in Clients : Holding(c)' => Holding(c) /\ act'[c] = act[c]
      BY <2>3 DEF Holding
    <3>2. rows' = rows /\ file' = file
      BY <2>3
    <3>3. \A p \in rows' : file'[p] = "whole"
      BY <2>2, <3>2
    <3>4. ASSUME NEW c \in Clients, Holding(c)'
          PROVE  /\ file'[act'[c].part] = "whole" /\ act'[c].part \notin rows'
                 /\ \A d \in Clients : d # c /\ Holding(d)' => act'[d].part # act'[c].part
      <4>1. file'[act'[c].part] = "whole" /\ act'[c].part \notin rows'
        BY <2>2, <3>1, <3>2, <3>4
      <4>2. ASSUME NEW d \in Clients, d # c, Holding(d)' PROVE act'[d].part # act'[c].part
        BY <2>2, <3>1, <3>4, <4>2
      <4> QED BY <4>1, <4>2
    <3> QED BY <3>3, <3>4
  <2>4. ASSUME NEW c \in Clients, PutWrite(c) PROVE Safe
    <3> DEFINE p == act[c].part
    <3>0. p \in Parts /\ rows' = rows /\ ~Holding(c) /\ c \in Actors
      BY <1>0, <2>4 DEF PutWrite, Has, PutSteps, Holding, Actors
    <3>1. Alone(c) /\ (Holding(c)' => /\ act'[c].part = p /\ file[p] = "none"
                                       /\ file' = [file EXCEPT ![p] = "whole"])
      BY <1>0, <2>4, ClientMoves DEF ClientStep, Request, Holding, PutWrite, PutInsert
    <3>2. file' = file \/ (file[p] = "none" /\ \E f \in {"torn", "whole"} :
                                                file' = [file EXCEPT ![p] = f])
      BY <2>4 DEF PutWrite
    <3> HIDE DEF p
    <3>3. \A q \in Parts : file[q] = "whole" => file'[q] = "whole"
      BY <1>0, <3>0, <3>2 DEF TypedBlobs
    <3>4. \A d \in Clients : d # c /\ Holding(d)' => Holding(d) /\ act'[d] = act[d]
      BY <3>1 DEF Alone, Actors, Holding
    <3>5. \A d \in Clients : Holding(d) => act[d].part \in Parts
      BY <1>0 DEF Has, PutSteps, Holding
    <3>6. \A q \in rows' : file'[q] = "whole"
      BY <1>0, <2>2, <3>0, <3>3 DEF TypedBlobs
    <3>7. Holding(c)' => /\ file'[p] = "whole" /\ p \notin rows
                         /\ \A d \in Clients : d # c /\ Holding(d)' => act'[d].part # p
      BY <1>0, <2>2, <3>0, <3>1, <3>4 DEF TypedBlobs
    <3>8. ASSUME NEW d \in Clients, d # c, Holding(d)'
          PROVE  /\ file'[act'[d].part] = "whole" /\ act'[d].part \notin rows'
                 /\ \A e \in Clients : e # d /\ Holding(e)' => act'[e].part # act'[d].part
      <4>1. Holding(d) /\ act'[d] = act[d]
        BY <3>4, <3>8
      <4>2. file'[act'[d].part] = "whole" /\ act'[d].part \notin rows'
        BY <2>2, <3>0, <3>3, <3>5, <4>1
      <4>3. ASSUME NEW e \in Clients, e # d, Holding(e)' PROVE act'[e].part # act'[d].part
        <5>1. CASE e = c
          BY <3>1, <3>7, <3>8, <4>3, <5>1
        <5>2. CASE e # c
          <6>1. Holding(e) /\ act'[e] = act[e]
            BY <3>4, <4>3, <5>2
          <6> QED BY <2>2, <4>1, <4>3, <6>1
        <5> QED BY <5>1, <5>2
      <4> QED BY <4>2, <4>3
    <3>9. Holding(c)' => act'[c].part = p
      BY <3>1
    <3> QED BY <3>0, <3>6, <3>7, <3>8, <3>9
  <2>5. ASSUME NEW c \in Clients, PutInsert(c) PROVE Safe
    <3> DEFINE p == act[c].part
    <3>0. p \in Parts /\ file' = file /\ Holding(c)
      BY <1>0, <2>5 DEF PutInsert, Has, PutSteps, Holding
    <3>1. Alone(c) /\ (Holding(c)' => act'[c].part = p /\ rows' = rows)
      BY <1>0, <2>5, ClientMoves DEF ClientStep, Request, Holding, PutWrite, PutInsert
    <3>2. rows' = rows \/ rows' = rows \cup {p}
      BY <2>5 DEF PutInsert
    <3>3. file[p] = "whole" /\ \A d \in Clients : d # c /\ Holding(d) => act[d].part # p
      BY <2>2, <3>0
    <3>4. \A d \in Clients : d # c /\ Holding(d)' => Holding(d) /\ act'[d] = act[d]
      BY <3>1 DEF Alone, Actors, Holding
    <3> HIDE DEF p
    <3>5. \A q \in rows' : file'[q] = "whole"
      BY <2>2, <3>0, <3>2, <3>3
    <3>6. Holding(c)' => /\ file'[p] = "whole" /\ p \notin rows'
                         /\ \A d \in Clients : d # c /\ Holding(d)' => act'[d].part # p
      BY <2>2, <3>0, <3>1, <3>3, <3>4 DEF p
    <3>7. ASSUME NEW d \in Clients, d # c, Holding(d)'
          PROVE  /\ file'[act'[d].part] = "whole" /\ act'[d].part \notin rows'
                 /\ \A e \in Clients : e # d /\ Holding(e)' => act'[e].part # act'[d].part
      <4>1. Holding(d) /\ act'[d] = act[d]
        BY <3>4, <3>7
      <4>2. file'[act'[d].part] = "whole" /\ act'[d].part \notin rows'
        BY <2>2, <3>0, <3>2, <3>3, <3>7, <4>1
      <4>3. ASSUME NEW e \in Clients, e # d, Holding(e)' PROVE act'[e].part # act'[d].part
        <5>1. CASE e = c
          BY <3>1, <3>6, <3>7, <4>3, <5>1
        <5>2. CASE e # c
          <6>1. Holding(e) /\ act'[e] = act[e]
            BY <3>4, <4>3, <5>2
          <6> QED BY <2>2, <4>1, <4>3, <6>1
        <5> QED BY <5>1, <5>2
      <4> QED BY <4>2, <4>3
    <3>8. Holding(c)' => act'[c].part = p
      BY <3>1
    <3> QED BY <3>5, <3>6, <3>7, <3>8
  <2>6. ASSUME NEW c \in Clients, PutUndo(c) \/ RequestDies(c) PROVE Safe
    <3> DEFINE p == act[c].part
    <3>0. rows' = rows /\ ~Holding(c)' /\ Alone(c)
      BY <1>0, <2>6, EndsMoves DEF PutUndo, RequestDies, Actors, Arrives, Holding
    <3>1. file' = file \/ (/\ p \in Parts
                           /\ Holding(c) \/ file[p] = "none"
                           /\ \E f \in {"none", "torn"} : file' = [file EXCEPT ![p] = f])
      BY <1>0, <2>6 DEF PutUndo, RequestDies, Holding, Has, PutSteps
    <3>2. \A d \in Clients : Holding(d)' => d # c /\ Holding(d) /\ act'[d] = act[d]
      BY <3>0 DEF Alone, Actors, Holding
    <3>3. \A d \in Clients : Holding(d) => act[d].part \in Parts
      BY <1>0 DEF Has, PutSteps, Holding
    <3>4. file' # file => p \notin rows /\ \A d \in Clients : d # c /\ Holding(d) => act[d].part # p
      BY <2>2, <3>1
    <3> HIDE DEF p
    <3>5. \A q \in Parts : file'[q] = file[q] \/ (q = p /\ file' # file)
      BY <1>0, <3>1 DEF TypedBlobs
    <3>6. \A q \in rows' : file'[q] = "whole"
      BY <1>0, <2>2, <3>0, <3>4, <3>5 DEF TypedBlobs
    <3>7. ASSUME NEW d \in Clients, Holding(d)'
          PROVE  /\ file'[act'[d].part] = "whole" /\ act'[d].part \notin rows'
                 /\ \A e \in Clients : e # d /\ Holding(e)' => act'[e].part # act'[d].part
      <4>1. d # c /\ Holding(d) /\ act'[d] = act[d]
        BY <3>2, <3>7
      <4>2. file'[act'[d].part] = "whole" /\ act'[d].part \notin rows'
        BY <2>2, <3>0, <3>3, <3>4, <3>5, <4>1
      <4>3. \A e \in Clients : e # d /\ Holding(e)' => act'[e].part # act'[d].part
        BY <2>2, <3>2, <4>1
      <4> QED BY <4>2, <4>3
    <3> QED BY <3>6, <3>7
  <2> HIDE DEF Safe
  <2>8. Safe
    BY <2>3, <2>4, <2>5, <2>6, LiveParts
  <2> QED BY <2>8 DEF Safe, PartsSafe, Held
<1> QED BY <1>1, <1>2

-------------------------------------------------------------------------------
(* NoStray.                                                                 *)

(* Only the steps of putting a part move a request that holds one.          *)
LEMMA HoldersRest ==
    ASSUME TypedAct, TypedSession, \A c \in Clients : Has(c), Next,
           \A c \in Clients : ~PutInsert(c) /\ ~PutUndo(c) /\ ~RequestDies(c)
    PROVE  \A c \in Clients : Holding(c) => act'[c] = act[c]
<1>1. ASSUME NEW c \in Clients, ClientStep(c) PROVE Alone(c) /\ ~Holding(c)
  <2>1. Alone(c)
    BY <1>1, ClientMoves
  <2>2. ~Holding(c)
    BY <1>1 DEF ClientStep, Request, Owned, OwnedRead, OwnedCheck, OwnedExpire, Release, Create,
       InsertSession, Get, Put, Complete, PutLookup, PutWrite, CountParts, ClaimFinalizing, Holding
  <2> QED BY <2>1, <2>2
<1>2. ASSUME NEW h \in Handlers, HandlerStep(h) PROVE \A c \in Clients : act'[c] = act[c]
  BY <1>2, HandlerMoves, ActorsAssumption DEF Alone, Actors
<1>3. OtherStep => UNCHANGED act
  BY OthersRest
<1> QED BY <1>1, <1>2, <1>3, NextSteps DEF Alone, Actors

(* Whether a request holds part p after the step.                           *)
StillPutting(p) == \E c \in Clients : act'[c].part = p /\ act'[c].pc \in {"insert", "undo"}

LEMMA NoStrayStep ==
    ASSUME IInv, Next
    PROVE  NoStray'
<1> SUFFICES ASSUME faults' = 0 PROVE NoStray'
  BY DEF NoStray
<1>0. /\ TypedAct /\ TypedBlobs /\ TypedSession /\ TypedClean /\ faults = 0
      /\ \A c \in Clients : Has(c)
  BY IInvParts, FaultsFrame, BoundsAssumption DEF TypedFaults
<1> USE <1>0
<1>1. /\ \A p \in Parts : file[p] # "none" /\ clean.at # p => p \in rows \/ Putting(p)
      /\ clean.pc = "row" /\ file[clean.at] # "none" => Putting(clean.at)
  BY DEF IInv, NoStray
<1>2. CleanPlaced /\ None \notin Parts
  BY NoneAssumption DEF IInv
<1>3. ASSUME NEW f PROVE ~Faulty(f)
  BY DEF Faulty
<1> DEFINE Fine == /\ \A p \in Parts : file'[p] # "none" /\ clean'.at # p => p \in rows' \/ StillPutting(p)
                   /\ clean'.pc = "row" /\ file'[clean'.at] # "none" => StillPutting(clean'.at)
<1>4. SUFFICES Fine
  BY DEF NoStray, Putting, StillPutting
<1>5. ASSUME NEW c \in Clients, PutWrite(c) PROVE Fine
  <2> DEFINE p == act[c].part
  <2>1. p \in Parts /\ UNCHANGED <<rows, clean>> /\ c \in Actors
    BY <1>5 DEF PutWrite, Has, PutSteps, Actors
  <2>2. \/ UNCHANGED file /\ Alone(c)
        \/ Alone(c) /\ file' = [file EXCEPT ![p] = "whole"] /\ act'[c].pc = "insert" /\ act'[c].part = p
    BY <1>3, <1>5, <2>1, EndsMoves, GoToMoves DEF PutWrite, Arrives, Steps
  <2>3. \A q \in Parts : Putting(q) => StillPutting(q)
    BY <1>5, <2>2 DEF PutWrite, Putting, StillPutting, Alone, Actors
  <2>4. \A q \in Parts : file'[q] = file[q] \/ (q = p /\ StillPutting(p))
    BY <2>1, <2>2 DEF Putting, StillPutting, TypedBlobs
  <2> HIDE DEF p
  <2>5. clean.pc = "row" => clean.at \in Parts
    BY <1>2 DEF CleanPlaced
  <2> QED BY <1>1, <2>1, <2>3, <2>4, <2>5
<1>6. ASSUME NEW c \in Clients, PutInsert(c) PROVE Fine
  <2> DEFINE p == act[c].part
  <2>1. p \in Parts /\ UNCHANGED <<file, clean>> /\ c \in Actors
    BY <1>6 DEF PutInsert, Has, PutSteps, Actors
  <2>2. \/ rows' = rows \cup {p} /\ Alone(c) /\ session.status = "open"
        \/ rows' = rows /\ Alone(c) /\ act'[c].pc = "undo" /\ act'[c].part = p
    BY <1>3, <1>6, <2>1, BeginsMoves, GoToMoves DEF PutInsert, Gets, Arrives, Steps
  <2>3. \A q \in Parts : Putting(q) => StillPutting(q) \/ (q = p /\ rows' = rows \cup {p})
    BY <2>2 DEF Putting, StillPutting, Alone, Actors
  <2>4. rows \subseteq rows' /\ (rows' = rows \cup {p} => clean.pc # "row" \/ (rows' = rows /\ StillPutting(p)))
    BY <1>2, <2>2 DEF CleanPlaced, Settled, StillPutting
  <2>5. clean.pc = "row" => clean.at \in Parts
    BY <1>2 DEF CleanPlaced
  <2> HIDE DEF p
  <2> QED BY <1>1, <2>1, <2>3, <2>4, <2>5
<1>7. ASSUME NEW c \in Clients, PutUndo(c) PROVE Fine
  <2> DEFINE p == act[c].part
  <2>1. p \in Parts /\ UNCHANGED <<rows, clean>> /\ c \in Actors /\ file' = [file EXCEPT ![p] = "none"]
    BY <1>3, <1>7 DEF PutUndo, Has, PutSteps, Actors
  <2>2. Alone(c)
    BY <1>7, <2>1, EndsMoves DEF PutUndo, Arrives
  <2>3. \A q \in Parts : Putting(q) => StillPutting(q) \/ q = p
    BY <2>2 DEF Putting, StillPutting, Alone, Actors
  <2>4. \A q \in Parts : file'[q] = IF q = p THEN "none" ELSE file[q]
    BY <2>1 DEF TypedBlobs
  <2>5. clean.pc = "row" => clean.at \in Parts
    BY <1>2 DEF CleanPlaced
  <2> HIDE DEF p
  <2> QED BY <1>1, <2>1, <2>3, <2>4, <2>5
<1>8. ASSUME NEW c \in Clients, RequestDies(c) PROVE FALSE
  BY <1>3, <1>8 DEF RequestDies
<1>9. ASSUME NEW h \in Handlers, RemoveParts(h) PROVE Fine
  <2>1. (\A p \in Parts : file'[p] = "none") /\ UNCHANGED clean
    BY <1>3, <1>9 DEF RemoveParts
  <2> QED BY <1>2, <2>1 DEF CleanPlaced
<1>10. ASSUME Cleanup PROVE Fine
  <2>1. \A p \in Parts : Putting(p) => StillPutting(p)
    BY <1>10, OthersRest DEF OtherStep, Putting, StillPutting
  <2>2. ASSUME NEW p \in Parts, CleanFile(p) PROVE Fine
    <3>1. file' = [file EXCEPT ![p] = "none"] /\ clean' = [clean EXCEPT !.pc = "row", !.at = p]
          /\ clean.pc = "file" /\ UNCHANGED rows
      BY <1>3, <2>2 DEF CleanFile
    <3>2. clean.at = None /\ clean'.at = p
      BY <1>2, <3>1 DEF CleanPlaced, TypedClean
    <3> QED BY <1>1, <1>2, <2>1, <3>1, <3>2 DEF TypedBlobs
  <2>3. CASE CleanRow
    <3>1. /\ rows' = rows \ {clean.at} /\ UNCHANGED file /\ clean.pc = "row"
          /\ clean'.at = None /\ clean'.pc = "file"
      BY <2>3 DEF CleanRow
    <3> QED BY <1>1, <2>1, <3>1
  <2>4. CASE CleanClaim \/ CleanEnds
    <3>1. UNCHANGED blobs /\ clean.pc # "row" /\ clean'.pc # "row"
      BY <1>3, <2>4 DEF CleanClaim, CleanEnds, NoClean
    <3> QED BY <1>1, <1>2, <2>1, <3>1 DEF blobs, CleanPlaced
  <2> QED BY <1>10, <2>2, <2>3, <2>4 DEF Cleanup
<1>11. ASSUME \A c \in Clients : ~PutInsert(c) /\ ~PutUndo(c), UNCHANGED blobs, UNCHANGED clean
       PROVE  Fine
  <2>1. \A c \in Clients : Holding(c) => act'[c] = act[c]
    BY <1>8, <1>11, HoldersRest
  <2>2. \A p \in Parts : Putting(p) => StillPutting(p)
    BY <2>1 DEF Putting, StillPutting, Holding
  <2> QED BY <1>1, <1>2, <1>11, <2>2 DEF blobs, CleanPlaced
<1> HIDE DEF Fine
<1> QED BY <1>5, <1>6, <1>7, <1>8, <1>9, <1>10, <1>11, Frames DEF BlobStep, Cleanup

-------------------------------------------------------------------------------
(* The properties.                                                          *)

LEMMA IInvStep == IInv /\ [Next]_vars => IInv'
<1> SUFFICES ASSUME IInv, [Next]_vars PROVE IInv'
  OBVIOUS
<1>1. CASE Next
  <2>1. TypeOK'
    BY <1>1, IInvParts, TypeStep DEF IInv
  <2>2. ReservationFollows' /\ VersionsFollow'
    BY <1>1, StepAccounted DEF Accounted
  <2> QED BY <1>1, <2>1, <2>2, NotRequestedStep, CreatingStep, PlacedStep, CleanPlacedStep,
             PartsStep, NoStrayStep DEF IInv
<1>2. CASE UNCHANGED vars
  BY <1>2 DEF vars, IInv, TypeOK, NotRequested, Creating, Placed, CleanPlaced, VersionsFollow,
     ReservationFollows, PartsSafe, Held, NoStray, Live, Settled, Has, Holding, Putting
<1> QED BY <1>1, <1>2

THEOREM Inductive == Spec => []IInv
BY IInvInit, IInvStep, PTL DEF Spec

(* Every variable keeps to its type: the requests, handlers and the cleanup *)
(* of any session.                                                          *)
THEOREM TypeCorrect == Spec => []TypeOK
<1>1. IInv => TypeOK
  BY DEF IInv
<1> QED BY <1>1, Inductive, PTL

(* However often the finalization is delivered, interrupted or overtaken,   *)
(* persistUploadedResource creates one version, and none after a failure.   *)
THEOREM OneVersionHolds == Spec => []OneVersion
<1>1. IInv => OneVersion
  BY DEF IInv, VersionsFollow, OneVersion
<1> QED BY <1>1, Inductive, PTL

(* A part a live session has recorded is on disk, whatever requests, the    *)
(* finalization and the cleanup do.                                         *)
THEOREM PartsHold == Spec => []PartsSafe
<1>1. IInv => PartsSafe
  BY DEF IInv
<1> QED BY <1>1, Inductive, PTL

(* The reservation is there while the session is live and gone when it has  *)
(* settled, on every path out of every operation.                           *)
THEOREM ReservationHolds == Spec => []ReservationFollows
<1>1. IInv => ReservationFollows
  BY DEF IInv
<1> QED BY <1>1, Inductive, PTL

(* Without faults a write that loses a race takes its file back.            *)
THEOREM NoStrayHolds == Spec => []NoStrayFile
<1>1. IInv => NoStrayFile
  BY DEF IInv, NoStray, NoStrayFile, StrayFile
<1> QED BY <1>1, Inductive, PTL

(* The disk and the part rows agree, whatever interleaves.                  *)
THEOREM PartsOnDiskHold == Spec => []PartsOnDisk
<1>1. PartsSafe /\ NoStrayFile => PartsOnDisk
  BY DEF PartsOnDisk
<1> QED BY <1>1, PartsHold, NoStrayHolds, PTL

(* A settled session stays settled: nothing reopens it and a late failure   *)
(* does not overwrite it.                                                   *)
THEOREM SettledHolds == Spec => SettledStays
<1>1. IInv /\ [Next]_vars =>
        [session.status \in {"completed", "failed", "expired"}
           => session'.status \in {session.status, "expired"}]_vars
  BY StepAccounted DEF Accounted, StatusMoves
<1> QED BY <1>1, Inductive, PTL DEF Spec, SettledStays
===============================================================================
