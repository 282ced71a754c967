------------------------------ MODULE Agents_proofs ------------------------------
(***************************************************************************)
(* Proofs about AgentSessions, for any number of spaces, contexts, turns,  *)
(* binding requests and faults, and about the adapters behind the ports    *)
(* (Ports), for any number of scripts' events, jobs, rows, learners and    *)
(* tests.                                                                  *)
(*                                                                         *)
(* The invariant of AgentSessions adds to OneTurnRuns what the steps rely  *)
(* on: a turn that has not begun has no run, and the run of a turn that is *)
(* about to store its answer is running, because a stop request waits for  *)
(* the rows that turn has locked.                                          *)
(*                                                                         *)
(* The invariant of Ports has one part for every port.  The queues add to  *)
(* their properties that of the jobs of a key all but the last have been   *)
(* given up, an adapter of the session repository that every event         *)
(* belongs to a run that is there, the learning component nothing but its  *)
(* types, and the assessment component that what is graded was submitted,  *)
(* complete, to a published test.                                          *)
(***************************************************************************)
EXTENDS AgentSessions, Ports, SequenceTheorems, FiniteSetTheorems, TLAPS

Fields == {"status", "events", "answered"}

RunsShaped ==
    /\ run = [t \in Turns |-> run[t]]
    /\ \A t \in Turns : /\ run[t] = [f \in Fields |-> run[t][f]]
                        /\ run[t].answered \in BOOLEAN

PlacesShaped == pc \in [Turns -> Place]

NotBegun == \A t \in Turns : pc[t] \in {"idle", "resolved"} => run[t].status = "none"

UnderLock == \A t \in Turns : pc[t] = "committing" => Running(t)

IInv == RunsShaped /\ PlacesShaped /\ NotBegun /\ UnderLock /\ OneTurnRuns

-------------------------------------------------------------------------------
LEMMA InitIInv == Init => IInv
<1> SUFFICES ASSUME Init PROVE IInv
  OBVIOUS
<1>1. \A t \in Turns : run[t] = NoRun /\ pc[t] = "idle"
  BY DEF Init
<1>2. RunsShaped
  <2>1. run = [t \in Turns |-> run[t]]
    BY DEF Init
  <2>2. NoRun = [f \in Fields |-> NoRun[f]] /\ NoRun.answered = FALSE
    BY DEF NoRun, Fields
  <2> QED BY <1>1, <2>1, <2>2 DEF RunsShaped
<1>3. PlacesShaped
  BY DEF Init, PlacesShaped, Place
<1>4. NotBegun /\ UnderLock /\ OneTurnRuns
  BY <1>1 DEF NotBegun, UnderLock, OneTurnRuns, NoRun, Running
<1> QED BY <1>2, <1>3, <1>4 DEF IInv

\* Steps that leave the runs and the places alone.
LEMMA Elsewhere ==
    ASSUME IInv, UNCHANGED <<run, pc>>
    PROVE  IInv'
BY DEF IInv, RunsShaped, PlacesShaped, NotBegun, UnderLock, OneTurnRuns, Running

\* Steps that move a turn without touching its run: not back before it has
\* begun, not out of sight of a running turn, and into the commit only with it.
LEMMA Moves ==
    ASSUME IInv, UNCHANGED run, NEW t \in Turns, NEW place \in Place, Goto(t, place),
           place \in {"idle", "resolved"} => run[t].status = "none",
           place = "committing" => Running(t),
           Running(t) => place \in Alive \cup {"lost"}
    PROVE  IInv'
<1>1. \A u \in Turns : pc'[u] = IF u = t THEN place ELSE pc[u]
  BY DEF Goto, IInv, PlacesShaped
<1>2. PlacesShaped'
  BY DEF Goto, IInv, PlacesShaped
<1>3. RunsShaped'
  BY DEF IInv, RunsShaped
<1>4. NotBegun' /\ UnderLock'
  BY <1>1 DEF IInv, NotBegun, UnderLock, Running
<1>5. OneTurnRuns'
  BY <1>1 DEF IInv, OneTurnRuns, Running
<1> QED BY <1>2, <1>3, <1>4, <1>5 DEF IInv

\* Settling a run: nothing but its status and events change, and only if it runs.
LEMMA SettledRun ==
    ASSUME IInv, NEW t \in Turns, NEW status, run' = Settled(t, status)
    PROVE  /\ RunsShaped'
           /\ \A u \in Turns \ {t} : run'[u] = run[u]
           /\ run'[t].answered = run[t].answered
           /\ IF Running(t) THEN run'[t].status = status ELSE run'[t] = run[t]
BY DEF IInv, RunsShaped, Settled, Fields

-------------------------------------------------------------------------------
\* The steps of a turn that leave the runs alone, and those of the others.
LEMMA UntouchedByTurn ==
    ASSUME NEW t \in Turns,
           \/ Resolve(t) \/ OpenStream(t) \/ Answer(t) \/ Fail(t) \/ Cancel(t) \/ CompleteCheck(t)
           \/ RoutingFails(t) \/ SettleFails(t) \/ Stop(t)
    PROVE  UNCHANGED run
BY DEF Resolve, OpenStream, Answer, Fail, Cancel, CompleteCheck, RoutingFails, SettleFails, Stop, rows

LEMMA UntouchedElsewhere ==
    ASSUME \/ \E o \in Binders, cs \in SUBSET Contexts : CreateCheck(o, cs)
           \/ \E o \in Binders, c \in Contexts : AddCheck(o, c)
           \/ \E o \in Binders : InsertBindings(o)
           \/ \E b \in Bound : RemoveBinding(b)
           \/ \E s \in Spaces : Grant(s) \/ Revoke(s) \/ Vanish(s)
           \/ UpdateSession \/ Crash \/ UNCHANGED vars
    PROVE  UNCHANGED run
BY DEF CreateCheck, AddCheck, InsertBindings, RemoveBinding, Grant, Revoke, Vanish, UpdateSession, Crash,
       vars, rows

LEMMA HandleIInv == ASSUME IInv, NEW t \in Turns, Handle(t) PROVE IInv'
<1>0. pc[t] \in Place
  BY DEF IInv, PlacesShaped
<1>1. CASE Resolve(t)
  <2>1. Goto(t, "refused") \/ Goto(t, "resolved")
    BY <1>1 DEF Resolve
  <2>2. UNCHANGED run /\ run[t].status = "none"
    BY <1>1 DEF Resolve, rows, IInv, NotBegun
  <2> QED BY <2>1, <2>2, Moves DEF Place, Alive, Running
<1>2. CASE BeginRun(t)
  <2>1. CASE Goto(t, "refused") /\ UNCHANGED run
    <3>1. run[t].status = "none"
      BY <1>2 DEF BeginRun, IInv, NotBegun
    <3> QED BY <2>1, <3>1, Moves DEF Place, Alive, Running
  <2>2. CASE /\ \A u \in Turns : ~Running(u)
             /\ Goto(t, "begun")
             /\ run' = [run EXCEPT ![t] = [status |-> "running", answered |-> FALSE,
                                           events |-> <<"run.started">>]]
    <3>1. \A u \in Turns : pc'[u] = IF u = t THEN "begun" ELSE pc[u]
      BY <2>2 DEF Goto, IInv, PlacesShaped
    <3>2. /\ \A u \in Turns \ {t} : run'[u] = run[u]
          /\ run'[t].status = "running" /\ run'[t].answered = FALSE
          /\ run' = [u \in Turns |-> run'[u]]
          /\ run'[t] = [f \in Fields |-> run'[t][f]]
      BY <2>2 DEF IInv, RunsShaped, Fields
    <3>3. RunsShaped'
      BY <3>2 DEF IInv, RunsShaped
    <3>4. PlacesShaped'
      BY <2>2 DEF Goto, IInv, PlacesShaped, Place, Alive
    <3>5. NotBegun' /\ UnderLock'
      BY <3>1, <3>2 DEF IInv, NotBegun, UnderLock, Running
    <3>6. OneTurnRuns'
      BY <2>2, <3>1, <3>2 DEF IInv, OneTurnRuns, Running, Alive
    <3> QED BY <3>3, <3>4, <3>5, <3>6 DEF IInv
  <2> QED BY <1>2, <2>1, <2>2 DEF BeginRun, Leave
<1>3. CASE OpenStream(t) \/ Answer(t) \/ Fail(t) \/ Cancel(t)
  <2>1. UNCHANGED run
    BY <1>3 DEF OpenStream, Answer, Fail, Cancel, rows
  <2>2. \E place \in {"working", "completing", "failing", "cancelling"} : Goto(t, place)
    BY <1>3 DEF OpenStream, Answer, Fail, Cancel
  <2> QED BY <2>1, <2>2, Moves DEF Place, Alive
<1>4. CASE CompleteCheck(t)
  <2>1. UNCHANGED run
    BY <1>4 DEF CompleteCheck, rows
  <2>2. (Running(t) /\ Goto(t, "committing")) \/ Goto(t, "failing")
    BY <1>4 DEF CompleteCheck
  <2> QED BY <2>1, <2>2, Moves DEF Place, Alive
<1>5. CASE CompleteCommit(t)
  <2>1. CASE Goto(t, "failing") /\ UNCHANGED run
    BY <2>1, Moves DEF Place, Alive
  <2>2. CASE /\ run' = [run EXCEPT ![t] = Answered(run[t].events)]
             /\ \E place \in {"done", "failing"} : Goto(t, place)
    <3>1. PICK place \in {"done", "failing"} : Goto(t, place)
      BY <2>2
    <3>2. \A u \in Turns : pc'[u] = IF u = t THEN place ELSE pc[u]
      BY <3>1 DEF IInv, PlacesShaped, Goto
    <3>3. /\ \A u \in Turns \ {t} : run'[u] = run[u]
          /\ run'[t].status = "completed" /\ run'[t].answered = TRUE
          /\ run' = [u \in Turns |-> run'[u]]
          /\ run'[t] = [f \in Fields |-> run'[t][f]]
      BY <2>2 DEF IInv, RunsShaped, Fields, Answered
    <3>4. RunsShaped'
      BY <3>3 DEF IInv, RunsShaped
    <3>5. PlacesShaped'
      BY <3>1 DEF Goto, IInv, PlacesShaped, Place, Alive
    <3>6. NotBegun' /\ UnderLock'
      BY <3>2, <3>3 DEF IInv, NotBegun, UnderLock, Running
    <3>7. OneTurnRuns'
      BY <3>2, <3>3 DEF IInv, OneTurnRuns, Running
    <3> QED BY <3>4, <3>5, <3>6, <3>7 DEF IInv
  <2> QED BY <1>5, <2>1, <2>2 DEF CompleteCommit, Leave
<1>6. CASE Settle(t)
  <2>1. PICK status \in {"failed", "stopped"} : run' = Settled(t, status)
    BY <1>6 DEF Settle
  <2>2. \A u \in Turns : pc'[u] = IF u = t THEN "done" ELSE pc[u]
    BY <1>6 DEF Settle, Leave, Goto, IInv, PlacesShaped
  <2>3. PlacesShaped'
    BY <1>6 DEF Settle, Leave, Goto, IInv, PlacesShaped, Place
  <2>4. NotBegun' /\ UnderLock'
    BY <2>1, <2>2, SettledRun DEF IInv, NotBegun, UnderLock, Running
  <2>5. OneTurnRuns'
    BY <2>1, <2>2, SettledRun DEF IInv, OneTurnRuns, Running
  <2> QED BY <2>1, <2>3, <2>4, <2>5, SettledRun DEF IInv
<1> QED BY <1>1, <1>2, <1>3, <1>4, <1>5, <1>6 DEF Handle

\* A stop request settles a run that no turn is about to complete.
LEMMA StopIInv == ASSUME IInv, NEW t \in Turns, StopSettle(t) PROVE IInv'
<1>1. run' = Settled(t, "stopped") /\ UNCHANGED pc /\ \A u \in Turns : pc[u] # "committing"
  BY DEF StopSettle, SessionLocked
<1>2. NotBegun' /\ UnderLock' /\ PlacesShaped'
  BY <1>1, SettledRun DEF IInv, NotBegun, UnderLock, Running, PlacesShaped
<1>3. OneTurnRuns'
  BY <1>1, SettledRun DEF IInv, OneTurnRuns, Running
<1> QED BY <1>1, <1>2, <1>3, SettledRun DEF IInv

LEMMA CrashIInv == ASSUME IInv, Crash PROVE IInv'
<1>1. UNCHANGED run /\ \A t \in Turns : pc'[t] = IF pc[t] \in Alive THEN "lost" ELSE pc[t]
  BY DEF Crash, rows
<1>2. PlacesShaped'
  BY DEF Crash, IInv, PlacesShaped, Place
<1>3. RunsShaped' /\ NotBegun'
  BY <1>1 DEF IInv, RunsShaped, NotBegun, Alive
<1>4. UnderLock'
  BY <1>1 DEF UnderLock, Alive
<1>5. OneTurnRuns'
  BY <1>1 DEF IInv, OneTurnRuns, Running
<1> QED BY <1>2, <1>3, <1>4, <1>5 DEF IInv

LEMMA NextIInv == IInv /\ [Next]_vars => IInv'
<1> SUFFICES ASSUME IInv, [Next]_vars PROVE IInv'
  OBVIOUS
<1>1. CASE UNCHANGED vars
  BY <1>1, Elsewhere DEF vars, rows
<1>2. ASSUME NEW o \in Binders, NEW cs, CreateCheck(o, cs) PROVE IInv'
  BY <1>2, Elsewhere DEF CreateCheck, rows
<1>3. ASSUME NEW o \in Binders, NEW c, AddCheck(o, c) PROVE IInv'
  BY <1>3, Elsewhere DEF AddCheck, rows
<1>4. ASSUME NEW o \in Binders, InsertBindings(o) PROVE IInv'
  BY <1>4, Elsewhere DEF InsertBindings, rows
<1>5. ASSUME NEW b \in Bound, RemoveBinding(b) PROVE IInv'
  BY <1>5, Elsewhere DEF RemoveBinding
<1>6. CASE UpdateSession
  BY <1>6, Elsewhere DEF UpdateSession
<1>7. ASSUME NEW t \in Turns, RoutingFails(t) \/ SettleFails(t) PROVE IInv'
  <2>1. UNCHANGED run /\ Goto(t, "lost")
    BY <1>7 DEF RoutingFails, SettleFails, Leave, rows
  <2> QED BY <2>1, Moves DEF Place, Alive
<1>8. ASSUME NEW t \in Turns, Stop(t) PROVE IInv'
  BY <1>8, Elsewhere DEF Stop, rows
<1>9. ASSUME NEW s \in Spaces, Grant(s) \/ Revoke(s) \/ Vanish(s) PROVE IInv'
  BY <1>9, Elsewhere DEF Grant, Revoke, Vanish, rows
<1> QED
  BY <1>1, <1>2, <1>3, <1>4, <1>5, <1>6, <1>7, <1>8, <1>9, HandleIInv, StopIInv, CrashIInv DEF Next

LEMMA Inductive == Spec => []IInv
BY InitIInv, NextIInv, PTL DEF Spec

\* At most one turn of a session runs, a running turn has a handler at work or lost
\* one, and an answer is stored exactly for a completed run, whatever completion,
\* failure, stop requests, disconnects, revocations and crashes do to each other.
THEOREM OneTurnRunsHolds == Spec => []OneTurnRuns
BY Inductive, PTL DEF IInv

-------------------------------------------------------------------------------
\* What a sequence of events tells of a run with this status.
Tells(events, status) ==
    /\ events \in Seq(Event) /\ Len(events) > 0 /\ events[1] = "run.started"
    /\ \A i \in 1..Len(events) : events[i] \in Terminal <=> status # "running" /\ i = Len(events)
    /\ status # "running" => events[Len(events)] = Ending[status]

AllTell == \A t \in Turns : run[t].status # "none" => Tells(run[t].events, run[t].status)

LEMMA BegunTells == Tells(<<"run.started">>, "running")
BY DEF Tells, Event, Terminal

\* A run that is settled gets the event of its status, which is its only terminal one.
LEMMA EndedTells ==
    ASSUME NEW events, Tells(events, "running"), NEW status \in {"completed", "failed", "stopped"}
    PROVE  Tells(Append(events, Ending[status]), status)
<1>1. events \in Seq(Event) /\ Len(events) \in Nat /\ Len(events) > 0
  BY DEF Tells
<1>2. Ending[status] \in Terminal /\ Ending[status] \in Event
  BY DEF Ending, Terminal, Event
<1>3. /\ Append(events, Ending[status]) \in Seq(Event)
      /\ Len(Append(events, Ending[status])) = Len(events) + 1
      /\ Append(events, Ending[status])[Len(events) + 1] = Ending[status]
      /\ \A i \in 1..Len(events) : Append(events, Ending[status])[i] = events[i]
  BY <1>1, <1>2
<1>4. \A i \in 1..Len(events) : events[i] \notin Terminal
  BY DEF Tells
<1> QED BY <1>1, <1>2, <1>3, <1>4 DEF Tells

LEMMA UsedTells ==
    ASSUME NEW events, Tells(events, "running"), NEW e \in {"tool.requested", "tool.completed"}
    PROVE  Tells(Append(events, e), "running")
<1>1. events \in Seq(Event) /\ Len(events) \in Nat /\ Len(events) > 0
  BY DEF Tells
<1>2. e \in Event /\ e \notin Terminal
  BY DEF Event, Terminal
<1>3. /\ Append(events, e) \in Seq(Event)
      /\ Len(Append(events, e)) = Len(events) + 1
      /\ Append(events, e)[Len(events) + 1] = e
      /\ \A i \in 1..Len(events) : Append(events, e)[i] = events[i]
  BY <1>1, <1>2
<1> QED BY <1>1, <1>2, <1>3 DEF Tells

LEMMA AnsweredTells ==
    ASSUME NEW events, Tells(events, "running")
    PROVE  Tells(Answered(events).events, "completed")
<1>1. events \in Seq(Event)
  BY DEF Tells
<1>2. Answered(events).events
        = Append(Append(Append(events, "tool.requested"), "tool.completed"), "run.completed")
  BY <1>1 DEF Answered, Event
<1>3. Tells(Append(Append(events, "tool.requested"), "tool.completed"), "running")
  BY UsedTells
<1>4. Ending["completed"] = "run.completed"
  BY DEF Ending
<1> QED BY <1>2, <1>3, <1>4, EndedTells

LEMMA SettledTells ==
    ASSUME IInv, AllTell, NEW t \in Turns, NEW status \in {"failed", "stopped"}, run' = Settled(t, status)
    PROVE  AllTell'
<1>1. CASE Running(t)
  <2>1. /\ \A u \in Turns \ {t} : run'[u] = run[u]
        /\ run'[t].status = status /\ run'[t].events = Append(run[t].events, Ending[status])
    BY <1>1 DEF IInv, RunsShaped, Settled, Fields
  <2>2. Tells(run'[t].events, run'[t].status)
    BY <1>1, <2>1, EndedTells DEF AllTell, Running
  <2> QED BY <2>1, <2>2 DEF AllTell
<1>2. CASE ~Running(t)
  BY <1>2 DEF Settled, AllTell
<1> QED BY <1>1, <1>2

LEMMA NextAllTell == ASSUME IInv, AllTell, [Next]_vars PROVE AllTell'
<1>1. ASSUME UNCHANGED run PROVE AllTell'
  BY <1>1 DEF AllTell
<1>2. ASSUME NEW t \in Turns, BeginRun(t) PROVE AllTell'
  <2>1. CASE run' = [run EXCEPT ![t] = [status |-> "running", answered |-> FALSE,
                                        events |-> <<"run.started">>]]
    <3>1. /\ \A u \in Turns \ {t} : run'[u] = run[u]
          /\ run'[t].status = "running" /\ run'[t].events = <<"run.started">>
      BY <2>1 DEF IInv, RunsShaped
    <3> QED BY <3>1, BegunTells DEF AllTell
  <2> QED BY <1>1, <1>2, <2>1 DEF BeginRun
<1>3. ASSUME NEW t \in Turns, CompleteCommit(t) PROVE AllTell'
  <2>1. CASE run' = [run EXCEPT ![t] = Answered(run[t].events)]
    <3>1. /\ \A u \in Turns \ {t} : run'[u] = run[u]
          /\ run'[t] = Answered(run[t].events)
      BY <2>1 DEF IInv, RunsShaped
    <3>2. run'[t].status = "completed"
      BY <3>1 DEF Answered
    <3>3. Tells(run[t].events, "running")
      BY <1>3 DEF CompleteCommit, AllTell, IInv, UnderLock, Running
    <3> QED BY <3>1, <3>2, <3>3, AnsweredTells DEF AllTell
  <2> QED BY <1>1, <1>3, <2>1 DEF CompleteCommit
<1>4. ASSUME NEW t \in Turns, Settle(t) \/ StopSettle(t) PROVE AllTell'
  <2>1. \E status \in {"failed", "stopped"} : run' = Settled(t, status)
    BY <1>4 DEF Settle, StopSettle
  <2> QED BY <2>1, SettledTells
<1>5. ASSUME NEW t \in Turns,
             \/ Resolve(t) \/ OpenStream(t) \/ Answer(t) \/ Fail(t) \/ Cancel(t) \/ CompleteCheck(t)
             \/ RoutingFails(t) \/ SettleFails(t) \/ Stop(t)
      PROVE  UNCHANGED run
  BY <1>5, UntouchedByTurn
<1> QED
  BY <1>1, <1>2, <1>3, <1>4, <1>5, UntouchedElsewhere DEF Next, Handle

\* A run is settled once, and its events say so: they begin with run.started and end
\* with the one terminal event of the status, whichever of completion, failure, stop
\* request, disconnect and crash came first, for any number of turns.
THEOREM RunsConsistentHolds == Spec => []RunsConsistent
<1>1. Init => AllTell
  BY DEF Init, AllTell, NoRun
<1>2. IInv /\ AllTell /\ [Next]_vars => AllTell'
  BY NextAllTell
<1>3. IInv /\ AllTell => RunsConsistent
  BY DEF IInv, AllTell, Tells, RunsConsistent, EventsTell, Running
<1> QED BY <1>1, <1>2, <1>3, Inductive, PTL DEF Spec

\* A turn completes only while the member may read every space its scope had when it
\* was resolved, for any number of turns, bindings and revocations in between.
THEOREM AnswerUnderGrantHolds == Spec => AnswerUnderGrant
<1> DEFINE Goal == \A t \in Turns : run[t].answered # run'[t].answered => SpacesOf(scope[t]) \subseteq granted
<1>1. ASSUME IInv, [Next]_vars PROVE Goal
  <2>1. ASSUME UNCHANGED run PROVE Goal
    BY <2>1
  <2>2. ASSUME NEW t \in Turns, BeginRun(t) PROVE Goal
    <3>1. run[t].answered = FALSE
      BY <1>1, <2>2 DEF BeginRun, IInv, NotBegun, OneTurnRuns, RunsShaped
    <3>2. CASE UNCHANGED run
      BY <3>2
    <3>3. CASE run' = [run EXCEPT ![t] = [status |-> "running", answered |-> FALSE,
                                          events |-> <<"run.started">>]]
      <4>1. \A u \in Turns : run'[u].answered = run[u].answered
        BY <1>1, <3>1, <3>3 DEF IInv, RunsShaped
      <4> QED BY <4>1
    <3> QED BY <2>2, <3>2, <3>3 DEF BeginRun
  <2>3. ASSUME NEW t \in Turns, CompleteCommit(t) PROVE Goal
    <3>1. CASE UNCHANGED run
      BY <3>1
    <3>2. CASE SpacesOf(seen[t]) \subseteq granted /\ scope[t] \subseteq seen[t]
               /\ run' = [run EXCEPT ![t] = Answered(run[t].events)]
      <4>1. SpacesOf(scope[t]) \subseteq granted
        BY <3>2 DEF SpacesOf
      <4>2. \A u \in Turns \ {t} : run'[u] = run[u]
        BY <1>1, <3>2 DEF IInv, RunsShaped
      <4> QED BY <4>1, <4>2
    <3> QED BY <2>3, <3>1, <3>2 DEF CompleteCommit
  <2>4. ASSUME NEW t \in Turns, Settle(t) \/ StopSettle(t) PROVE Goal
    <3>1. \E status : run' = Settled(t, status)
      BY <2>4 DEF Settle, StopSettle
    <3> QED BY <1>1, <3>1, SettledRun
  <2>5. ASSUME NEW t \in Turns,
               \/ Resolve(t) \/ OpenStream(t) \/ Answer(t) \/ Fail(t) \/ Cancel(t) \/ CompleteCheck(t)
               \/ RoutingFails(t) \/ SettleFails(t) \/ Stop(t)
        PROVE  UNCHANGED run
    BY <2>5, UntouchedByTurn
  <2> HIDE DEF Goal
  <2> QED
    BY <1>1, <2>1, <2>2, <2>3, <2>4, <2>5, UntouchedElsewhere DEF Next, Handle
<1> QED BY <1>1, Inductive, PTL DEF Spec, AnswerUnderGrant

(* The server's queue and the in-memory one share what a statement does.      *)
LEMMA SameStatements ==
    /\ B!Statement <=> M!Statement
    /\ \A j : B!Done(j) = M!Done(j) /\ B!Again(j) = M!Again(j)
    /\ \A q, k, l : B!Queued(q, k, l) = M!Queued(q, k, l)
<1>1. B!Statement <=> M!Statement
  BY DEF M!Statement, B!Statement, M!Claim, B!Claim, M!Cancel, B!Cancel, M!Lapse, B!Lapse,
         M!RecoverExpiredLeases, B!RecoverExpiredLeases, M!Waiting, B!Waiting, M!Claimed, B!Claimed,
         M!Lapsed, B!Lapsed, M!Again, B!Again
<1>2. \A j : B!Done(j) = M!Done(j) /\ B!Again(j) = M!Again(j)
  BY DEF M!Done, B!Done, M!Again, B!Again
<1>3. \A q, k, l : B!Queued(q, k, l) = M!Queued(q, k, l)
  BY DEF M!Queued, B!Queued
<1> QED BY <1>1, <1>2, <1>3

-------------------------------------------------------------------------------
(* A record in its bounds, and what the calls make of it.                    *)
Bounded(j) ==
    /\ j.attempts <= j.limit
    /\ j.state = "queued" => j.attempts < j.limit
    /\ j.state = "failed" => j.attempts = j.limit
    /\ j.state = "active" <=> j.lease # "none"

Sound(j) == j \in M!Job /\ Bounded(j)

LEMMA RecordsSound ==
    /\ \A q \in Queues, k \in JobKeys \cup {Nothing}, l \in Limits : Sound(M!Queued(q, k, l))
    /\ \A j : Sound(j) =>
         /\ Sound(M!Done(j)) /\ Sound(M!Again(j))
         /\ j.state = "queued" => Sound(M!Claimed(j)) /\ Sound([j EXCEPT !.state = "cancelled"])
         /\ j.lease = "live" => Sound([j EXCEPT !.lease = "lapsed"])
<1>1. \A l \in Limits : l \in Nat /\ 0 < l
  BY QueueAssumption
<1>2. ASSUME NEW q \in Queues, NEW k \in JobKeys \cup {Nothing}, NEW l \in Limits
      PROVE  Sound(M!Queued(q, k, l))
  BY <1>1 DEF Sound, Bounded, M!Queued, M!Job, M!States
<1>3. ASSUME NEW j, Sound(j)
      PROVE  /\ Sound(M!Done(j)) /\ Sound(M!Again(j))
             /\ j.state = "queued" => Sound(M!Claimed(j)) /\ Sound([j EXCEPT !.state = "cancelled"])
             /\ j.lease = "live" => Sound([j EXCEPT !.lease = "lapsed"])
  <2>0. j.attempts \in Nat /\ j.limit \in Nat
    <3>1. j.attempts \in Nat /\ j.limit \in Limits
      BY <1>3 DEF Sound, M!Job
    <3> QED BY <1>1, <3>1
  <2>1. Sound(M!Done(j))
    BY <1>3, <2>0 DEF Sound, Bounded, M!Done, M!Job, M!States
  <2>2. Sound(M!Again(j))
    <3>1. ASSUME NEW st \in {"failed", "queued"}, NEW r, r = [j EXCEPT !.state = st, !.lease = "none"]
          PROVE  /\ r \in M!Job /\ r.state = st /\ r.lease = "none"
                 /\ r.attempts = j.attempts /\ r.limit = j.limit
      <4>1. j \in M!Job /\ st \in M!States
        BY <1>3 DEF Sound, M!States
      <4> QED BY <3>1, <4>1 DEF M!Job
    <3>2. CASE j.attempts >= j.limit
      <4>1. M!Again(j) = [j EXCEPT !.state = "failed", !.lease = "none"]
        BY <3>2 DEF M!Again
      <4> QED BY <1>3, <2>0, <3>1, <3>2, <4>1 DEF Sound, Bounded
    <3>3. CASE ~(j.attempts >= j.limit)
      <4>1. M!Again(j) = [j EXCEPT !.state = "queued", !.lease = "none"]
        BY <3>3 DEF M!Again
      <4> QED BY <1>3, <2>0, <3>1, <3>3, <4>1 DEF Sound, Bounded
    <3> QED BY <3>2, <3>3
  <2>3. ASSUME j.state = "queued" PROVE Sound(M!Claimed(j))
    <3>1. j.attempts + 1 \in Nat /\ j.attempts + 1 <= j.limit
      BY <1>3, <2>0, <2>3 DEF Sound, Bounded
    <3> DEFINE n == j.attempts + 1
    <3>2. M!Claimed(j) = [j EXCEPT !.state = "active", !.attempts = n, !.lease = "live"]
      BY <1>3 DEF M!Claimed, Sound, M!Job
    <3> HIDE DEF n
    <3>3. M!Claimed(j) \in M!Job
      BY <1>3, <3>1, <3>2 DEF Sound, M!Job, M!States, n
    <3>4. M!Claimed(j).state = "active" /\ M!Claimed(j).attempts = n /\ M!Claimed(j).lease = "live"
          /\ M!Claimed(j).limit = j.limit
      BY <1>3, <3>2 DEF Sound, M!Job
    <3> QED BY <3>1, <3>3, <3>4 DEF Sound, Bounded, n
  <2>4. ASSUME j.state = "queued" PROVE Sound([j EXCEPT !.state = "cancelled"])
    BY <1>3, <2>0, <2>4 DEF Sound, Bounded, M!Job, M!States
  <2>5. ASSUME j.lease = "live" PROVE Sound([j EXCEPT !.lease = "lapsed"])
    BY <1>3, <2>0, <2>5 DEF Sound, Bounded, M!Job, M!States
  <2> QED BY <2>1, <2>2, <2>3, <2>4, <2>5
<1> QED BY <1>2, <1>3

(* What the calls of a queue may do to its jobs: to one of them, or to each.  *)
Records == jobs \in Seq(M!Job) /\ Len(jobs) <= MaxJobs /\ \A i \in DOMAIN jobs : Sound(jobs[i])

LEMMA RecordReplaced ==
    ASSUME Records, NEW i \in DOMAIN jobs, NEW r, Sound(jobs[i]) => Sound(r), jobs' = [jobs EXCEPT ![i] = r]
    PROVE  Records' /\ DOMAIN jobs' = DOMAIN jobs
BY DEF Records, Sound

LEMMA RecordAppended ==
    ASSUME Records, NEW r, Sound(r), Len(jobs) < MaxJobs, jobs' = Append(jobs, r)
    PROVE  Records' /\ DOMAIN jobs \subseteq DOMAIN jobs'
<1>1. MaxJobs \in Nat
  BY QueueAssumption
<1>2. jobs' \in Seq(M!Job) /\ Len(jobs') = Len(jobs) + 1
  BY DEF Records, Sound
<1>3. DOMAIN jobs' = 1 .. Len(jobs) + 1 /\ DOMAIN jobs = 1 .. Len(jobs) /\ Len(jobs) \in Nat
  BY <1>2 DEF Records
<1>4. \A i \in DOMAIN jobs' : jobs'[i] = IF i \in DOMAIN jobs THEN jobs[i] ELSE r
  BY <1>3 DEF Records
<1> QED BY <1>1, <1>2, <1>3, <1>4 DEF Records

LEMMA StatementKeeps ==
    ASSUME Records, M!Statement
    PROVE  Records' /\ DOMAIN jobs' = DOMAIN jobs
<1>1. ASSUME NEW q \in Queues, M!Claim(q) PROVE Records' /\ DOMAIN jobs' = DOMAIN jobs
  <2>1. PICK i \in M!Waiting(q) : jobs' = [jobs EXCEPT ![i] = M!Claimed(jobs[i])]
    BY <1>1 DEF M!Claim
  <2> QED BY <2>1, RecordsSound, RecordReplaced DEF M!Waiting
<1>2. ASSUME NEW i \in DOMAIN jobs, M!Cancel(i) PROVE Records' /\ DOMAIN jobs' = DOMAIN jobs
  <2>1. jobs' = [jobs EXCEPT ![i] = [jobs[i] EXCEPT !.state = "cancelled"]] /\ jobs[i].state = "queued"
    BY <1>2 DEF M!Cancel
  <2> QED BY <2>1, RecordsSound, RecordReplaced
<1>3. ASSUME NEW i \in DOMAIN jobs, M!Lapse(i) PROVE Records' /\ DOMAIN jobs' = DOMAIN jobs
  <2>1. jobs' = [jobs EXCEPT ![i] = [jobs[i] EXCEPT !.lease = "lapsed"]] /\ jobs[i].lease = "live"
    BY <1>3 DEF M!Lapse
  <2> QED BY <2>1, RecordsSound, RecordReplaced
<1>4. CASE M!RecoverExpiredLeases
  <2>1. jobs' = [i \in DOMAIN jobs |-> IF M!Lapsed(jobs[i]) THEN M!Again(jobs[i]) ELSE jobs[i]]
    BY <1>4 DEF M!RecoverExpiredLeases
  <2>2. \A i \in DOMAIN jobs : Sound(IF M!Lapsed(jobs[i]) THEN M!Again(jobs[i]) ELSE jobs[i])
    BY RecordsSound DEF Records
  <2>3. jobs' \in Seq(M!Job) /\ Len(jobs') = Len(jobs) /\ DOMAIN jobs' = DOMAIN jobs
    BY <2>1, <2>2 DEF Records, Sound
  <2> QED BY <2>1, <2>2, <2>3 DEF Records
<1> QED BY <1>1, <1>2, <1>3, <1>4 DEF M!Statement


-------------------------------------------------------------------------------
(* An older job of a key has been given up.  A job keeps its key, and its     *)
(* state once that is final, as long as a call reads and writes in one step.  *)
GivenUp(j) == j.state \in {"failed", "cancelled"}
Final == {"completed", "failed", "cancelled"}

KeysInOrder ==
    \A i, k \in DOMAIN jobs :
        i < k /\ jobs[i].key # Nothing /\ jobs[i].key = jobs[k].key /\ jobs[i].queue = jobs[k].queue
        => GivenUp(jobs[i])

Same(j, r) ==
    /\ r.key = j.key /\ r.queue = j.queue
    /\ j.state \in Final => r.state = j.state

LEMMA SameRecords ==
    ASSUME NEW j \in M!Job
    PROVE  /\ Same(j, j)
           /\ j.state = "active" => Same(j, M!Done(j)) /\ Same(j, M!Again(j))
           /\ j.state = "queued" => Same(j, M!Claimed(j)) /\ Same(j, [j EXCEPT !.state = "cancelled"])
           /\ Same(j, [j EXCEPT !.lease = "lapsed"])
<1>1. Same(j, j) /\ Same(j, [j EXCEPT !.lease = "lapsed"])
  BY DEF Same, Final, M!Job
<1>2. ASSUME j.state = "active" PROVE Same(j, M!Done(j)) /\ Same(j, M!Again(j))
  BY <1>2 DEF Same, Final, M!Job, M!Done, M!Again
<1>3. ASSUME j.state = "queued" PROVE Same(j, M!Claimed(j)) /\ Same(j, [j EXCEPT !.state = "cancelled"])
  BY <1>3 DEF Same, Final, M!Job, M!Claimed
<1> QED BY <1>1, <1>2, <1>3

LEMMA CallsKeepKeys ==
    ASSUME Records, M!Statement \/ \E i \in DOMAIN jobs : M!Complete(i) \/ M!Fail(i)
    PROVE  Records' /\ DOMAIN jobs' = DOMAIN jobs /\ \A i \in DOMAIN jobs : Same(jobs[i], jobs'[i])
<1>0. \A i \in DOMAIN jobs : jobs[i] \in M!Job
  BY DEF Records, Sound
<1>1. ASSUME NEW i \in DOMAIN jobs, NEW r, Same(jobs[i], r), jobs' = [jobs EXCEPT ![i] = r]
      PROVE  \A n \in DOMAIN jobs : Same(jobs[n], jobs'[n])
  BY <1>0, <1>1, SameRecords
<1>2. ASSUME NEW i \in DOMAIN jobs, M!Complete(i) \/ M!Fail(i)
      PROVE  Records' /\ DOMAIN jobs' = DOMAIN jobs /\ \A n \in DOMAIN jobs : Same(jobs[n], jobs'[n])
  <2>1. jobs[i].state = "active"
        /\ (jobs' = [jobs EXCEPT ![i] = M!Done(jobs[i])] \/ jobs' = [jobs EXCEPT ![i] = M!Again(jobs[i])])
    BY <1>2 DEF M!Complete, M!Fail
  <2>2. Same(jobs[i], M!Done(jobs[i])) /\ Same(jobs[i], M!Again(jobs[i]))
    BY <1>0, <2>1, SameRecords
  <2>3. \A n \in DOMAIN jobs : Same(jobs[n], jobs'[n])
    BY <1>1, <2>1, <2>2
  <2> QED BY <2>1, <2>3, RecordsSound, RecordReplaced
<1>3. ASSUME M!Statement PROVE \A n \in DOMAIN jobs : Same(jobs[n], jobs'[n])
  <2>1. ASSUME NEW q \in Queues, M!Claim(q) PROVE \A n \in DOMAIN jobs : Same(jobs[n], jobs'[n])
    <3>1. PICK i \in M!Waiting(q) : jobs' = [jobs EXCEPT ![i] = M!Claimed(jobs[i])]
      BY <2>1 DEF M!Claim
    <3>2. i \in DOMAIN jobs /\ jobs[i].state = "queued"
      BY DEF M!Waiting
    <3> QED BY <1>0, <1>1, <3>1, <3>2, SameRecords
  <2>2. ASSUME NEW i \in DOMAIN jobs, M!Cancel(i) PROVE \A n \in DOMAIN jobs : Same(jobs[n], jobs'[n])
    <3>1. jobs' = [jobs EXCEPT ![i] = [jobs[i] EXCEPT !.state = "cancelled"]] /\ jobs[i].state = "queued"
      BY <2>2 DEF M!Cancel
    <3> QED BY <1>0, <1>1, <3>1, SameRecords
  <2>3. ASSUME NEW i \in DOMAIN jobs, M!Lapse(i) PROVE \A n \in DOMAIN jobs : Same(jobs[n], jobs'[n])
    <3>1. jobs' = [jobs EXCEPT ![i] = [jobs[i] EXCEPT !.lease = "lapsed"]]
      BY <2>3 DEF M!Lapse
    <3> QED BY <1>0, <1>1, <3>1, SameRecords
  <2>4. CASE M!RecoverExpiredLeases
    <3>1. jobs' = [i \in DOMAIN jobs |-> IF M!Lapsed(jobs[i]) THEN M!Again(jobs[i]) ELSE jobs[i]]
      BY <2>4 DEF M!RecoverExpiredLeases
    <3>2. \A i \in DOMAIN jobs : Same(jobs[i], IF M!Lapsed(jobs[i]) THEN M!Again(jobs[i]) ELSE jobs[i])
      BY <1>0, SameRecords DEF M!Lapsed
    <3> QED BY <3>1, <3>2
  <2> QED BY <1>3, <2>1, <2>2, <2>3, <2>4 DEF M!Statement
<1> QED BY <1>2, <1>3, StatementKeeps

LEMMA KeysStayInOrder ==
    ASSUME Records, KeysInOrder, DOMAIN jobs' = DOMAIN jobs,
           \A i \in DOMAIN jobs : Same(jobs[i], jobs'[i])
    PROVE  KeysInOrder'
BY DEF KeysInOrder, Same, GivenUp, Final

LEMMA EnqueueKeepsOrder ==
    ASSUME Records, KeysInOrder, NEW q \in Queues, NEW k \in JobKeys \cup {Nothing}, NEW l \in Limits,
           ~M!Known(q, k), M!Enqueue(q, k, l)
    PROVE  Records' /\ KeysInOrder' /\ Len(jobs') = Len(jobs) + 1
<1>1. jobs' = Append(jobs, M!Queued(q, k, l)) /\ Len(jobs) < MaxJobs /\ Sound(M!Queued(q, k, l))
  BY RecordsSound DEF M!Enqueue
<1>2. Records'
  BY <1>1, RecordAppended
<1>3. /\ Len(jobs) \in Nat /\ DOMAIN jobs = 1 .. Len(jobs)
      /\ DOMAIN jobs' = 1 .. Len(jobs) + 1 /\ Len(jobs') = Len(jobs) + 1
      /\ \A i \in DOMAIN jobs : jobs'[i] = jobs[i]
      /\ jobs'[Len(jobs) + 1] = M!Queued(q, k, l)
  BY <1>1 DEF Records, Sound
<1>4. ASSUME NEW i \in DOMAIN jobs, jobs[i].key = k, jobs[i].queue = q, k # Nothing PROVE GivenUp(jobs[i])
  <2>1. i \in M!Named(q, k)
    BY <1>4 DEF M!Named
  <2>2. CASE \A n \in M!Named(q, k) : n <= i
    BY <1>4, <2>1, <2>2 DEF M!Known, GivenUp
  <2>3. ASSUME NEW n \in M!Named(q, k), ~(n <= i) PROVE GivenUp(jobs[i])
    <3>1. n \in DOMAIN jobs /\ i < n /\ jobs[n].key = k /\ jobs[n].queue = q
      BY <1>3, <2>3 DEF M!Named
    <3> QED BY <1>4, <3>1 DEF KeysInOrder
  <2> QED BY <2>2, <2>3
<1>5. M!Queued(q, k, l).key = k /\ M!Queued(q, k, l).queue = q
  BY DEF M!Queued
<1>6. ASSUME NEW i \in DOMAIN jobs', NEW n \in DOMAIN jobs', i < n, jobs'[i].key # Nothing,
             jobs'[i].key = jobs'[n].key, jobs'[i].queue = jobs'[n].queue
      PROVE  GivenUp(jobs'[i])
  <2>1. i \in DOMAIN jobs /\ (n \in DOMAIN jobs \/ n = Len(jobs) + 1)
    BY <1>3, <1>6
  <2>2. CASE n \in DOMAIN jobs
    BY <1>3, <1>6, <2>1, <2>2 DEF KeysInOrder
  <2>3. CASE n = Len(jobs) + 1
    BY <1>3, <1>4, <1>5, <1>6, <2>1, <2>3
  <2> QED BY <2>1, <2>2, <2>3
<1> QED BY <1>2, <1>3, <1>6 DEF KeysInOrder


QueueIInv == Records /\ KeysInOrder

LEMMA QueueInit ==
    ASSUME jobs = <<>>
    PROVE  QueueIInv
<1>1. Len(jobs) = 0 /\ jobs \in Seq(M!Job) /\ DOMAIN jobs = {}
  OBVIOUS
<1> QED BY <1>1, QueueAssumption DEF QueueIInv, Records, KeysInOrder

(* An enqueue with no key or an unknown one, and every other call, in one step. *)
LEMMA MemoryQueueStep ==
    ASSUME QueueIInv, M!Next
    PROVE  QueueIInv'
<1>1. ASSUME NEW q \in Queues, NEW k \in JobKeys \cup {Nothing}, NEW l \in Limits, M!Enqueue(q, k, l)
      PROVE  QueueIInv'
  BY <1>1, EnqueueKeepsOrder DEF QueueIInv, M!Enqueue
<1>2. CASE M!Statement \/ \E i \in DOMAIN jobs : M!Complete(i) \/ M!Fail(i)
  BY <1>2, CallsKeepKeys, KeysStayInOrder DEF QueueIInv
<1> QED BY <1>1, <1>2 DEF M!Next

(* Of two jobs of one key the older has been given up.                       *)
LEMMA QueueIInvKept ==
    ASSUME QueueIInv
    PROVE  M!TypeOK /\ M!RetriesBounded /\ M!OneJobPerKey
<1>1. M!TypeOK /\ M!RetriesBounded
  BY DEF QueueIInv, Records, Sound, Bounded, M!TypeOK, M!RetriesBounded
<1>2. ASSUME NEW i \in DOMAIN jobs, NEW k \in DOMAIN jobs, jobs[i].key # Nothing, jobs[i].key = jobs[k].key,
             jobs[i].queue = jobs[k].queue, {jobs[i].state, jobs[k].state} \cap {"failed", "cancelled"} = {}
      PROVE  i = k
  <2>1. ~GivenUp(jobs[i]) /\ ~GivenUp(jobs[k])
    BY <1>2 DEF GivenUp
  <2>2. i \in Nat /\ k \in Nat
    BY DEF QueueIInv, Records
  <2>3. ~(i < k) /\ ~(k < i)
    BY <1>2, <2>1 DEF QueueIInv, KeysInOrder
  <2> QED BY <2>2, <2>3
<1>3. M!OneJobPerKey
  BY <1>2 DEF M!OneJobPerKey
<1> QED BY <1>1, <1>3

-------------------------------------------------------------------------------
(* The rows of the file have ids that no other has, also after it was opened  *)
(* again.                                                                      *)
FileIInv ==
    /\ QueueIInv /\ Q!RowsNamed /\ ids \in Seq(Nat) /\ sequence \in Nat
    /\ thrown \in BOOLEAN /\ reopened \in BOOLEAN
    /\ ~ reopened => \A i \in DOMAIN ids : ids[i] <= sequence

LEMMA FileInit == Q!OpenFile => FileIInv
<1> SUFFICES ASSUME Q!OpenFile PROVE FileIInv
  OBVIOUS
<1>1. jobs = <<>> /\ ids = <<>> /\ sequence = 0 /\ thrown = FALSE /\ reopened = FALSE
  BY DEF Q!OpenFile
<1>2. ids \in Seq(Nat) /\ Len(ids) = Len(jobs) /\ DOMAIN ids = {}
  BY <1>1
<1> QED BY <1>1, <1>2, QueueInit DEF FileIInv, Q!RowsNamed

LEMMA RowsApart ==
    ASSUME FileIInv, NEW s \in DOMAIN jobs
    PROVE  \A i \in DOMAIN jobs : ids[i] = ids[s] <=> i = s
<1>1. DOMAIN ids = DOMAIN jobs
  BY DEF FileIInv, QueueIInv, Records, Q!RowsNamed
<1> QED BY <1>1 DEF FileIInv, Q!RowsNamed

(* A row is the only one with its id, so a statement that names the id writes *)
(* that row and no other.                                                     *)
LEMMA OneRowWritten ==
    ASSUME FileIInv, NEW s \in DOMAIN jobs, NEW r,
           jobs' = [i \in DOMAIN jobs |-> IF ids[i] = ids[s] THEN r ELSE jobs[i]]
    PROVE  jobs' = [jobs EXCEPT ![s] = r]
<1>1. jobs = [i \in DOMAIN jobs |-> jobs[i]]
  BY DEF FileIInv, QueueIInv, Records
<1>2. \A i \in DOMAIN jobs : ids[i] = ids[s] <=> i = s
  BY RowsApart
<1> QED BY <1>1, <1>2

LEMMA ClaimJobIs ==
    ASSUME FileIInv, NEW q \in Queues, Q!ClaimJob(q)
    PROVE  M!Claim(q) /\ UNCHANGED <<ids, sequence, reopened>> /\ thrown' = FALSE
<1>1. PICK s \in DOMAIN jobs :
         /\ jobs[s].queue = q /\ jobs[s].state = "queued"
         /\ \A n \in DOMAIN jobs : n < s => ~ (jobs[n].queue = q /\ jobs[n].state = "queued")
         /\ jobs' = [i \in DOMAIN jobs |->
                       IF ids[i] = ids[s]
                       THEN [jobs[i] EXCEPT !.state = "active", !.attempts = @ + 1, !.lease = "live"]
                       ELSE jobs[i]]
         /\ UNCHANGED <<ids, sequence, reopened>> /\ thrown' = FALSE
  BY DEF Q!ClaimJob, Q!Update, Q!Any, Q!Leased
<1>2. jobs' = [i \in DOMAIN jobs |-> IF ids[i] = ids[s] THEN M!Claimed(jobs[s]) ELSE jobs[i]]
  <2>1. \A i \in DOMAIN jobs : ids[i] = ids[s] <=> i = s
    BY RowsApart
  <2> QED BY <1>1, <2>1 DEF M!Claimed
<1>3. jobs' = [jobs EXCEPT ![s] = M!Claimed(jobs[s])]
  BY <1>2, OneRowWritten
<1>4. DOMAIN jobs \subseteq Nat
  BY DEF FileIInv, QueueIInv, Records
<1>5. s \in M!Waiting(q)
  BY <1>1 DEF M!Waiting
<1>6. ASSUME NEW n \in M!Waiting(q) PROVE s <= n
  <2>1. n \in DOMAIN jobs /\ ~ (n < s)
    BY <1>1 DEF M!Waiting
  <2>2. n \in Nat /\ s \in Nat
    BY <1>4, <2>1
  <2> QED BY <2>1, <2>2
<1> QED BY <1>1, <1>3, <1>5, <1>6 DEF M!Claim

LEMMA CompleteJobIs ==
    ASSUME FileIInv, NEW s \in DOMAIN jobs, Q!CompleteJob(s)
    PROVE  M!Complete(s) /\ UNCHANGED <<ids, sequence, reopened>> /\ thrown' = FALSE
<1>1. /\ jobs[s].state = "active"
      /\ jobs' = [i \in DOMAIN jobs |->
                    IF ids[i] = ids[s] THEN [jobs[i] EXCEPT !.state = "completed", !.lease = "none"]
                    ELSE jobs[i]]
      /\ UNCHANGED <<ids, sequence, reopened>> /\ thrown' = FALSE
  BY DEF Q!CompleteJob, Q!Update, Q!Any, Q!Completed
<1>2. jobs' = [i \in DOMAIN jobs |-> IF ids[i] = ids[s] THEN M!Done(jobs[s]) ELSE jobs[i]]
  <2>1. \A i \in DOMAIN jobs : ids[i] = ids[s] <=> i = s
    BY RowsApart
  <2> QED BY <1>1, <2>1 DEF M!Done
<1>3. jobs' = [jobs EXCEPT ![s] = M!Done(jobs[s])]
  BY <1>2, OneRowWritten
<1> QED BY <1>1, <1>3 DEF M!Complete

LEMMA FailJobIs ==
    ASSUME FileIInv, NEW s \in DOMAIN jobs, Q!FailJob(s)
    PROVE  M!Fail(s) /\ UNCHANGED <<ids, sequence, reopened>> /\ thrown' = FALSE
<1>1. /\ jobs[s].state = "active"
      /\ jobs' = [i \in DOMAIN jobs |-> IF ids[i] = ids[s] THEN Q!Released(jobs[i]) ELSE jobs[i]]
      /\ UNCHANGED <<ids, sequence, reopened>> /\ thrown' = FALSE
  BY DEF Q!FailJob, Q!Update, Q!Any
<1>2. jobs' = [i \in DOMAIN jobs |-> IF ids[i] = ids[s] THEN M!Again(jobs[s]) ELSE jobs[i]]
  <2>1. \A i \in DOMAIN jobs : ids[i] = ids[s] <=> i = s
    BY RowsApart
  <2> QED BY <1>1, <2>1 DEF Q!Released, M!Again
<1>3. jobs' = [jobs EXCEPT ![s] = M!Again(jobs[s])]
  BY <1>2, OneRowWritten
<1> QED BY <1>1, <1>3 DEF M!Fail

LEMMA CancelJobIs ==
    ASSUME FileIInv, NEW s \in DOMAIN jobs, Q!CancelJob(s)
    PROVE  (M!Cancel(s) \/ UNCHANGED jobs) /\ UNCHANGED <<ids, sequence, reopened>> /\ thrown' = FALSE
<1>1. /\ jobs' = [i \in DOMAIN jobs |->
                    IF ids[i] = ids[s] /\ jobs[i].state = "queued"
                    THEN [jobs[i] EXCEPT !.state = "cancelled"] ELSE jobs[i]]
      /\ UNCHANGED <<ids, sequence, reopened>> /\ thrown' = FALSE
  BY DEF Q!CancelJob, Q!Update, Q!IsQueued, Q!Cancelled
<1>2. \A i \in DOMAIN jobs : ids[i] = ids[s] <=> i = s
  BY RowsApart
<1>3. jobs = [i \in DOMAIN jobs |-> jobs[i]]
  BY DEF FileIInv, QueueIInv, Records
<1>4. CASE jobs[s].state = "queued"
  <2>1. jobs' = [i \in DOMAIN jobs |->
                    IF ids[i] = ids[s] THEN [jobs[s] EXCEPT !.state = "cancelled"] ELSE jobs[i]]
    BY <1>1, <1>2, <1>4
  <2>2. jobs' = [jobs EXCEPT ![s] = [jobs[s] EXCEPT !.state = "cancelled"]]
    BY <2>1, OneRowWritten
  <2> QED BY <1>1, <1>4, <2>2 DEF M!Cancel
<1>5. CASE jobs[s].state # "queued"
  BY <1>1, <1>2, <1>3, <1>5
<1> QED BY <1>4, <1>5

LEMMA RecoverJobsIs ==
    ASSUME FileIInv, Q!RecoverJobs
    PROVE  (M!RecoverExpiredLeases \/ UNCHANGED jobs)
           /\ UNCHANGED <<ids, sequence, reopened>> /\ thrown' = FALSE
<1>1. /\ jobs' = [i \in DOMAIN jobs |-> IF M!Lapsed(jobs[i]) THEN M!Again(jobs[i]) ELSE jobs[i]]
      /\ UNCHANGED <<ids, sequence, reopened>> /\ thrown' = FALSE
  BY DEF Q!RecoverJobs, Q!Released, M!Lapsed, M!Again
<1>2. jobs = [i \in DOMAIN jobs |-> jobs[i]]
  BY DEF FileIInv, QueueIInv, Records
<1> QED BY <1>1, <1>2 DEF M!RecoverExpiredLeases

(* The row an enqueue returns is the job the contract knows by its key.       *)
LEMMA ExistingIsKnown ==
    ASSUME FileIInv, NEW q, NEW k
    PROVE  Q!Existing(q, k) = {} <=> ~ M!Known(q, k)
<1>1. DOMAIN jobs \subseteq Nat
  BY DEF FileIInv, QueueIInv, Records
<1>2. CASE k = Nothing
  BY <1>2 DEF Q!Existing, M!Known
<1>3. CASE k # Nothing
  <2>1. Q!LastOf(q, k) = {i \in M!Named(q, k) : \A n \in M!Named(q, k) : n <= i}
    BY <1>1 DEF Q!LastOf, M!Named
  <2> QED BY <1>3, <2>1 DEF Q!Existing, M!Known
<1> QED BY <1>2, <1>3

LEMMA EnqueueRowIs ==
    ASSUME FileIInv, NEW q \in Queues, NEW k \in JobKeys \cup {Nothing}, NEW l \in Limits,
           Q!EnqueueRow(q, k, l)
    PROVE  /\ sequence' = sequence + 1 /\ UNCHANGED reopened
           /\ \/ thrown' = TRUE /\ reopened /\ UNCHANGED <<jobs, ids>>
              \/ /\ thrown' = FALSE /\ M!Enqueue(q, k, l) /\ ids' = Append(ids, sequence + 1)
                 /\ \A i \in DOMAIN ids : ids[i] # sequence + 1
<1>1. ~ M!Known(q, k)
  BY ExistingIsKnown DEF Q!EnqueueRow
<1>2. sequence' = sequence + 1 /\ UNCHANGED reopened /\ Q!Insert(sequence + 1, q, k, l)
  BY DEF Q!EnqueueRow
<1>3. CASE \E i \in DOMAIN ids : ids[i] = sequence + 1
  <2>1. reopened
    BY <1>3 DEF FileIInv
  <2> QED BY <1>2, <1>3, <2>1 DEF Q!Insert
<1>4. CASE ~ \E i \in DOMAIN ids : ids[i] = sequence + 1
  BY <1>1, <1>2, <1>4 DEF Q!Insert, M!Enqueue, M!Queued
<1> QED BY <1>2, <1>3, <1>4

(* Each step: one of the contract, or a failing insert.                       *)
LEMMA SqliteStep ==
    ASSUME FileIInv, Q!SqliteNext
    PROVE  \/ thrown' = FALSE /\ [M!Next]_jobs
           \/ thrown' = TRUE /\ reopened /\ UNCHANGED jobs
<1>1. ASSUME NEW q \in Queues, NEW k \in JobKeys \cup {Nothing}, NEW l \in Limits, Q!EnqueueRow(q, k, l)
      PROVE  \/ thrown' = FALSE /\ M!Next
             \/ thrown' = TRUE /\ reopened /\ UNCHANGED jobs
  BY <1>1, EnqueueRowIs DEF M!Next
<1>2. ASSUME NEW q \in Queues, Q!ClaimJob(q) PROVE thrown' = FALSE /\ M!Next
  BY <1>2, ClaimJobIs DEF M!Next, M!Statement
<1>3. ASSUME NEW s \in DOMAIN jobs, Q!CompleteJob(s) \/ Q!FailJob(s) \/ Q!CancelJob(s) \/ Q!Pass(s)
      PROVE  thrown' = FALSE /\ [M!Next]_jobs
  <2>1. ASSUME Q!Pass(s) PROVE thrown' = FALSE /\ M!Lapse(s)
    BY <2>1 DEF Q!Pass, M!Lapse
  <2> QED BY <1>3, <2>1, CompleteJobIs, FailJobIs, CancelJobIs DEF M!Next, M!Statement
<1>4. ASSUME Q!RecoverJobs PROVE thrown' = FALSE /\ [M!Next]_jobs
  BY <1>4, RecoverJobsIs DEF M!Next, M!Statement
<1>5. ASSUME Q!Reopen PROVE thrown' = FALSE /\ UNCHANGED jobs
  BY <1>5 DEF Q!Reopen
<1> QED BY <1>1, <1>2, <1>3, <1>4, <1>5 DEF Q!SqliteNext, Q!Statements

LEMMA FileStep ==
    ASSUME FileIInv, Q!SqliteNext
    PROVE  FileIInv'
<1>1. QueueIInv'
  <2>1. CASE UNCHANGED jobs
    BY <2>1 DEF FileIInv, QueueIInv, Records, KeysInOrder
  <2>2. CASE M!Next
    BY <2>2, MemoryQueueStep DEF FileIInv
  <2> QED BY <2>1, <2>2, SqliteStep
<1>2. ASSUME NEW q \in Queues, NEW k \in JobKeys \cup {Nothing}, NEW l \in Limits, Q!EnqueueRow(q, k, l)
      PROVE  FileIInv'
  <2>0. sequence' = sequence + 1 /\ UNCHANGED reopened
    BY <1>2 DEF Q!EnqueueRow
  <2>1. sequence' = sequence + 1 /\ sequence' \in Nat /\ UNCHANGED reopened
    BY <2>0 DEF FileIInv
  <2>2. CASE thrown' = TRUE /\ reopened /\ UNCHANGED <<jobs, ids>>
    BY <1>1, <2>1, <2>2 DEF FileIInv, Q!RowsNamed
  <2>3. CASE /\ thrown' = FALSE /\ M!Enqueue(q, k, l) /\ ids' = Append(ids, sequence + 1)
             /\ \A i \in DOMAIN ids : ids[i] # sequence + 1
    <3>1. Len(jobs') = Len(jobs) + 1
      BY <2>3, EnqueueKeepsOrder DEF FileIInv, QueueIInv, M!Enqueue
    <3>2. /\ ids' \in Seq(Nat) /\ Len(ids') = Len(ids) + 1
          /\ \A i \in DOMAIN ids' : ids'[i] = IF i \in DOMAIN ids THEN ids[i] ELSE sequence + 1
          /\ \A i \in DOMAIN ids' \ DOMAIN ids : i = Len(ids) + 1
      BY <2>1, <2>3 DEF FileIInv
    <3>3. \A i, n \in DOMAIN ids' : ids'[i] = ids'[n] => i = n
      BY <2>3, <3>2 DEF FileIInv, Q!RowsNamed
    <3>4. ~ reopened => \A i \in DOMAIN ids' : ids'[i] <= sequence'
      BY <2>1, <3>2 DEF FileIInv
    <3> QED BY <1>1, <2>1, <2>3, <3>1, <3>2, <3>3, <3>4 DEF FileIInv, Q!RowsNamed
  <2> QED BY <1>2, <2>2, <2>3, EnqueueRowIs
<1>3. ASSUME DOMAIN jobs' = DOMAIN jobs, UNCHANGED <<ids, sequence, reopened>>, thrown' = FALSE
      PROVE  FileIInv'
  <2>1. Len(jobs') = Len(jobs)
    BY <1>1, <1>3 DEF FileIInv, QueueIInv, Records
  <2> QED BY <1>1, <1>3, <2>1 DEF FileIInv, Q!RowsNamed
<1>4. ASSUME M!Statement \/ (\E i \in DOMAIN jobs : M!Complete(i) \/ M!Fail(i)) \/ UNCHANGED jobs
      PROVE  DOMAIN jobs' = DOMAIN jobs
  BY <1>4, CallsKeepKeys DEF FileIInv, QueueIInv
<1>5. ASSUME NEW q \in Queues, Q!ClaimJob(q) PROVE FileIInv'
  BY <1>3, <1>4, <1>5, ClaimJobIs DEF M!Statement
<1>6. ASSUME NEW s \in DOMAIN jobs, Q!CompleteJob(s) \/ Q!FailJob(s) \/ Q!CancelJob(s) PROVE FileIInv'
  BY <1>3, <1>4, <1>6, CompleteJobIs, FailJobIs, CancelJobIs DEF M!Statement
<1>7. ASSUME NEW s \in DOMAIN jobs, Q!Pass(s) PROVE FileIInv'
  BY <1>3, <1>7 DEF Q!Pass, FileIInv, QueueIInv, Records
<1>8. ASSUME Q!RecoverJobs PROVE FileIInv'
  BY <1>3, <1>4, <1>8, RecoverJobsIs DEF M!Statement
<1>9. ASSUME Q!Reopen PROVE FileIInv'
  BY <1>1, <1>9 DEF Q!Reopen, FileIInv, Q!RowsNamed
<1> QED BY <1>2, <1>5, <1>6, <1>7, <1>8, <1>9 DEF Q!SqliteNext, Q!Statements

-------------------------------------------------------------------------------
(* A call of the server has a record to go on with.                          *)
ServerIInv == Records /\ queueCall \in [Callers -> B!Call]

LEMMA ServerStart == B!ServerInit => ServerIInv
<1> SUFFICES ASSUME B!ServerInit PROVE ServerIInv
  OBVIOUS
<1>1. jobs = <<>> /\ queueCall = [c \in Callers |-> B!NoCall]
  BY DEF B!ServerInit, B!Init
<1>2. B!NoCall \in B!Call
  BY DEF B!NoCall, B!Call
<1> QED BY <1>1, <1>2, QueueInit DEF ServerIInv, QueueIInv

LEMMA ServerStep ==
    ASSUME ServerIInv, B!ServerNext
    PROVE  ServerIInv'
<1>0. \A c \in Callers : queueCall[c] \in B!Call
  BY DEF ServerIInv
<1>1. ASSUME NEW c \in Callers, NEW r \in B!Call, queueCall' = [queueCall EXCEPT ![c] = r]
      PROVE  queueCall' \in [Callers -> B!Call]
  BY <1>1 DEF ServerIInv
<1>2. B!NoCall \in B!Call
  BY DEF B!NoCall, B!Call
<1>3. ASSUME UNCHANGED jobs PROVE Records'
  BY <1>3 DEF ServerIInv, Records
<1>4. ASSUME NEW c \in Callers, NEW q \in Queues, NEW k \in JobKeys \cup {Nothing}, NEW l \in Limits,
             B!LookForKey(c, q, k, l)
      PROVE  ServerIInv'
  <2>1. [op |-> "insert", queue |-> q, key |-> k, limit |-> l] \in B!Call
    BY DEF B!Call
  <2> QED BY <1>1, <1>3, <1>4, <2>1 DEF B!LookForKey, ServerIInv
<1>5. ASSUME NEW c \in Callers, B!InsertJob(c) PROVE ServerIInv'
  <2>1. queueCall[c].queue \in Queues /\ queueCall[c].key \in JobKeys \cup {Nothing}
        /\ queueCall[c].limit \in Limits
    BY <1>0, <1>5 DEF B!InsertJob, B!Call
  <2>2. Records'
    <3>1. jobs' = Append(jobs, M!Queued(queueCall[c].queue, queueCall[c].key, queueCall[c].limit))
          /\ Len(jobs) < MaxJobs
      BY <1>5, SameStatements DEF B!InsertJob
    <3> QED BY <2>1, <3>1, RecordsSound, RecordAppended DEF ServerIInv
  <2>3. [op |-> "read", key |-> queueCall[c].key] \in B!Call
    BY <2>1 DEF B!Call
  <2> QED BY <1>1, <1>5, <2>2, <2>3 DEF B!InsertJob, ServerIInv
<1>6. ASSUME NEW c \in Callers, B!ReadBack(c) \/ B!Abandon(c) PROVE ServerIInv'
  BY <1>1, <1>2, <1>3, <1>6 DEF B!ReadBack, B!Abandon, ServerIInv
<1>7. ASSUME NEW c \in Callers, NEW op \in {"complete", "fail"}, NEW i \in DOMAIN jobs, B!LookForJob(c, op, i)
      PROVE  ServerIInv'
  <2>1. i \in 1 .. MaxJobs
    BY QueueAssumption DEF ServerIInv, Records
  <2>2. [op |-> op, job |-> i] \in B!Call
    BY <2>1 DEF B!Call
  <2> QED BY <1>1, <1>3, <1>7, <2>2 DEF B!LookForJob, ServerIInv
<1>8. ASSUME NEW c \in Callers, B!CompleteById(c) \/ B!FailById(c) PROVE ServerIInv'
  <2>1. PICK i : jobs' = [jobs EXCEPT ![i] = M!Done(jobs[i])] \/ jobs' = [jobs EXCEPT ![i] = M!Again(jobs[i])]
    BY <1>8, SameStatements DEF B!CompleteById, B!FailById
  <2>2. Records'
    <3>1. CASE i \in DOMAIN jobs
      BY <2>1, <3>1, RecordsSound, RecordReplaced DEF ServerIInv
    <3>2. CASE i \notin DOMAIN jobs
      <4>1. jobs' = jobs
        BY <2>1, <3>2 DEF ServerIInv, Records
      <4> QED BY <1>3, <4>1
    <3> QED BY <3>1, <3>2
  <2>3. queueCall' \in [Callers -> B!Call]
    BY <1>1, <1>2, <1>8 DEF B!CompleteById, B!FailById
  <2> QED BY <2>2, <2>3 DEF ServerIInv
<1>9. CASE M!Statement /\ UNCHANGED queueCall
  BY <1>9, StatementKeeps DEF ServerIInv
<1> QED BY <1>4, <1>5, <1>6, <1>7, <1>8, <1>9, SameStatements DEF B!ServerNext

LEMMA ServerIInvKept == ServerIInv => B!ServerTypeOK /\ M!RetriesBounded
BY DEF ServerIInv, Records, Sound, Bounded, B!ServerTypeOK, B!TypeOK, B!Job, M!Job, B!States, M!States,
       M!RetriesBounded


-------------------------------------------------------------------------------
(* The row of run.started is the first; a stream adds its other events.       *)
Started == C!Event("started")

LEMMA EventsDistinct ==
    /\ \A t, u : C!Event(t).type = t
    /\ \A t, c : C!Tool(t, c).type = t /\ C!Tool(t, c).call = c
BY DEF C!Event, C!Tool

(* The numbers of a finite set in order: how many are no greater than one of  *)
(* them counts them from one.                                                 *)
Rank(S, i) == Cardinality({k \in S : k <= i})

LEMMA Ranked ==
    ASSUME NEW S \in SUBSET Nat, IsFiniteSet(S)
    PROVE  /\ \A i \in S : Rank(S, i) \in 1 .. Cardinality(S)
           /\ \A i, k \in S : i < k => Rank(S, i) < Rank(S, k)
           /\ \A n \in 1 .. Cardinality(S) : \E i \in S : Rank(S, i) = n
<1> DEFINE Upto(i) == {k \in S : k <= i}
<1>0. Cardinality(S) \in Nat
  BY FS_CardinalityType
<1>1. \A i \in S : IsFiniteSet(Upto(i)) /\ Cardinality(Upto(i)) \in Nat
                   /\ Cardinality(Upto(i)) <= Cardinality(S)
  <2> SUFFICES ASSUME NEW i \in S
               PROVE  IsFiniteSet(Upto(i)) /\ Cardinality(Upto(i)) \in Nat
                      /\ Cardinality(Upto(i)) <= Cardinality(S)
    OBVIOUS
  <2>1. Upto(i) \in SUBSET S
    OBVIOUS
  <2> HIDE DEF Upto
  <2> QED BY <2>1, FS_Subset, FS_CardinalityType
<1>2. \A i \in S : Cardinality(Upto(i)) # 0
  <2> SUFFICES ASSUME NEW i \in S PROVE Cardinality(Upto(i)) # 0
    OBVIOUS
  <2>1. i \in Upto(i)
    OBVIOUS
  <2> HIDE DEF Upto
  <2> QED BY <1>1, <2>1, FS_EmptySet
<1>3. ASSUME NEW i \in S, NEW k \in S, i < k
      PROVE  Cardinality(Upto(i)) < Cardinality(Upto(k))
  <2>1. Upto(i) \in SUBSET Upto(k) /\ k \in Upto(k) /\ k \notin Upto(i)
    <3>1. i \in Nat /\ k \in Nat /\ \A x \in S : x \in Nat
      OBVIOUS
    <3>2. (\A x \in S : x <= i => x <= k) /\ ~(k <= i) /\ k <= k
      BY <1>3, <3>1
    <3> QED BY <3>2
  <2> HIDE DEF Upto
  <2>2. Cardinality(Upto(i)) <= Cardinality(Upto(k))
        /\ Cardinality(Upto(k)) # Cardinality(Upto(i))
    BY <1>1, <2>1, FS_Subset
  <2> QED BY <1>1, <2>2
<1>4. \A i \in S : Rank(S, i) = Cardinality(Upto(i))
  BY DEF Rank
<1> HIDE DEF Upto
<1>5. \A i \in S : Rank(S, i) \in 1 .. Cardinality(S)
  BY <1>0, <1>1, <1>2, <1>4
<1>6. \A i, k \in S : i < k => Rank(S, i) < Rank(S, k)
  BY <1>3, <1>4
<1> DEFINE f == [i \in S |-> Rank(S, i)]
           T == 1 .. Cardinality(S)
<1>7. f \in [S -> T] /\ \A i \in S : f[i] = Rank(S, i)
  BY <1>5
<1> HIDE DEF f
<1>8. \A i, k \in S : f[i] = f[k] => i = k
  <2> SUFFICES ASSUME NEW i \in S, NEW k \in S, f[i] = f[k] PROVE i = k
    OBVIOUS
  <2>1. i \in Nat /\ k \in Nat /\ f[i] \in Nat
    BY <1>0, <1>7
  <2>2. ~(i < k) /\ ~(k < i)
    BY <1>6, <1>7, <2>1
  <2> QED BY <2>1, <2>2
<1>9. f \in Injection(S, T)
  BY <1>7, <1>8 DEF Injection, IsInjective
<1>10. IsFiniteSet(T) /\ Cardinality(T) = Cardinality(S)
  BY <1>0, FS_Interval
<1> HIDE DEF T
<1>11. f \in Surjection(S, T)
  BY <1>9, <1>10, FS_Injection
<1>12. \A n \in T : \E i \in S : Rank(S, i) = n
  BY <1>7, <1>11 DEF Surjection
<1> QED BY <1>5, <1>6, <1>12 DEF T

LEMMA NthRanked ==
    ASSUME NEW S \in SUBSET Nat, IsFiniteSet(S)
    PROVE  /\ \A n \in 1 .. Cardinality(S) : C!Nth(S, n) \in S
           /\ \A n, m \in 1 .. Cardinality(S) : n < m => C!Nth(S, n) < C!Nth(S, m)
           /\ \A i \in S : \E n \in 1 .. Cardinality(S) : C!Nth(S, n) = i
<1>1. \A i : C!Cardinality({k \in S : k <= i}) = Rank(S, i)
  BY DEF C!Cardinality, Cardinality, Rank
<1>2. ASSUME NEW n \in 1 .. Cardinality(S)
      PROVE  C!Nth(S, n) \in S /\ Rank(S, C!Nth(S, n)) = n
  <2>1. \E i \in S : C!Cardinality({k \in S : k <= i}) = n
    BY <1>1, Ranked
  <2>2. C!Nth(S, n) \in S /\ C!Cardinality({k \in S : k <= C!Nth(S, n)}) = n
    BY <2>1, Zenon DEF C!Nth
  <2> QED BY <1>1, <2>2
<1>3. ASSUME NEW n \in 1 .. Cardinality(S), NEW m \in 1 .. Cardinality(S), n < m
      PROVE  C!Nth(S, n) < C!Nth(S, m)
  <2> DEFINE i == C!Nth(S, n)
             k == C!Nth(S, m)
  <2>1. i \in S /\ k \in S /\ Rank(S, i) = n /\ Rank(S, k) = m /\ i \in Nat /\ k \in Nat
    BY <1>2
  <2> HIDE DEF i, k
  <2>2. ~(k < i) /\ k # i
    BY <1>3, <2>1, Ranked
  <2>3. i < k
    BY <2>1, <2>2
  <2> QED BY <2>3 DEF i, k
<1>4. ASSUME NEW i \in S
      PROVE  \E n \in 1 .. Cardinality(S) : C!Nth(S, n) = i
  <2>1. Rank(S, i) \in 1 .. Cardinality(S)
    BY Ranked
  <2> DEFINE k == C!Nth(S, Rank(S, i))
  <2>2. k \in S /\ Rank(S, k) = Rank(S, i)
    BY <1>2, <2>1
  <2> HIDE DEF k
  <2>3. i \in Nat /\ k \in Nat /\ ~(k < i) /\ ~(i < k)
    BY <2>2, Ranked
  <2>4. k = i
    BY <2>3
  <2> QED BY <2>1, <2>4 DEF k
<1> QED BY <1>2, <1>3, <1>4


CoreIInv == C!TypeOK /\ C!ProjectedOnce

LEMMA CoreInit == C!Init => CoreIInv
<1> SUFFICES ASSUME C!Init PROVE CoreIInv
  OBVIOUS
<1>1. script = <<>> /\ coreRun.status = "running" /\ coreRun.rows = <<Started>>
  BY DEF C!Init, Started
<1>2. Started \in C!StreamEvents \ {C!Event("delta")}
  BY DEF Started, C!StreamEvents, C!Event
<1> QED BY <1>1, <1>2 DEF CoreIInv, C!TypeOK, C!ProjectedOnce, Started

(* The rows of a stream that is accepted: each is the event of its place, the *)
(* places are in order, and all of them are there but those of its text.      *)
LEMMA RowsInOrder ==
    ASSUME NEW events, C!Accepted(events)
    PROVE  LET stored == C!Rows(<<Started>>, events) IN
           /\ stored \in Seq(C!StreamEvents \ {C!Event("delta")}) /\ Len(stored) \in Nat
           /\ \E place \in [1 .. Len(stored) -> DOMAIN events] :
                 /\ \A n \in 1 .. Len(stored) : stored[n] = events[place[n]]
                 /\ \A n, m \in 1 .. Len(stored) : n < m => place[n] < place[m]
                 /\ \A i \in DOMAIN events : events[i].type \notin {"started", "delta"} =>
                       \E n \in 1 .. Len(stored) : place[n] = i
<1> DEFINE kept == C!Persisted(events)
           count == Cardinality(kept)
           Row == C!StreamEvents \ {C!Event("delta")}
           added == [n \in 1 .. count |-> events[C!Nth(kept, n)]]
           stored == C!Rows(<<Started>>, events)
           place == [n \in 1 .. 1 + count |-> IF n = 1 THEN 1 ELSE C!Nth(kept, n - 1)]
<1>1. /\ events \in Seq(C!StreamEvents) /\ Len(events) \in Nat \ {0}
      /\ DOMAIN events = 1 .. Len(events) /\ events[1].type = "started"
      /\ \A i \in DOMAIN events : events[i] \in C!StreamEvents
  BY DEF C!Accepted
<1>2. events[1] = Started
  BY <1>1 DEF C!StreamEvents, C!ToolEvents, C!Tool, C!Event, Started
<1>3. /\ \A i \in DOMAIN events : i \in kept <=> events[i].type \notin {"started", "delta"}
      /\ kept \subseteq DOMAIN events
  BY DEF C!Persisted, C!Of
<1>4. kept \in SUBSET Nat /\ IsFiniteSet(kept) /\ count \in Nat
  <2>1. IsFiniteSet(DOMAIN events)
    <3>1. Len(events) \in Int /\ DOMAIN events = 1 .. Len(events)
      BY <1>1
    <3>2. IsFiniteSet(1 .. Len(events))
      BY <3>1, FS_Interval
    <3> QED BY <3>1, <3>2
  <2>2. IsFiniteSet(kept)
    BY <1>3, <2>1, FS_Subset
  <2> QED BY <1>1, <1>3, <2>2, FS_CardinalityType
<1>5. C!Cardinality(kept) = count
  BY DEF C!Cardinality, Cardinality
<1> HIDE DEF kept, count
<1>6. /\ \A n \in 1 .. count : C!Nth(kept, n) \in kept
      /\ \A n, m \in 1 .. count : n < m => C!Nth(kept, n) < C!Nth(kept, m)
      /\ \A i \in kept : \E n \in 1 .. count : C!Nth(kept, n) = i
  BY <1>4, NthRanked DEF count
<1>7. \A n \in 1 .. count : added[n] = events[C!Nth(kept, n)] /\ added[n] \in Row
  <2>1. \A i \in kept : events[i] \in Row
    BY <1>1, <1>3, EventsDistinct
  <2> QED BY <1>6, <2>1
<1>8. added \in Seq(Row) /\ Len(added) = count
  <2>1. added \in [1 .. count -> Row]
    BY <1>7
  <2> HIDE DEF added, Row
  <2>2. added \in Seq(Row)
    BY <1>4, <2>1, SeqDef
  <2> QED BY <1>4, <2>1, <2>2, LenProperties
<1>9. stored = <<Started>> \o added
  BY <1>5 DEF C!Rows, kept
<1>10. Started \in Row
  <2>1. Started \in C!StreamEvents
    BY DEF C!StreamEvents, Started
  <2> QED BY <2>1, EventsDistinct DEF Started
<1> HIDE DEF added, Row, stored
<1>11. /\ stored \in Seq(Row) /\ Len(stored) = 1 + count
       /\ stored[1] = Started
       /\ \A n \in 2 .. 1 + count : stored[n] = added[n - 1]
  <2>1. <<Started>> \in Seq(Row) /\ Len(<<Started>>) = 1 /\ <<Started>>[1] = Started
    BY <1>10
  <2> DEFINE first == <<Started>>
  <2> HIDE DEF first
  <2>2. first \in Seq(Row) /\ Len(first) = 1 /\ first[1] = Started /\ stored = first \o added
    BY <1>9, <2>1 DEF first
  <2>3. /\ first \o added \in Seq(Row)
        /\ Len(first \o added) = Len(first) + Len(added)
        /\ \A i \in 1 .. Len(first) + Len(added) :
              (first \o added)[i] = IF i <= Len(first) THEN first[i] ELSE added[i - Len(first)]
    BY <1>8, <2>2, ConcatProperties
  <2> QED BY <1>4, <1>8, <2>2, <2>3
<1>12. /\ place[1] = 1
       /\ \A n \in 2 .. 1 + count : place[n] = C!Nth(kept, n - 1) /\ place[n] \in kept
       /\ \A n \in 1 .. count : place[n + 1] = C!Nth(kept, n)
  BY <1>4, <1>6
<1>13. place \in [1 .. 1 + count -> DOMAIN events]
  <2>1. 1 \in DOMAIN events
    BY <1>1
  <2>2. \A n \in 1 .. 1 + count : n = 1 \/ n \in 2 .. 1 + count
    BY <1>4
  <2>3. \A n \in 1 .. 1 + count : (IF n = 1 THEN 1 ELSE C!Nth(kept, n - 1)) \in DOMAIN events
    <3> SUFFICES ASSUME NEW n \in 1 .. 1 + count, n # 1
                 PROVE  C!Nth(kept, n - 1) \in DOMAIN events
      BY <2>1
    <3>1. n - 1 \in 1 .. count
      BY <1>4
    <3> QED BY <1>3, <1>6, <3>1
  <2> QED BY <2>3
<1> HIDE DEF place
<1>14. \A n \in 1 .. 1 + count : stored[n] = events[place[n]]
  BY <1>2, <1>4, <1>7, <1>11, <1>12
<1>15. ASSUME NEW n \in 1 .. 1 + count, NEW m \in 1 .. 1 + count, n < m
       PROVE  place[n] < place[m]
  <2>1. CASE n = 1
    <3>1. place[m] \in kept /\ place[m] \in DOMAIN events
      BY <1>3, <1>4, <1>12, <1>15, <2>1
    <3>2. place[m] # 1
      BY <1>1, <1>3, <3>1
    <3> QED BY <1>1, <1>12, <2>1, <3>1, <3>2
  <2>2. CASE n # 1
    <3>1. n - 1 \in 1 .. count /\ m - 1 \in 1 .. count /\ n - 1 < m - 1
      BY <1>4, <1>15, <2>2
    <3>2. C!Nth(kept, n - 1) < C!Nth(kept, m - 1)
      BY <1>6, <3>1
    <3>3. place[n] = C!Nth(kept, n - 1) /\ place[m] = C!Nth(kept, m - 1)
      BY <1>4, <1>12, <1>15, <2>2
    <3> QED BY <3>2, <3>3
  <2> QED BY <2>1, <2>2
<1>16. ASSUME NEW i \in DOMAIN events, events[i].type \notin {"started", "delta"}
       PROVE  \E n \in 1 .. 1 + count : place[n] = i
  <2>1. PICK n \in 1 .. count : C!Nth(kept, n) = i
    BY <1>3, <1>6, <1>16
  <2>2. n + 1 \in 1 .. 1 + count /\ place[n + 1] = i
    BY <1>4, <1>12, <2>1
  <2> QED BY <2>2
<1> DEFINE Placed(size) ==
              \E p \in [1 .. size -> DOMAIN events] :
                 /\ \A n \in 1 .. size : stored[n] = events[p[n]]
                 /\ \A n, m \in 1 .. size : n < m => p[n] < p[m]
                 /\ \A i \in DOMAIN events :
                       events[i].type \notin {"started", "delta"} => \E n \in 1 .. size : p[n] = i
<1>17. Placed(1 + count)
  <2> WITNESS place \in [1 .. 1 + count -> DOMAIN events]
  <2> QED BY <1>14, <1>15, <1>16
<1> HIDE DEF Placed
<1>18. /\ stored \in Seq(Row) /\ Len(stored) \in Nat
       /\ Placed(Len(stored))
  BY <1>4, <1>11, <1>17
<1> QED BY <1>18, Zenon DEF Row, stored, Placed

(* It ends once, with its last event, and answers its tools; so do its rows.  *)
LEMMA StreamPersisted ==
    ASSUME CoreIInv, NEW events, C!Project(events)
    PROVE  CoreIInv'
<1> DEFINE end == Len(events)
           stored == coreRun'.rows
           size == Len(stored)
<1>1. C!Accepted(events) /\ coreRun.rows = <<Started>> /\ UNCHANGED script
  BY DEF C!Project, Started
<1>2. coreRun'.status = events[end].type /\ stored = C!Rows(<<Started>>, events)
  BY <1>1 DEF C!Project, C!Last
<1>3. /\ events \in Seq(C!StreamEvents) /\ end \in Nat \ {0} /\ DOMAIN events = 1 .. end
      /\ \A i \in 1 .. end : events[i].type \in C!Terminal <=> i = end
      /\ C!CallsOf(events, "requested") \cap Unpersisted = {}
      /\ C!CallsOf(events, "requested") = C!CallsOf(events, "done")
  BY <1>1 DEF C!Accepted
<1> HIDE DEF end, stored, size
<1>4. stored \in Seq(C!StreamEvents \ {C!Event("delta")}) /\ size \in Nat /\ DOMAIN stored = 1 .. size
  BY <1>1, <1>2, RowsInOrder DEF size
<1>5. PICK place \in [1 .. size -> DOMAIN events] :
          /\ \A n \in 1 .. size : stored[n] = events[place[n]]
          /\ \A n, m \in 1 .. size : n < m => place[n] < place[m]
          /\ \A i \in DOMAIN events : events[i].type \notin {"started", "delta"} => \E n \in 1 .. size : place[n] = i
  BY <1>1, <1>2, RowsInOrder DEF size
<1>6. events[end].type \in C!Terminal /\ end \in DOMAIN events
  <2>1. end \in 1 .. end
    BY <1>3
  <2>2. DOMAIN events = 1 .. end /\ \A i \in 1 .. end : events[i].type \in C!Terminal <=> i = end
    BY <1>3
  <2> QED BY <2>1, <2>2
<1>7. PICK m \in 1 .. size : place[m] = end
  BY <1>5, <1>6 DEF C!Terminal
<1>8. m = size
  <2>1. CASE m < size
    <3>1. size \in 1 .. size /\ place[m] < place[size] /\ place[size] \in 1 .. end
      BY <1>3, <1>4, <1>5, <2>1
    <3> QED BY <1>3, <1>7, <3>1
  <2> QED BY <1>4, <2>1
<1>9. \A n \in 1 .. size : stored[n].type \in C!Terminal <=> n = size
  <2> SUFFICES ASSUME NEW n \in 1 .. size PROVE stored[n].type \in C!Terminal <=> n = size
    OBVIOUS
  <2>1. stored[n] = events[place[n]] /\ place[n] \in 1 .. end
    BY <1>3, <1>5
  <2>2. place[n] = end <=> n = size
    <3>1. n # size => place[n] < place[size]
      BY <1>4, <1>5, <1>7, <1>8
    <3> QED BY <1>3, <1>7, <1>8, <2>1, <3>1
  <2> QED BY <1>3, <2>1, <2>2
<1>10. \A t \in {"requested", "done"} : C!CallsOf(stored, t) = C!CallsOf(events, t)
  <2> SUFFICES ASSUME NEW t \in {"requested", "done"} PROVE C!CallsOf(stored, t) = C!CallsOf(events, t)
    OBVIOUS
  <2>1. \A n \in C!Of(stored, t) : place[n] \in C!Of(events, t) /\ stored[n] = events[place[n]]
    BY <1>4, <1>5 DEF C!Of
  <2>2. \A i \in C!Of(events, t) : \E n \in C!Of(stored, t) : events[i] = stored[n]
    BY <1>4, <1>5 DEF C!Of
  <2> QED BY <2>1, <2>2 DEF C!CallsOf
<1>11. stored[size].type = events[end].type /\ size # 0
  BY <1>4, <1>5, <1>7, <1>8
<1>12. C!TypeOK'
  BY <1>1, <1>2, <1>4, <1>6 DEF CoreIInv, C!TypeOK, stored
<1>13. C!ProjectedOnce'
  <2>1. coreRun'.status # "running"
    BY <1>2, <1>6 DEF C!Terminal
  <2>2. /\ \A n \in DOMAIN stored : stored[n].type \in C!Terminal <=> n = Len(stored)
        /\ C!Last(stored).type = coreRun'.status
        /\ C!CallsOf(stored, "requested") = C!CallsOf(stored, "done")
        /\ C!CallsOf(stored, "requested") \cap Unpersisted = {}
    BY <1>2, <1>3, <1>4, <1>9, <1>10, <1>11 DEF C!Last, size
  <2> QED BY <2>1, <2>2 DEF C!ProjectedOnce, stored
<1> QED BY <1>12, <1>13 DEF CoreIInv

LEMMA CoreStep ==
    ASSUME CoreIInv, C!Next
    PROVE  CoreIInv'
<1>1. ASSUME NEW e \in C!ScriptEvents, C!Write(e) PROVE CoreIInv'
  <2>1. script' = Append(script, e) /\ UNCHANGED coreRun
    BY <1>1 DEF C!Write
  <2> QED BY <2>1 DEF CoreIInv, C!TypeOK, C!ProjectedOnce
<1>2. ASSUME NEW status \in C!Terminal, C!SettleElsewhere(status) PROVE CoreIInv'
  <2>1. coreRun.rows = <<Started>> /\ UNCHANGED script
        /\ coreRun'.status = status /\ coreRun'.rows = Append(<<Started>>, C!Event(status))
    BY <1>2 DEF C!SettleElsewhere, CoreIInv, C!ProjectedOnce, Started
  <2> DEFINE stored == coreRun'.rows
  <2>2. DOMAIN stored = {1, 2} /\ stored[1] = Started /\ stored[2] = C!Event(status)
    BY <2>1
  <2> HIDE DEF stored
  <2>3. stored[1].type = "started" /\ stored[2].type = status
    BY <2>2, EventsDistinct DEF Started
  <2>4. stored \in Seq(C!StreamEvents \ {C!Event("delta")})
    <3>1. {Started, C!Event(status)} \subseteq C!StreamEvents
      BY DEF C!StreamEvents, Started
    <3>2. Started # C!Event("delta") /\ C!Event(status) # C!Event("delta")
      BY EventsDistinct DEF Started, C!Terminal
    <3> DEFINE Row == C!StreamEvents \ {C!Event("delta")}
               first == <<Started>>
    <3>3. C!Event(status) \in Row /\ first \in Seq(Row)
      BY <3>1, <3>2
    <3>4. coreRun'.rows = Append(first, C!Event(status))
      BY <2>1
    <3> HIDE DEF Row, first
    <3>5. coreRun'.rows \in Seq(Row)
      BY <3>3, <3>4, AppendProperties
    <3> QED BY <3>5 DEF stored, Row
  <2>5. C!TypeOK'
    BY <2>1, <2>4 DEF CoreIInv, C!TypeOK, stored
  <2>6. C!CallsOf(stored, "requested") = {} /\ C!CallsOf(stored, "done") = {}
    BY <2>2, <2>3 DEF C!CallsOf, C!Of, C!Terminal
  <2>7. Len(stored) = 2
    BY <2>2, <2>4
  <2>8. /\ \A i \in DOMAIN stored : stored[i].type \in C!Terminal <=> i = Len(stored)
        /\ C!Last(stored).type = status
    BY <2>2, <2>3, <2>7 DEF C!Terminal, C!Last
  <2>9. C!ProjectedOnce'
    BY <2>1, <2>6, <2>8 DEF C!ProjectedOnce, C!Terminal, stored
  <2> QED BY <2>5, <2>9 DEF CoreIInv
<1> QED BY <1>1, <1>2, StreamPersisted DEF C!Next


-------------------------------------------------------------------------------
(* The session repositories.  An adapter: its tables, which events a run has, *)
(* and what a call makes of them.                                             *)
Shaped(a) ==
    /\ DOMAIN a = {"drawn", "sessions", "messages", "runs", "events"}
    /\ a.drawn \in 0 .. MaxDrawn
    /\ DOMAIN a.sessions \subseteq N!Numbers /\ DOMAIN a.messages \subseteq N!Numbers
    /\ DOMAIN a.runs \subseteq N!Numbers /\ DOMAIN a.events \subseteq N!Numbers

Numbered(a, r) ==
    LET count == Cardinality(N!EventsOf(a, r)) IN
    /\ {a.events[e].sequence : e \in N!EventsOf(a, r)} = 1 .. count
    /\ a.runs[r].settled \in {Nothing, count}

Adapter(a) ==
    /\ Shaped(a)
    /\ \A r \in DOMAIN a.runs :
          /\ DOMAIN a.runs[r] = {"session", "settled"}
          /\ Numbered(a, r)
          /\ a.runs[r].session \in DOMAIN a.sessions
    /\ \A e \in DOMAIN a.events : a.events[e].run \in DOMAIN a.runs

LEMMA Drawn ==
    ASSUME NEW a, Shaped(a), a.drawn < MaxDrawn
    PROVE  /\ a.drawn + 1 \in N!Numbers /\ a.drawn + 1 \in 0 .. MaxDrawn
BY RepositoryAssumption DEF Shaped, N!Numbers

LEMMA Rowed ==
    ASSUME NEW stored, DOMAIN stored \subseteq N!Numbers, NEW id \in N!Numbers, NEW row,
           NEW allowed \in BOOLEAN
    PROVE  LET new == N!Inserting(stored, id, row, allowed) IN
           /\ DOMAIN new \subseteq N!Numbers /\ DOMAIN stored \subseteq DOMAIN new
           /\ \A i \in DOMAIN stored : new[i] = stored[i]
           /\ \A i \in DOMAIN new : i \in DOMAIN stored \/ (i = id /\ new[i] = row)
BY DEF N!Inserting, N!With

LEMMA EventsCounted ==
    ASSUME NEW a, Shaped(a), NEW r
    PROVE  /\ IsFiniteSet(N!EventsOf(a, r)) /\ Cardinality(N!EventsOf(a, r)) \in Nat
           /\ N!Cardinality(N!EventsOf(a, r)) = Cardinality(N!EventsOf(a, r))
<1>1. IsFiniteSet(N!Numbers)
  BY RepositoryAssumption, FS_Interval DEF N!Numbers
<1>2. N!EventsOf(a, r) \in SUBSET N!Numbers
  BY DEF N!EventsOf, Shaped
<1>3. IsFiniteSet(N!EventsOf(a, r))
  BY <1>1, <1>2, FS_Subset
<1>4. Cardinality(N!EventsOf(a, r)) \in Nat
  BY <1>3, FS_CardinalityType
<1>5. N!Cardinality(N!EventsOf(a, r)) = Cardinality(N!EventsOf(a, r))
  BY DEF N!Cardinality, Cardinality
<1> QED BY <1>3, <1>4, <1>5

LEMMA RunsKept ==
    ASSUME NEW a, NEW b, Adapter(a), Shaped(b), DOMAIN a.sessions \subseteq DOMAIN b.sessions,
           b.runs = a.runs, b.events = a.events
    PROVE  Adapter(b)
<1>1. \A r : N!EventsOf(b, r) = N!EventsOf(a, r)
  BY DEF N!EventsOf
<1>2. \A r \in DOMAIN b.runs : Numbered(b, r)
  BY <1>1 DEF Adapter, Numbered
<1> QED BY <1>2 DEF Adapter

LEMMA SessionCreated ==
    ASSUME NEW a, Adapter(a), a.drawn < MaxDrawn
    PROVE  Adapter(N!CreateSession(a))
<1> DEFINE table == N!Inserting(a.sessions, a.drawn + 1, "session", TRUE)
           b == [a EXCEPT !.drawn = a.drawn + 1, !.sessions = table]
<1>1. Shaped(a)
  BY DEF Adapter
<1>2. a.drawn + 1 \in N!Numbers /\ a.drawn + 1 \in 0 .. MaxDrawn
  BY <1>1, Drawn
<1>3. DOMAIN table \subseteq N!Numbers /\ DOMAIN a.sessions \subseteq DOMAIN table
  BY <1>1, <1>2, Rowed DEF Shaped
<1>4. N!CreateSession(a) = b
  BY <1>1 DEF N!CreateSession, Shaped
<1> HIDE DEF table
<1>0. b = [a EXCEPT !.drawn = a.drawn + 1, !.sessions = table]
  OBVIOUS
<1> HIDE DEF b
<1>5. Shaped(b) /\ b.sessions = table /\ b.runs = a.runs /\ b.events = a.events
  BY <1>0, <1>1, <1>2, <1>3 DEF Shaped
<1> QED BY <1>3, <1>4, <1>5, RunsKept

LEMMA MessageAppended ==
    ASSUME NEW a, Adapter(a), NEW s, a.drawn < MaxDrawn
    PROVE  Adapter(N!AppendMessage(a, s))
<1> DEFINE table == N!Inserting(a.messages, a.drawn + 1, s, TRUE)
           b == [a EXCEPT !.drawn = a.drawn + 1, !.messages = table]
<1>1. Shaped(a)
  BY DEF Adapter
<1>2. a.drawn + 1 \in N!Numbers /\ a.drawn + 1 \in 0 .. MaxDrawn
  BY <1>1, Drawn
<1>3. DOMAIN table \subseteq N!Numbers
  BY <1>1, <1>2, Rowed DEF Shaped
<1>4. N!AppendMessage(a, s) \in {a, b}
  BY <1>1 DEF N!AppendMessage, Shaped
<1> HIDE DEF table
<1>0. b = [a EXCEPT !.drawn = a.drawn + 1, !.messages = table]
  OBVIOUS
<1> HIDE DEF b
<1>5. Shaped(b) /\ b.sessions = a.sessions /\ b.runs = a.runs /\ b.events = a.events
  BY <1>0, <1>1, <1>2, <1>3 DEF Shaped
<1>6. Adapter(b)
  BY <1>5, RunsKept
<1> QED BY <1>4, <1>6

LEMMA RunBegun ==
    ASSUME NEW a, Adapter(a), NEW s, NEW allowed \in BOOLEAN, a.drawn < MaxDrawn
    PROVE  Adapter(N!BeginRun(a, s, allowed))
<1> DEFINE id == a.drawn + 1
           row == [session |-> s, settled |-> Nothing]
           table == N!Inserting(a.runs, id, row, allowed)
           b == [a EXCEPT !.drawn = id, !.runs = table]
<1> SUFFICES ASSUME s \in DOMAIN a.sessions PROVE Adapter(b)
  BY DEF N!BeginRun, Adapter, Shaped
<1>1. Shaped(a)
  BY DEF Adapter
<1>2. id \in N!Numbers /\ id \in 0 .. MaxDrawn
  BY <1>1, Drawn
<1>3. DOMAIN row = {"session", "settled"} /\ row.session = s /\ row.settled = Nothing
  OBVIOUS
<1> HIDE DEF id, row
<1>4. /\ DOMAIN table \subseteq N!Numbers /\ DOMAIN a.runs \subseteq DOMAIN table
      /\ \A i \in DOMAIN a.runs : table[i] = a.runs[i]
      /\ \A i \in DOMAIN table : i \in DOMAIN a.runs \/ (i = id /\ table[i] = row)
  BY <1>1, <1>2, Rowed DEF Shaped
<1> HIDE DEF table
<1>0. b = [a EXCEPT !.drawn = id, !.runs = table]
  OBVIOUS
<1> HIDE DEF b
<1>5. Shaped(b) /\ b.runs = table /\ b.sessions = a.sessions /\ b.events = a.events
  BY <1>0, <1>1, <1>2, <1>4 DEF Shaped
<1>6. \A r : N!EventsOf(b, r) = N!EventsOf(a, r)
  BY <1>5 DEF N!EventsOf
<1>7. ASSUME NEW r \in DOMAIN b.runs
      PROVE  /\ DOMAIN b.runs[r] = {"session", "settled"}
             /\ Numbered(b, r) /\ b.runs[r].session \in DOMAIN b.sessions
  <2>1. CASE r \in DOMAIN a.runs
    <3>1. b.runs[r] = a.runs[r]
      BY <1>4, <1>5, <2>1
    <3>2. Numbered(b, r)
      BY <1>5, <1>6, <2>1, <3>1 DEF Adapter, Numbered
    <3> QED BY <1>5, <2>1, <3>1, <3>2 DEF Adapter
  <2>2. CASE r \notin DOMAIN a.runs
    <3>1. b.runs[r] = row
      BY <1>4, <1>5, <2>2
    <3>2. N!EventsOf(b, r) = {}
      BY <1>5, <2>2 DEF Adapter, N!EventsOf
    <3>3. Numbered(b, r)
      BY <1>3, <3>1, <3>2, FS_EmptySet DEF Numbered
    <3> QED BY <1>3, <1>5, <3>1, <3>3
  <2> QED BY <2>1, <2>2
<1> QED BY <1>4, <1>5, <1>7 DEF Adapter

LEMMA EventAppended ==
    ASSUME NEW a, Adapter(a), NEW r, a.drawn < MaxDrawn
    PROVE  Adapter(N!AppendRunEvent(a, r))
<1> DEFINE id == a.drawn + 1
           count == Cardinality(N!EventsOf(a, r))
           row == [run |-> r, sequence |-> count + 1]
           table == N!Inserting(a.events, id, row, TRUE)
           b == [a EXCEPT !.drawn = id, !.events = table]
<1>1. Shaped(a)
  BY DEF Adapter
<1>2. id \in N!Numbers /\ id \in 0 .. MaxDrawn
  BY <1>1, Drawn
<1>3. IsFiniteSet(N!EventsOf(a, r)) /\ count \in Nat /\ N!Cardinality(N!EventsOf(a, r)) = count
  BY <1>1, EventsCounted
<1> HIDE DEF count
<1> SUFFICES ASSUME r \in DOMAIN a.runs, a.runs[r].settled = Nothing PROVE Adapter(b)
  BY <1>3 DEF N!AppendRunEvent, N!Open, Shaped
<1>4. row.run = r /\ row.sequence = count + 1
  OBVIOUS
<1> HIDE DEF id, row
<1>5. /\ DOMAIN table \subseteq N!Numbers /\ DOMAIN a.events \subseteq DOMAIN table
      /\ \A i \in DOMAIN a.events : table[i] = a.events[i]
      /\ \A i \in DOMAIN table : i \in DOMAIN a.events \/ (i = id /\ table[i] = row)
  BY <1>1, <1>2, Rowed DEF Shaped
<1> HIDE DEF table
<1>0. b = [a EXCEPT !.drawn = id, !.events = table]
  OBVIOUS
<1> HIDE DEF b
<1>6. Shaped(b) /\ b.events = table /\ b.sessions = a.sessions /\ b.runs = a.runs
  BY <1>0, <1>1, <1>2, <1>5 DEF Shaped
<1>7. ASSUME NEW q \in DOMAIN a.runs, q # r PROVE Numbered(b, q)
  <2>1. N!EventsOf(b, q) = N!EventsOf(a, q)
    BY <1>4, <1>5, <1>6, <1>7 DEF N!EventsOf
  <2>2. \A e \in N!EventsOf(a, q) : b.events[e].sequence = a.events[e].sequence
    BY <1>5, <1>6 DEF N!EventsOf
  <2> QED BY <1>6, <2>1, <2>2 DEF Adapter, Numbered
<1>8. Numbered(b, r)
  <2>1. CASE DOMAIN table = DOMAIN a.events
    <3>1. N!EventsOf(b, r) = N!EventsOf(a, r)
      BY <1>5, <1>6, <2>1 DEF N!EventsOf
    <3>2. \A e \in N!EventsOf(a, r) : b.events[e].sequence = a.events[e].sequence
      BY <1>5, <1>6 DEF N!EventsOf
    <3> QED BY <1>6, <3>1, <3>2 DEF Adapter, Numbered
  <2>2. CASE DOMAIN table # DOMAIN a.events
    <3>1. id \in DOMAIN table /\ id \notin DOMAIN a.events /\ table[id] = row
      BY <1>5, <2>2
    <3>2. N!EventsOf(b, r) = N!EventsOf(a, r) \cup {id} /\ id \notin N!EventsOf(a, r)
      BY <1>4, <1>5, <1>6, <3>1 DEF N!EventsOf
    <3>3. Cardinality(N!EventsOf(b, r)) = count + 1
      BY <1>3, <3>2, FS_AddElement DEF count
    <3>4. \A e \in N!EventsOf(a, r) : b.events[e].sequence = a.events[e].sequence
      BY <1>5, <1>6 DEF N!EventsOf
    <3>5. {a.events[e].sequence : e \in N!EventsOf(a, r)} = 1 .. count
      BY DEF Adapter, Numbered, count
    <3>6. {b.events[e].sequence : e \in N!EventsOf(b, r)} = (1 .. count) \cup {count + 1}
      BY <1>4, <1>6, <3>1, <3>2, <3>4, <3>5
    <3>7. (1 .. count) \cup {count + 1} = 1 .. count + 1
      BY <1>3
    <3> QED BY <1>6, <3>3, <3>6, <3>7 DEF Numbered
  <2> QED BY <2>1, <2>2
<1>9. \A e \in DOMAIN b.events : b.events[e].run \in DOMAIN b.runs
  BY <1>4, <1>5, <1>6 DEF Adapter
<1> QED BY <1>6, <1>7, <1>8, <1>9 DEF Adapter


LEMMA RunSettled ==
    ASSUME NEW a, Adapter(a), NEW r, NEW allowed \in BOOLEAN
    PROVE  Adapter(N!SettleRun(a, r, allowed))
<1> DEFINE count == Cardinality(N!EventsOf(a, r))
           b == [a EXCEPT !.runs[r].settled = count]
<1>1. Shaped(a)
  BY DEF Adapter
<1>2. N!Cardinality(N!EventsOf(a, r)) = count
  BY <1>1, EventsCounted
<1> SUFFICES ASSUME r \in DOMAIN a.runs PROVE Adapter(b)
  BY <1>2 DEF N!SettleRun, N!Open
<1> HIDE DEF count
<1>3. /\ DOMAIN b = DOMAIN a /\ b.drawn = a.drawn
      /\ b.sessions = a.sessions /\ b.messages = a.messages /\ b.events = a.events
      /\ DOMAIN b.runs = DOMAIN a.runs
      /\ \A q \in DOMAIN a.runs : q # r => b.runs[q] = a.runs[q]
      /\ b.runs[r] = [a.runs[r] EXCEPT !.settled = count]
  BY <1>1 DEF Shaped
<1> HIDE DEF b
<1>4. DOMAIN b.runs[r] = {"session", "settled"} /\ b.runs[r].settled = count
      /\ b.runs[r].session = a.runs[r].session
  BY <1>3 DEF Adapter
<1>5. Shaped(b)
  BY <1>1, <1>3 DEF Shaped
<1>6. \A q : N!EventsOf(b, q) = N!EventsOf(a, q)
  BY <1>3 DEF N!EventsOf
<1>7. ASSUME NEW q \in DOMAIN b.runs
      PROVE  /\ DOMAIN b.runs[q] = {"session", "settled"}
             /\ Numbered(b, q) /\ b.runs[q].session \in DOMAIN b.sessions
  <2>1. CASE q = r
    <3>1. Numbered(b, q)
      BY <1>3, <1>4, <1>6, <2>1 DEF Adapter, Numbered, count
    <3> QED BY <1>3, <1>4, <2>1, <3>1 DEF Adapter
  <2>2. CASE q # r
    <3>1. b.runs[q] = a.runs[q]
      BY <1>3, <2>2
    <3>2. Numbered(b, q)
      BY <1>3, <1>6, <3>1 DEF Adapter, Numbered
    <3> QED BY <1>3, <3>1, <3>2 DEF Adapter
  <2> QED BY <2>1, <2>2
<1>8. \A e \in DOMAIN b.events : b.events[e].run \in DOMAIN b.runs
  BY <1>3 DEF Adapter
<1> QED BY <1>5, <1>7, <1>8 DEF Adapter

RepositoryIInv ==
    /\ Adapter(memory) /\ Adapter(file)
    /\ odd \subseteq {"message", "error", "reopened"}
    /\ N!AdaptersAgree

LEMMA RepositoryInit ==
    ASSUME N!Init PROVE RepositoryIInv
<1>1. /\ DOMAIN N!Empty = {"drawn", "sessions", "messages", "runs", "events"}
      /\ N!Empty.drawn = 0
      /\ DOMAIN N!Empty.sessions = {} /\ DOMAIN N!Empty.messages = {}
      /\ DOMAIN N!Empty.runs = {} /\ DOMAIN N!Empty.events = {}
  BY DEF N!Empty
<1>2. Adapter(N!Empty)
  BY <1>1, RepositoryAssumption DEF Adapter, Shaped
<1> QED BY <1>2 DEF N!Init, RepositoryIInv, N!AdaptersAgree

LEMMA RepositoryStep ==
    ASSUME RepositoryIInv, N!Next
    PROVE  RepositoryIInv'
<1> USE DEF RepositoryIInv
<1>1. N!MayDraw => memory.drawn < MaxDrawn /\ file.drawn < MaxDrawn
  BY RepositoryAssumption DEF N!MayDraw, Adapter, Shaped
<1>2. ASSUME N!MayDraw,
             memory' = N!CreateSession(memory), file' = N!CreateSession(file), UNCHANGED odd
      PROVE  RepositoryIInv'
  <2>1. Adapter(N!CreateSession(memory)) /\ Adapter(N!CreateSession(file))
    BY <1>1, <1>2, SessionCreated
  <2> QED BY <1>2, <2>1 DEF N!AdaptersAgree
<1>3. ASSUME N!MayDraw, NEW s,
             memory' = N!AppendMessage(memory, s), file' = N!AppendMessage(file, s), UNCHANGED odd
      PROVE  RepositoryIInv'
  <2>1. Adapter(N!AppendMessage(memory, s)) /\ Adapter(N!AppendMessage(file, s))
    BY <1>1, <1>3, MessageAppended
  <2> QED BY <1>3, <2>1 DEF N!AdaptersAgree
<1>4. ASSUME N!MayDraw, NEW s, NEW m,
             memory' = N!BeginRun(memory, s, TRUE),
             file' = N!BeginRun(file, s, m \in DOMAIN file.messages),
             odd' = IF m \in DOMAIN memory.messages THEN odd ELSE odd \cup {"message"}
      PROVE  RepositoryIInv'
  <2> DEFINE allowed == m \in DOMAIN file.messages
  <2>1. Adapter(N!BeginRun(memory, s, TRUE)) /\ Adapter(N!BeginRun(file, s, allowed))
    <3>1. allowed \in BOOLEAN
      OBVIOUS
    <3> HIDE DEF allowed
    <3> QED BY <1>1, <1>4, <3>1, RunBegun
  <2>2. CASE odd' = {}
    <3>1. odd = {} /\ m \in DOMAIN memory.messages
      BY <1>4, <2>2
    <3>2. memory = file
      BY <3>1 DEF N!AdaptersAgree
    <3>3. allowed = TRUE
      BY <3>1, <3>2
    <3>4. memory' = file'
      BY <1>4, <3>2, <3>3
    <3> QED BY <1>4, <2>1, <3>4 DEF N!AdaptersAgree
  <2>3. CASE odd' # {}
    BY <1>4, <2>1, <2>3 DEF N!AdaptersAgree
  <2> QED BY <2>2, <2>3
<1>5. ASSUME N!MayDraw, NEW r,
             memory' = N!AppendRunEvent(memory, r), file' = N!AppendRunEvent(file, r), UNCHANGED odd
      PROVE  RepositoryIInv'
  <2>1. Adapter(N!AppendRunEvent(memory, r)) /\ Adapter(N!AppendRunEvent(file, r))
    BY <1>1, <1>5, EventAppended
  <2> QED BY <1>5, <2>1 DEF N!AdaptersAgree
<1>6. ASSUME NEW r, NEW blank \in BOOLEAN,
             memory' = N!SettleRun(memory, r, TRUE), file' = N!SettleRun(file, r, ~ blank),
             odd' = IF blank THEN odd \cup {"error"} ELSE odd
      PROVE  RepositoryIInv'
  <2>1. Adapter(N!SettleRun(memory, r, TRUE)) /\ Adapter(N!SettleRun(file, r, ~ blank))
    BY RunSettled
  <2>2. CASE blank
    BY <1>6, <2>1, <2>2 DEF N!AdaptersAgree
  <2>3. CASE ~ blank
    <3>1. (~ blank) = TRUE
      BY <2>3
    <3> QED BY <1>6, <2>1, <2>3, <3>1 DEF N!AdaptersAgree
  <2> QED BY <2>2, <2>3
<1>7. ASSUME N!Reopen PROVE RepositoryIInv'
  <2>1. memory' = N!Empty /\ file' = [file EXCEPT !.drawn = 0] /\ odd' = odd \cup {"reopened"}
    BY <1>7 DEF N!Reopen
  <2>2. /\ DOMAIN file' = DOMAIN file /\ file'.drawn = 0
        /\ file'.sessions = file.sessions /\ file'.messages = file.messages
        /\ file'.runs = file.runs /\ file'.events = file.events
    BY <2>1 DEF Adapter, Shaped
  <2>3. \E b : b = file'
    OBVIOUS
  <2>4. PICK b : b = file'
    BY <2>3
  <2>5. Shaped(b)
    BY <2>2, <2>4, RepositoryAssumption DEF Adapter, Shaped
  <2>6. Adapter(b)
    BY <2>2, <2>4, <2>5, RunsKept
  <2>7. Adapter(N!Empty)
    <3>1. /\ DOMAIN N!Empty = {"drawn", "sessions", "messages", "runs", "events"}
          /\ N!Empty.drawn = 0
          /\ DOMAIN N!Empty.sessions = {} /\ DOMAIN N!Empty.messages = {}
          /\ DOMAIN N!Empty.runs = {} /\ DOMAIN N!Empty.events = {}
      BY DEF N!Empty
    <3> QED BY <3>1, RepositoryAssumption DEF Adapter, Shaped
  <2>8. Adapter(memory') /\ Adapter(file')
    BY <2>1, <2>4, <2>6, <2>7
  <2>9. odd' # {} /\ odd' \subseteq {"message", "error", "reopened"}
    BY <2>1
  <2> QED BY <2>8, <2>9 DEF N!AdaptersAgree
<1>8. N!Call => RepositoryIInv'
  <2> SUFFICES ASSUME N!Call PROVE RepositoryIInv'
    OBVIOUS
  <2> QED BY <1>2, <1>3, <1>4, <1>5, <1>6 DEF N!Call
<1> QED BY <1>7, <1>8 DEF N!Next

LEMMA RepositoryIInvKept ==
    ASSUME RepositoryIInv
    PROVE  N!TypeOK /\ N!EventsContiguous /\ N!AdaptersAgree
<1>1. ASSUME NEW a \in {memory, file}
      PROVE  /\ a.drawn \in 0 .. MaxDrawn
             /\ \A t \in {"sessions", "messages", "runs", "events"} : DOMAIN a[t] \subseteq N!Numbers
             /\ \A r \in DOMAIN a.runs : LET count == N!Cardinality(N!EventsOf(a, r)) IN
                   /\ {a.events[e].sequence : e \in N!EventsOf(a, r)} = 1 .. count
                   /\ a.runs[r].settled \in {Nothing, count}
                   /\ a.runs[r].session \in DOMAIN a.sessions
  <2>1. Adapter(a) /\ Shaped(a)
    BY DEF RepositoryIInv, Adapter
  <2>2. \A r : N!Cardinality(N!EventsOf(a, r)) = Cardinality(N!EventsOf(a, r))
    BY <2>1, EventsCounted
  <2> QED BY <2>1, <2>2 DEF Adapter, Shaped, Numbered
<1>2. N!TypeOK
  BY <1>1 DEF RepositoryIInv, N!TypeOK
<1>3. N!EventsContiguous
  BY <1>1 DEF N!EventsContiguous
<1> QED BY <1>2, <1>3 DEF RepositoryIInv


-------------------------------------------------------------------------------
(* The learning component: a report counts a prefix of the log, which events *)
(* that are appended leave as it is.                                          *)
LEMMA PrefixKept ==
    ASSUME NEW S, NEW s \in Seq(S), NEW e \in S, NEW k \in 0 .. Len(s)
    PROVE  SubSeq(Append(s, e), 1, k) = SubSeq(s, 1, k)
<1> DEFINE t == Append(s, e)
<1>1. /\ t \in Seq(S) /\ Len(t) = Len(s) + 1
      /\ \A i \in 1 .. Len(s) : t[i] = s[i]
  BY AppendProperties
<1>2. Len(s) \in Nat /\ \A i \in 1 .. Len(s) : s[i] \in S
  BY LenProperties, ElementOfSeq
<1> HIDE DEF t
<1>3. (\A i \in 1 .. k : s[i] \in S) /\ (\A i \in 1 .. k : t[i] \in S) /\ k \in Int
      /\ \A i \in 1 .. k : t[i] = s[i]
  BY <1>1, <1>2
<1>4. /\ SubSeq(s, 1, k) \in Seq(S) /\ Len(SubSeq(s, 1, k)) = k
      /\ \A i \in 1 .. k : SubSeq(s, 1, k)[i] = s[i]
  BY <1>3, SubSeqProperties
<1>5. /\ SubSeq(t, 1, k) \in Seq(S) /\ Len(SubSeq(t, 1, k)) = k
      /\ \A i \in 1 .. k : SubSeq(t, 1, k)[i] = t[i]
  BY <1>3, SubSeqProperties
<1>6. SubSeq(t, 1, k) = SubSeq(s, 1, k)
  BY <1>3, <1>4, <1>5, SeqEqual
<1> QED BY <1>6 DEF t

LEMMA CompletedUnits ==
    ASSUME NEW s \in Seq(O!Entry)
    PROVE  /\ O!Completed(s) \subseteq Units /\ IsFiniteSet(O!Completed(s))
           /\ O!Cardinality(O!Completed(s)) \in 0 .. O!Cardinality(Units)
<1>1. \A i \in DOMAIN s : s[i] \in O!Entry
  BY LenProperties, ElementOfSeq
<1>2. \A e \in O!Entry : e.kind = "unit_completed" => e.unit \in Units
  BY DEF O!Entry
<1>3. O!Completed(s) \subseteq Units
  BY <1>1, <1>2 DEF O!Completed
<1>4. /\ IsFiniteSet(O!Completed(s))
      /\ Cardinality(O!Completed(s)) <= Cardinality(Units)
      /\ Cardinality(O!Completed(s)) \in Nat /\ Cardinality(Units) \in Nat
  BY <1>3, ComponentAssumption, FS_Subset, FS_CardinalityType
<1>5. \A X : O!Cardinality(X) = Cardinality(X)
  BY DEF O!Cardinality, Cardinality
<1> QED BY <1>3, <1>4, <1>5

LearningIInv ==
    /\ candidate \in [Plans -> Pupils \cup {Nothing}]
    /\ planOfOne \in [Pupils -> Plans \cup {Nothing}]
    /\ log \in [Plans -> Seq(O!Entry)] /\ \A p \in Plans : Len(log[p]) <= MaxLog
    /\ snapshot \in [Plans -> O!Report \cup {Nothing}]
    /\ O!ReportsDerived

LEMMA LearningInit ==
    ASSUME O!Init PROVE LearningIInv
<1>1. <<>> \in Seq(O!Entry) /\ Len(<<>>) = 0
  BY EmptySeq
<1>2. MaxLog \in Nat
  BY ComponentAssumption
<1>3. \A p \in Plans : log[p] = <<>> /\ snapshot[p] = Nothing
  BY DEF O!Init
<1>4. O!ReportsDerived
  BY <1>3 DEF O!ReportsDerived
<1> QED BY <1>1, <1>2, <1>3, <1>4 DEF O!Init, LearningIInv

LEMMA LearningStep ==
    ASSUME LearningIInv, O!LearningNext
    PROVE  LearningIInv'
<1>1. ASSUME NEW p \in Plans, NEW l \in Pupils, O!ComposePlanCandidate(p, l)
      PROVE  LearningIInv'
  <2>1. /\ candidate[p] = Nothing /\ candidate' = [candidate EXCEPT ![p] = l]
        /\ UNCHANGED <<planOfOne, log, snapshot>>
    BY <1>1 DEF O!ComposePlanCandidate
  <2>2. \A q \in Plans : O!Active(q) => O!Active(q)'
    BY <2>1 DEF LearningIInv, O!Active
  <2>3. O!ReportsDerived'
    BY <2>1, <2>2 DEF LearningIInv, O!ReportsDerived
  <2> QED BY <2>1, <2>3 DEF LearningIInv
<1>2. ASSUME NEW p \in Plans, O!ConfirmPlan(p)
      PROVE  LearningIInv'
  <2>1. /\ candidate[p] # Nothing /\ planOfOne[candidate[p]] = Nothing
        /\ planOfOne' = [planOfOne EXCEPT ![candidate[p]] = p]
        /\ UNCHANGED <<candidate, log, snapshot>>
    BY <1>2 DEF O!ConfirmPlan
  <2>2. \A q \in Plans : candidate[q] # Nothing => candidate[q] \in Pupils
    BY DEF LearningIInv
  <2>3. Nothing \notin Plans
    BY ComponentAssumption
  <2>4. \A q \in Plans : O!Active(q) => O!Active(q)'
    BY <2>1, <2>2, <2>3 DEF LearningIInv, O!Active
  <2>5. O!ReportsDerived'
    BY <2>1, <2>4 DEF LearningIInv, O!ReportsDerived
  <2> QED BY <2>1, <2>2, <2>5 DEF LearningIInv
<1>3. ASSUME NEW p \in Plans, NEW e \in O!Entry, O!RecordLearningEvent(p, e)
      PROVE  LearningIInv'
  <2>1. /\ O!Active(p) /\ Len(log[p]) < MaxLog
        /\ log' = [log EXCEPT ![p] = Append(log[p], e)]
        /\ UNCHANGED <<candidate, planOfOne, snapshot>>
    BY <1>3 DEF O!RecordLearningEvent
  <2>2. log[p] \in Seq(O!Entry) /\ Len(log[p]) \in Nat /\ DOMAIN log = Plans
    BY LenProperties DEF LearningIInv
  <2>3. Append(log[p], e) \in Seq(O!Entry) /\ Len(Append(log[p], e)) = Len(log[p]) + 1
    BY <2>2, AppendProperties
  <2>4. /\ log'[p] = Append(log[p], e)
        /\ \A q \in Plans : q # p => log'[q] = log[q]
    BY <2>1, <2>2
  <2>5. log' \in [Plans -> Seq(O!Entry)]
    BY <2>1, <2>2, <2>3 DEF LearningIInv
  <2>6. \A q \in Plans : Len(log'[q]) <= MaxLog
    BY <2>1, <2>2, <2>3, <2>4, ComponentAssumption DEF LearningIInv
  <2>7. \A q \in Plans : O!Active(q)' <=> O!Active(q)
    BY <2>1 DEF O!Active
  <2>8. ASSUME snapshot[p] # Nothing
        PROVE  /\ snapshot[p].from <= Len(log'[p])
               /\ SubSeq(log'[p], 1, snapshot[p].from) = SubSeq(log[p], 1, snapshot[p].from)
    <3>1. snapshot[p].from \in Nat
      BY <2>8 DEF LearningIInv, O!Report
    <3>2. snapshot[p].from \in 0 .. Len(log[p])
      BY <2>2, <2>8, <3>1 DEF LearningIInv, O!ReportsDerived
    <3>3. SubSeq(Append(log[p], e), 1, snapshot[p].from) = SubSeq(log[p], 1, snapshot[p].from)
      BY <2>2, <3>2, PrefixKept
    <3> QED BY <2>2, <2>3, <2>4, <3>2, <3>3
  <2>9. O!ReportsDerived'
    <3>1. ASSUME NEW q \in Plans, q # p
          PROVE  /\ ~ O!Active(q)' => log'[q] = <<>> /\ snapshot'[q] = Nothing
                 /\ snapshot'[q] # Nothing =>
                       /\ snapshot'[q].from <= Len(log'[q])
                       /\ snapshot'[q].completed
                            = O!Cardinality(O!Completed(SubSeq(log'[q], 1, snapshot'[q].from)))
      BY <2>1, <2>4, <2>7, <3>1 DEF LearningIInv, O!ReportsDerived
    <3>2. /\ ~ O!Active(p)' => log'[p] = <<>> /\ snapshot'[p] = Nothing
          /\ snapshot'[p] # Nothing =>
                /\ snapshot'[p].from <= Len(log'[p])
                /\ snapshot'[p].completed
                     = O!Cardinality(O!Completed(SubSeq(log'[p], 1, snapshot'[p].from)))
      BY <2>1, <2>7, <2>8 DEF LearningIInv, O!ReportsDerived
    <3> QED BY <3>1, <3>2 DEF O!ReportsDerived
  <2> QED BY <2>1, <2>5, <2>6, <2>9 DEF LearningIInv
<1>4. ASSUME NEW p \in Plans, O!SnapshotReport(p)
      PROVE  LearningIInv'
  <2> DEFINE from == Len(log[p])
             completed == O!Cardinality(O!Completed(log[p]))
             report == [from |-> from, completed |-> completed, total |-> O!Cardinality(Units)]
  <2>1. /\ O!Active(p) /\ snapshot[p] = Nothing /\ snapshot' = [snapshot EXCEPT ![p] = report]
        /\ UNCHANGED <<candidate, planOfOne, log>>
    BY <1>4 DEF O!SnapshotReport
  <2>2. log[p] \in Seq(O!Entry) /\ DOMAIN snapshot = Plans
    BY DEF LearningIInv
  <2>3. from \in Nat /\ from \in 0 .. MaxLog
    BY <2>2, LenProperties, ComponentAssumption DEF LearningIInv
  <2>4. completed \in 0 .. O!Cardinality(Units)
    BY <2>2, CompletedUnits
  <2>5. SubSeq(log[p], 1, from) = log[p]
    BY <2>2, SubSeqFull
  <2>6. report.from = from /\ report.completed = completed
    OBVIOUS
  <2>7. report \in O!Report
    BY <2>3, <2>4 DEF O!Report
  <2> HIDE DEF report
  <2>8. snapshot'[p] = report /\ \A q \in Plans : q # p => snapshot'[q] = snapshot[q]
    BY <2>1, <2>2
  <2>9. snapshot' \in [Plans -> O!Report \cup {Nothing}]
    BY <2>1, <2>2, <2>7 DEF LearningIInv
  <2>10. \A q \in Plans : O!Active(q)' <=> O!Active(q)
    BY <2>1 DEF O!Active
  <2>11. O!ReportsDerived'
    <3>1. ASSUME NEW q \in Plans, q # p
          PROVE  /\ ~ O!Active(q)' => log'[q] = <<>> /\ snapshot'[q] = Nothing
                 /\ snapshot'[q] # Nothing =>
                       /\ snapshot'[q].from <= Len(log'[q])
                       /\ snapshot'[q].completed
                            = O!Cardinality(O!Completed(SubSeq(log'[q], 1, snapshot'[q].from)))
      BY <2>1, <2>8, <2>10, <3>1 DEF LearningIInv, O!ReportsDerived
    <3>2. /\ O!Active(p)'
          /\ snapshot'[p].from <= Len(log'[p])
          /\ snapshot'[p].completed
               = O!Cardinality(O!Completed(SubSeq(log'[p], 1, snapshot'[p].from)))
      <4>1. snapshot'[p].from = from /\ snapshot'[p].completed = completed /\ log' = log
        BY <2>1, <2>6, <2>8
      <4>2. snapshot'[p].from <= Len(log'[p])
        BY <2>3, <4>1
      <4>3. SubSeq(log'[p], 1, snapshot'[p].from) = log[p]
        BY <2>5, <4>1
      <4>4. O!Active(p)'
        BY <2>1, <2>10
      <4> QED BY <4>1, <4>2, <4>3, <4>4
    <3> QED BY <3>1, <3>2 DEF O!ReportsDerived
  <2> QED BY <2>1, <2>9, <2>11 DEF LearningIInv
<1> QED BY <1>1, <1>2, <1>3, <1>4 DEF O!LearningNext


-------------------------------------------------------------------------------
(* The assessment component: the answers of an attempt name every item once,  *)
(* so there are as many answers, and as many marks, as items.                 *)
LEMMA AnswersAreItems ==
    ASSUME NEW answers \in O!Answers, O!Complete(answers)
    PROVE  /\ answers \in [1 .. Cardinality(Items) -> Items \X BOOLEAN]
           /\ Cardinality(Items) \in Nat
<1>1. PICK n \in Nat : answers \in [1 .. n -> Items \X BOOLEAN]
  <2>1. O!Cardinality(Items) \in Nat
    BY ComponentAssumption, FS_CardinalityType DEF O!Cardinality, Cardinality
  <2> QED BY <2>1 DEF O!Answers
<1> DEFINE f == [i \in 1 .. n |-> answers[i][1]]
<1>2. \A i \in 1 .. n : answers[i][1] \in Items
  BY <1>1
<1>3. f \in [1 .. n -> Items]
  BY <1>2
<1>4. \A i, k \in 1 .. n : f[i] = f[k] => i = k
  BY <1>1 DEF O!Complete
<1>5. \A item \in Items : \E i \in 1 .. n : f[i] = item
  BY <1>1 DEF O!Complete
<1> HIDE DEF f
<1>6. f \in Bijection(1 .. n, Items)
  BY <1>3, <1>4, <1>5 DEF Bijection, Injection, Surjection, IsInjective
<1>7. ExistsBijection(1 .. n, Items)
  BY <1>6 DEF ExistsBijection
<1>8. Cardinality(Items) = n
  BY <1>7, FS_CountingElements
<1> QED BY <1>1, <1>8

AssessmentIInv ==
    /\ test \in [Tests -> {"none", "candidate", "published"}]
    /\ attempt \in [Tests -> [Pupils -> O!Answers \cup {Nothing}]]
    /\ DOMAIN marks = Tests /\ \A a \in Tests : DOMAIN marks[a] = Pupils
    /\ \A a \in Tests, l \in Pupils :
          /\ attempt[a][l] # Nothing => test[a] = "published" /\ O!Complete(attempt[a][l])
          /\ attempt[a][l] = Nothing => marks[a][l] = Nothing
          /\ marks[a][l] # Nothing =>
                \A i \in DOMAIN marks[a][l] :
                   marks[a][l][i].by \in {"deterministic", "pending-review"}
    /\ reviews \subseteq Tests \X Pupils \X Items
    /\ O!GradesWhole

LEMMA AssessmentInit ==
    ASSUME O!Init PROVE AssessmentIInv
<1>1. \A a \in Tests, l \in Pupils : attempt[a][l] = Nothing /\ marks[a][l] = Nothing
  BY DEF O!Init
<1>2. O!GradesWhole
  BY <1>1 DEF O!Init, O!GradesWhole
<1> QED BY <1>1, <1>2 DEF O!Init, AssessmentIInv

LEMMA Graded ==
    ASSUME NEW answers \in O!Answers, O!Complete(answers), NEW marked,
           marked = [i \in DOMAIN answers |->
             LET item == answers[i][1] IN
             [item |-> item,
              by |-> IF item \in Free THEN "pending-review" ELSE "deterministic",
              correct |-> item \notin Free /\ O!Right(answers, item)]]
    PROVE  /\ {marked[i].item : i \in DOMAIN marked} = Items
           /\ Len(marked) = Cardinality(Items)
           /\ \A i \in DOMAIN marked :
                 /\ marked[i].by \in {"deterministic", "pending-review"}
                 /\ marked[i].by = "deterministic" <=> marked[i].item \notin Free
                 /\ marked[i].by = "deterministic" =>
                       marked[i].correct = O!Right(answers, marked[i].item)
<1> DEFINE n == Cardinality(Items)
<1>1. answers \in [1 .. n -> Items \X BOOLEAN] /\ n \in Nat
  BY AnswersAreItems
<1> HIDE DEF n
<1>2. DOMAIN marked = 1 .. n /\ \A i \in 1 .. n : marked[i].item = answers[i][1]
  BY <1>1
<1>3. {marked[i].item : i \in DOMAIN marked} = Items
  BY <1>1, <1>2 DEF O!Complete
<1>4. Len(marked) = n
  <2> DEFINE Marks == {marked[i] : i \in 1 .. n}
  <2>1. marked \in [1 .. n -> Marks]
    BY <1>1, <1>2
  <2> HIDE DEF Marks
  <2>2. marked \in Seq(Marks)
    BY <1>1, <2>1, SeqDef
  <2> QED BY <1>1, <1>2, <2>2, LenProperties
<1>5. ASSUME NEW i \in DOMAIN marked
      PROVE  /\ marked[i].by = IF marked[i].item \in Free THEN "pending-review" ELSE "deterministic"
             /\ marked[i].correct = (marked[i].item \notin Free /\ O!Right(answers, marked[i].item))
  BY <1>1, <1>2
<1>6. ASSUME NEW i \in DOMAIN marked
      PROVE  /\ marked[i].by \in {"deterministic", "pending-review"}
             /\ marked[i].by = "deterministic" <=> marked[i].item \notin Free
             /\ marked[i].by = "deterministic" =>
                   marked[i].correct = O!Right(answers, marked[i].item)
  <2>1. CASE marked[i].item \in Free
    BY <1>5, <2>1
  <2>2. CASE marked[i].item \notin Free
    <3>1. (marked[i].item \notin Free /\ O!Right(answers, marked[i].item))
             = O!Right(answers, marked[i].item)
      BY <2>2 DEF O!Right
    <3> QED BY <1>5, <2>2, <3>1
  <2> QED BY <2>1, <2>2
<1> QED BY <1>3, <1>4, <1>6 DEF n


LEMMA AssessmentStep ==
    ASSUME AssessmentIInv, O!AssessmentNext
    PROVE  AssessmentIInv'
<1>1. ASSUME NEW a \in Tests, O!ComposeCandidate(a) \/ O!Publish(a)
      PROVE  AssessmentIInv'
  <2>1. /\ test' \in [Tests -> {"none", "candidate", "published"}]
        /\ \A b \in Tests : test[b] = "published" => test'[b] = "published"
        /\ UNCHANGED <<attempt, marks, reviews>>
    BY <1>1 DEF O!ComposeCandidate, O!Publish, AssessmentIInv
  <2>2. O!GradesWhole'
    BY <2>1 DEF AssessmentIInv, O!GradesWhole
  <2> QED BY <2>1, <2>2 DEF AssessmentIInv
<1>2. ASSUME NEW a \in Tests, NEW l \in Pupils, NEW answers \in O!Answers, O!Submit(a, l, answers)
      PROVE  AssessmentIInv'
  <2>1. /\ test[a] = "published" /\ attempt[a][l] = Nothing /\ O!Complete(answers)
        /\ attempt' = [attempt EXCEPT ![a][l] = answers]
        /\ UNCHANGED <<test, marks, reviews>>
    BY <1>2 DEF O!Submit
  <2>2. marks[a][l] = Nothing
    BY <2>1 DEF AssessmentIInv
  <2>3. answers # Nothing
    BY ComponentAssumption
  <2>4. /\ attempt' \in [Tests -> [Pupils -> O!Answers \cup {Nothing}]]
        /\ attempt'[a][l] = answers
        /\ \A b \in Tests, k \in Pupils : b # a \/ k # l => attempt'[b][k] = attempt[b][k]
    BY <2>1 DEF AssessmentIInv
  <2>5. \A b \in Tests, k \in Pupils : marks[b][k] # Nothing => attempt'[b][k] = attempt[b][k]
    BY <2>2, <2>4
  <2>6. O!GradesWhole'
    BY <2>1, <2>5 DEF AssessmentIInv, O!GradesWhole
  <2>7. \A b \in Tests, k \in Pupils :
          /\ attempt'[b][k] # Nothing => test[b] = "published" /\ O!Complete(attempt'[b][k])
          /\ attempt'[b][k] = Nothing => marks[b][k] = Nothing
    BY <2>1, <2>3, <2>4 DEF AssessmentIInv
  <2> QED BY <2>1, <2>4, <2>6, <2>7 DEF AssessmentIInv
<1>3. ASSUME NEW a \in Tests, NEW l \in Pupils, O!GradeObjective(a, l)
      PROVE  AssessmentIInv'
  <2> DEFINE answers == attempt[a][l]
             marked == [i \in DOMAIN answers |->
                LET item == answers[i][1] IN
                [item |-> item,
                 by |-> IF item \in Free THEN "pending-review" ELSE "deterministic",
                 correct |-> item \notin Free /\ O!Right(answers, item)]]
  <2>1. /\ answers # Nothing /\ marks[a][l] = Nothing
        /\ marks' = [marks EXCEPT ![a][l] = marked]
        /\ UNCHANGED <<test, attempt, reviews>>
    BY <1>3 DEF O!GradeObjective
  <2>2. answers \in O!Answers /\ O!Complete(answers)
    BY <2>1 DEF AssessmentIInv
  <2>3. /\ {marked[i].item : i \in DOMAIN marked} = Items
        /\ Len(marked) = Cardinality(Items)
        /\ \A i \in DOMAIN marked :
              /\ marked[i].by \in {"deterministic", "pending-review"}
              /\ marked[i].by = "deterministic" <=> marked[i].item \notin Free
              /\ marked[i].by = "deterministic" =>
                    marked[i].correct = O!Right(answers, marked[i].item)
    <3>1. marked = [i \in DOMAIN answers |->
                LET item == answers[i][1] IN
                [item |-> item,
                 by |-> IF item \in Free THEN "pending-review" ELSE "deterministic",
                 correct |-> item \notin Free /\ O!Right(answers, item)]]
      OBVIOUS
    <3> HIDE DEF marked, answers
    <3> QED BY <2>2, <3>1, Graded
  <2> HIDE DEF marked
  <2>4. /\ DOMAIN marks' = Tests /\ \A b \in Tests : DOMAIN marks'[b] = Pupils
        /\ marks'[a][l] = marked
        /\ \A b \in Tests, k \in Pupils : b # a \/ k # l => marks'[b][k] = marks[b][k]
    BY <2>1 DEF AssessmentIInv
  <2>5. O!Cardinality(Items) = Cardinality(Items)
    BY DEF O!Cardinality, Cardinality
  <2>6. ASSUME NEW b \in Tests, NEW k \in Pupils, marks'[b][k] # Nothing
        PROVE  /\ {marks'[b][k][i].item : i \in DOMAIN marks'[b][k]} = Items
               /\ Len(marks'[b][k]) = O!Cardinality(Items)
               /\ \A i \in DOMAIN marks'[b][k] :
                     /\ marks'[b][k][i].by \in {"deterministic", "pending-review"}
                     /\ marks'[b][k][i].by = "deterministic" <=> marks'[b][k][i].item \notin Free
                     /\ marks'[b][k][i].by = "deterministic" =>
                           marks'[b][k][i].correct = O!Right(attempt[b][k], marks'[b][k][i].item)
    <3>1. CASE b = a /\ k = l
      BY <2>3, <2>4, <2>5, <3>1
    <3>2. CASE b # a \/ k # l
      BY <2>4, <2>6, <3>2 DEF AssessmentIInv, O!GradesWhole
    <3> QED BY <3>1, <3>2
  <2>7. O!GradesWhole'
    BY <2>1, <2>6 DEF AssessmentIInv, O!GradesWhole
  <2>8. \A b \in Tests, k \in Pupils : attempt[b][k] = Nothing => marks'[b][k] = Nothing
    BY <2>1, <2>4 DEF AssessmentIInv
  <2> QED BY <2>1, <2>4, <2>6, <2>7, <2>8 DEF AssessmentIInv
<1>4. ASSUME NEW a \in Tests, NEW l \in Pupils, NEW item \in Items, O!RequestReview(a, l, item)
      PROVE  AssessmentIInv'
  <2>1. /\ attempt[a][l] # Nothing /\ item \in Free
        /\ reviews' = reviews \cup {<<a, l, item>>}
        /\ UNCHANGED <<test, attempt, marks>>
    BY <1>4 DEF O!RequestReview
  <2>2. test[a] = "published"
    BY <2>1 DEF AssessmentIInv
  <2>3. \A t \in reviews' : t[3] \in Free /\ test[t[1]] = "published"
    BY <2>1, <2>2 DEF AssessmentIInv, O!GradesWhole
  <2>4. O!GradesWhole'
    BY <2>1, <2>3 DEF AssessmentIInv, O!GradesWhole
  <2>5. reviews' \subseteq Tests \X Pupils \X Items
    BY <2>1 DEF AssessmentIInv
  <2> QED BY <2>1, <2>4, <2>5 DEF AssessmentIInv
<1> QED BY <1>1, <1>2, <1>3, <1>4 DEF O!AssessmentNext

LEMMA ComponentTyped ==
    ASSUME LearningIInv, AssessmentIInv
    PROVE  O!TypeOK
BY DEF LearningIInv, AssessmentIInv, O!TypeOK


-------------------------------------------------------------------------------
(* All parts: what a step leaves alone keeps its invariant.                   *)
ComponentIInv == LearningIInv /\ AssessmentIInv

PortsIInv ==
    /\ CoreIInv /\ RepositoryIInv /\ ComponentIInv
    /\ port = "memory queue" => QueueIInv
    /\ port = "sqlite queue" => FileIInv
    /\ port = "postgres queue" => ServerIInv

LEMMA CoreUntouched == ASSUME CoreIInv, UNCHANGED coreVars PROVE CoreIInv'
BY DEF CoreIInv, coreVars, C!TypeOK, C!ProjectedOnce

LEMMA RepositoryUntouched == ASSUME RepositoryIInv, UNCHANGED repositoryVars PROVE RepositoryIInv'
BY DEF RepositoryIInv, repositoryVars, N!AdaptersAgree

LEMMA LearningUntouched ==
    ASSUME LearningIInv, UNCHANGED <<candidate, planOfOne, log, snapshot>>
    PROVE  LearningIInv'
BY DEF LearningIInv, O!ReportsDerived, O!Active

LEMMA AssessmentUntouched ==
    ASSUME AssessmentIInv, UNCHANGED <<test, attempt, marks, reviews>>
    PROVE  AssessmentIInv'
BY DEF AssessmentIInv, O!GradesWhole

LEMMA ComponentUntouched == ASSUME ComponentIInv, UNCHANGED componentVars PROVE ComponentIInv'
BY LearningUntouched, AssessmentUntouched DEF ComponentIInv, componentVars

LEMMA QueuesUntouched ==
    ASSUME UNCHANGED queueVars
    PROVE  /\ QueueIInv => QueueIInv'
           /\ FileIInv => FileIInv'
           /\ ServerIInv => ServerIInv'
<1>1. UNCHANGED <<jobs, ids, sequence, thrown, reopened, queueCall>>
  BY DEF queueVars, fileVars
<1>2. QueueIInv => QueueIInv'
  BY <1>1 DEF QueueIInv, Records, KeysInOrder
<1>3. FileIInv => FileIInv'
  BY <1>1, <1>2 DEF FileIInv, Q!RowsNamed
<1>4. ServerIInv => ServerIInv'
  BY <1>1 DEF ServerIInv, Records
<1> QED BY <1>2, <1>3, <1>4

LEMMA PortsStart == PortsInit => PortsIInv
<1> SUFFICES ASSUME PortsInit PROVE PortsIInv
  OBVIOUS
<1>1. QueueIInv
  BY QueueInit DEF PortsInit, Q!OpenFile
<1>2. ComponentIInv
  BY LearningInit, AssessmentInit DEF PortsInit, ComponentIInv
<1> QED BY <1>1, <1>2, CoreInit, FileInit, ServerStart, RepositoryInit DEF PortsInit, PortsIInv

LEMMA PortsStep ==
    ASSUME PortsIInv, [PortsNext /\ port' = port]_<<portsVars, port>>
    PROVE  PortsIInv'
<1>1. ASSUME UNCHANGED <<portsVars, port>> PROVE PortsIInv'
  <2>1. UNCHANGED coreVars /\ UNCHANGED queueVars /\ UNCHANGED repositoryVars
        /\ UNCHANGED componentVars /\ UNCHANGED port
    BY <1>1 DEF portsVars
  <2>2. CoreIInv' /\ RepositoryIInv' /\ ComponentIInv'
    BY <2>1, CoreUntouched, RepositoryUntouched, ComponentUntouched DEF PortsIInv
  <2>3. /\ QueueIInv => QueueIInv'
        /\ FileIInv => FileIInv'
        /\ ServerIInv => ServerIInv'
    BY <2>1, QueuesUntouched
  <2> QED BY <2>1, <2>2, <2>3 DEF PortsIInv
<1> SUFFICES ASSUME PortsNext, port' = port PROVE PortsIInv'
  BY <1>1
<1>2. ASSUME port = "scripts", C!Next, UNCHANGED <<queueVars, repositoryVars, componentVars>>
      PROVE  PortsIInv'
  BY <1>2, CoreStep, RepositoryUntouched, ComponentUntouched DEF PortsIInv
<1>3. ASSUME \/ port = "memory queue" /\ M!Next /\ UNCHANGED <<fileVars, queueCall>>
             \/ port = "sqlite queue" /\ Q!SqliteNext /\ UNCHANGED queueCall
             \/ port = "postgres queue" /\ B!ServerNext /\ UNCHANGED fileVars,
             UNCHANGED <<coreVars, repositoryVars, componentVars>>
      PROVE  PortsIInv'
  <2>1. CoreIInv' /\ RepositoryIInv' /\ ComponentIInv'
    BY <1>3, CoreUntouched, RepositoryUntouched, ComponentUntouched DEF PortsIInv
  <2>2. CASE port = "memory queue" /\ M!Next
    BY <2>1, <2>2, MemoryQueueStep DEF PortsIInv
  <2>3. CASE port = "sqlite queue" /\ Q!SqliteNext
    BY <2>1, <2>3, FileStep DEF PortsIInv
  <2>4. CASE port = "postgres queue" /\ B!ServerNext
    BY <2>1, <2>4, ServerStep DEF PortsIInv
  <2> QED BY <1>3, <2>2, <2>3, <2>4
<1>4. ASSUME port = "repository", N!Next, UNCHANGED <<coreVars, queueVars, componentVars>>
      PROVE  PortsIInv'
  BY <1>4, CoreUntouched, RepositoryStep, ComponentUntouched DEF PortsIInv
<1>5. ASSUME \/ port = "learning port" /\ O!LearningNext
             \/ port = "assessment port" /\ O!AssessmentNext,
             UNCHANGED <<coreVars, queueVars, repositoryVars>>
      PROVE  PortsIInv'
  <2>1. O!LearningNext => UNCHANGED <<test, attempt, marks, reviews>>
    BY DEF O!LearningNext, O!ComposePlanCandidate, O!ConfirmPlan, O!RecordLearningEvent,
           O!SnapshotReport, O!assessmentVars
  <2>2. O!AssessmentNext => UNCHANGED <<candidate, planOfOne, log, snapshot>>
    BY DEF O!AssessmentNext, O!ComposeCandidate, O!Publish, O!Submit, O!GradeObjective,
           O!RequestReview, O!learningVars
  <2>3. ComponentIInv'
    BY <1>5, <2>1, <2>2, LearningStep, LearningUntouched, AssessmentStep, AssessmentUntouched
       DEF PortsIInv, ComponentIInv
  <2> QED BY <1>5, <2>3, CoreUntouched, RepositoryUntouched DEF PortsIInv
<1> QED BY <1>2, <1>3, <1>4, <1>5 DEF PortsNext

LEMMA PortsInductive == PortsSpec => []PortsIInv
BY PortsStart, PortsStep, PTL DEF PortsSpec

(* Every part keeps its types: the runs of the agent cores, the jobs of the   *)
(* three queues, the tables of the repositories, the plans and the tests.     *)
THEOREM PortsTyped == PortsSpec => []PortsTypeOK
<1>1. PortsIInv => PortsTypeOK
  <2> SUFFICES ASSUME PortsIInv PROVE PortsTypeOK
    OBVIOUS
  <2>1. C!TypeOK /\ N!TypeOK /\ O!TypeOK
    BY RepositoryIInvKept, ComponentTyped DEF PortsIInv, CoreIInv, ComponentIInv
  <2>2. port \in {"memory queue", "sqlite queue"} => M!TypeOK
    BY QueueIInvKept DEF PortsIInv, FileIInv
  <2>3. port = "postgres queue" => B!ServerTypeOK
    BY ServerIInvKept DEF PortsIInv
  <2> QED BY <2>1, <2>2, <2>3 DEF PortsTypeOK
<1> QED BY <1>1, PortsInductive, PTL

(* A stream of an agent core is persisted once and whole: the run's rows are  *)
(* the stream's events without the deltas.                                    *)
THEOREM PersistedOnceHolds == PortsSpec => []PersistedOnce
<1>1. PortsIInv => PersistedOnce
  BY DEF PortsIInv, CoreIInv, PersistedOnce
<1> QED BY <1>1, PortsInductive, PTL

(* No adapter of the job queue gives a job more attempts than it allows or    *)
(* leaves an active one that cannot be recovered; where enqueue is one step a *)
(* key has one live job, whichever ports are called and in whatever order.    *)
THEOREM QueuesKeptHolds == PortsSpec => []QueuesKept
<1>1. PortsIInv => QueuesKept
  BY QueueIInvKept, ServerIInvKept DEF PortsIInv, FileIInv, QueuesKept
<1> QED BY <1>1, PortsInductive, PTL

(* Both session repositories number a run's events without a gap and answer   *)
(* alike as long as nothing odd happened.                                     *)
THEOREM RepositoriesKeptHolds == PortsSpec => []RepositoriesKept
<1>1. PortsIInv => RepositoriesKept
  BY RepositoryIInvKept DEF PortsIInv, RepositoriesKept
<1> QED BY <1>1, PortsInductive, PTL

(* A report counts the events it was made from, and a grade every item once.  *)
THEOREM DerivedKeptHolds == PortsSpec => []DerivedKept
<1>1. PortsIInv => DerivedKept
  BY DEF PortsIInv, ComponentIInv, LearningIInv, AssessmentIInv, DerivedKept
<1> QED BY <1>1, PortsInductive, PTL

(* Every port keeps what it is relied on for.                                 *)
THEOREM PortsKeptHolds == PortsSpec => []PortsKept
<1>1. PersistedOnce /\ QueuesKept /\ RepositoriesKept /\ DerivedKept <=> PortsKept
  BY DEF PortsKept
<1> QED BY <1>1, PersistedOnceHolds, QueuesKeptHolds, RepositoriesKeptHolds, DerivedKeptHolds, PTL


-------------------------------------------------------------------------------
(* What every process does to the file is what the contract allows; only an   *)
(* enqueue after the file was opened again may throw, and it changes no job.  *)
THEOREM ContractKeptHolds == PortsSpec => ContractKept
<1> DEFINE Step == [PortsNext /\ port' = port]_<<portsVars, port>>
           Contract == port = "sqlite queue" =>
                          IF thrown' THEN reopened /\ UNCHANGED jobs ELSE [M!Next]_jobs
<1>1. ASSUME PortsIInv, Step PROVE [Contract]_<<portsVars, port>>
  <2>1. CASE UNCHANGED <<portsVars, port>>
    BY <2>1
  <2>2. ASSUME PortsNext, port = "sqlite queue" PROVE Contract
    <3>1. Q!SqliteNext /\ FileIInv
      BY <1>1, <2>2 DEF PortsNext, PortsIInv
    <3> QED BY <3>1, SqliteStep
  <2> QED BY <1>1, <2>1, <2>2
<1> HIDE DEF Step, Contract
<1>2. PortsSpec => [][Step]_<<portsVars, port>>
  BY PTL DEF PortsSpec, Step
<1>3. PortsSpec => [][Contract]_<<portsVars, port>>
  BY <1>1, <1>2, PortsInductive, PTL
<1> QED BY <1>3 DEF ContractKept, Contract

(* As long as the file is not opened again, the queue over SQLite implements  *)
(* the contract, and none of its calls throws.                                *)
THEOREM SqliteImplementsQueue == Q!OneProcessSpec => M!Spec /\ []~thrown
<1> DEFINE OnceIInv == FileIInv /\ ~ reopened /\ ~ thrown
<1>1. Q!OpenFile => OnceIInv
  BY FileInit DEF Q!OpenFile
<1>2. ASSUME OnceIInv, [Q!Statements]_(Q!rows) PROVE OnceIInv' /\ [M!Next]_jobs
  <2>1. CASE UNCHANGED Q!rows
    BY <1>2, <2>1 DEF Q!rows, FileIInv, QueueIInv, Records, KeysInOrder, Q!RowsNamed
  <2>2. CASE Q!Statements
    <3>1. FileIInv' /\ ~ thrown' /\ [M!Next]_jobs
      BY <1>2, <2>2, FileStep, SqliteStep DEF Q!SqliteNext
    <3>2. UNCHANGED reopened
      BY <2>2 DEF Q!Statements, Q!EnqueueRow, Q!ClaimJob, Q!CompleteJob, Q!FailJob, Q!CancelJob,
                  Q!Pass, Q!RecoverJobs, Q!Update
    <3> QED BY <1>2, <3>1, <3>2
  <2> QED BY <1>2, <2>1, <2>2
<1>3. Q!OpenFile => M!Init
  BY DEF Q!OpenFile, M!Init
<1>4. OnceIInv => ~ thrown
  OBVIOUS
<1> HIDE DEF OnceIInv
<1> QED BY <1>1, <1>2, <1>3, <1>4, PTL DEF Q!OneProcessSpec, M!Spec
=============================================================================
