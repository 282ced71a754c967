----------------------------- MODULE AgentSessions -----------------------------
(***************************************************************************)
(* One agent session of one member: the knowledge contexts bound to it,    *)
(* and the turns (runs) of its conversation.  A turn is a request handler  *)
(* of the web application: it resolves the session's scope, begins a run,  *)
(* lets the agent loop search and answer, and completes or settles the     *)
(* run.  Meanwhile memberships are revoked and granted, bound targets      *)
(* disappear, the client disconnects or asks another process to stop, a    *)
(* statement of the database fails, and the process dies.                  *)
(*                                                                         *)
(* A transaction is one step, except completeAgentSessionRun: it reads the *)
(* bindings and then locks the memberships, and both may change between    *)
(* the two.  While it runs it holds the rows of the run and the session.   *)
(***************************************************************************)
EXTENDS Naturals, Sequences, FiniteSets, SequencesExt

CONSTANTS
    Spaces,       \* knowledge spaces of the organization
    MaxBindings,  \* bounds the rows of agent_context_binding
    Contexts,     \* the contexts a member binds, out of Context
    Turns,        \* requests that ask a question, each with its run id
    Binders,      \* requests that create the session or add a context
    MaxContexts,  \* MAX_CONTEXT_BINDINGS
    MaxFaults     \* bounds the crashes and failing statements

(***************************************************************************)
(* A context is a whole space, or a target in it: a wiki page, a resource  *)
(* version or a course.                                                    *)
(***************************************************************************)
Context == [space : Spaces, whole : BOOLEAN]
ASSUME ContextsAssumption == Contexts \subseteq Context

VARIABLES
    granted,    \* spaces the member may read: enabled in the organization and in the space
    present,    \* spaces whose bound page, resource version or course exists
    session,    \* status of the agent_session row, "none" before it is created
    binding,    \* the agent_context_binding rows
    binder,     \* what a creating or adding request has checked and will insert
    run,        \* the agent_run rows with their agent_run_event rows
    scope,      \* bindings a turn was resolved with
    pc,         \* where the handler of a turn is
    seen,       \* bindings completeAgentSessionRun has found active
    streams,    \* turns in activeStreams of the web process
    aborted,    \* turns whose AbortController was fired
    stopping,   \* turns a stop request has found running
    faults

vars == <<granted, present, session, binding, binder, run, scope, pc, seen,
          streams, aborted, stopping, faults>>
access == <<granted, present>>
rows == <<session, binding, run>>
turn == <<scope, seen, streams, aborted>>

Binding == [context : Contexts, status : {"active", "removed", "revoked"}]
RunStatus == {"none", "running", "completed", "failed", "stopped"}
Event == {"run.started", "tool.requested", "tool.completed",
          "run.completed", "run.failed", "run.stopped"}
Ending == [completed |-> "run.completed", failed |-> "run.failed", stopped |-> "run.stopped"]
NoRun == [status |-> "none", events |-> <<>>, answered |-> FALSE]
Alive == {"resolved", "begun", "working", "completing", "committing", "failing", "cancelling"}
Place == Alive \cup {"idle", "refused", "lost", "done"}

TypeOK ==
    /\ granted \subseteq Spaces /\ present \subseteq Spaces
    /\ session \in {"none", "active", "archived"}
    /\ binding \in Seq(Binding) /\ Len(binding) <= MaxBindings
    /\ binder \in [Binders -> SUBSET Contexts]
    /\ \A t \in Turns : /\ run[t].status \in RunStatus
                        /\ run[t].answered \in BOOLEAN
                        /\ Range(run[t].events) \subseteq Event
    /\ scope \in [Turns -> SUBSET (1..MaxBindings)] /\ seen \in [Turns -> SUBSET (1..MaxBindings)]
    /\ pc \in [Turns -> Place]
    /\ streams \subseteq Turns /\ aborted \subseteq streams /\ stopping \subseteq Turns
    /\ faults \in 0..MaxFaults
    \* A stream is registered only while its handler lives.
    /\ \A t \in streams : pc[t] \in Alive

Init ==
    /\ granted = Spaces /\ present = Spaces /\ session = "none"
    /\ binding = <<>> /\ binder = [o \in Binders |-> {}]
    /\ run = [t \in Turns |-> NoRun]
    /\ scope = [t \in Turns |-> {}] /\ seen = [t \in Turns |-> {}]
    /\ pc = [t \in Turns |-> "idle"]
    /\ streams = {} /\ aborted = {} /\ stopping = {} /\ faults = 0

Bound == DOMAIN binding
Active == {b \in Bound : binding[b].status = "active"}
SpacesOf(bs) == {binding[b].context.space : b \in bs}
Running(t) == run[t].status = "running"
SessionLocked == \E t \in Turns : pc[t] = "committing"

\* A context the member may bind now, and one that can still be used.
Usable(c) == c.space \in granted /\ (c.whole \/ c.space \in present)

\* No binding was removed or revoked and the member may read every bound space.
Readable == Bound = Active /\ SpacesOf(Bound) \subseteq granted

-----------------------------------------------------------------------------
(***************************************************************************)
(* The session and its bindings.  What a request has checked may be stale  *)
(* when it inserts; the unique index only tells targets apart, because the *)
(* target of a whole space is NULL.                                        *)
(***************************************************************************)
CreateCheck(o, contexts) ==
    /\ session = "none" /\ \A p \in Binders : binder[p] = {}
    /\ contexts # {} /\ Cardinality(contexts) <= MaxContexts
    /\ \A c \in contexts : Usable(c)
    /\ binder' = [binder EXCEPT ![o] = contexts]
    /\ UNCHANGED <<access, rows, turn, pc, stopping, faults>>

AddCheck(o, c) ==
    /\ binder[o] = {} /\ session = "active" /\ Usable(c)
    /\ \A b \in Bound : binding[b].context # c
    /\ Cardinality(Active) < MaxContexts
    /\ binder' = [binder EXCEPT ![o] = {c}]
    /\ UNCHANGED <<access, rows, turn, pc, stopping, faults>>

Duplicate(c) == ~c.whole /\ \E b \in Bound : binding[b].context = c

\* The rows inserted refer to the session's row: they wait for its lock.
InsertBindings(o) ==
    /\ binder[o] # {} /\ ~SessionLocked
    /\ Len(binding) + Cardinality(binder[o]) <= MaxBindings
    /\ IF \E c \in binder[o] : Duplicate(c)
       THEN UNCHANGED rows
       ELSE /\ binding' = binding \o SetToSeq([context : binder[o], status : {"active"}])
            /\ session' = IF session = "none" THEN "active" ELSE session
            /\ UNCHANGED run
    /\ binder' = [binder EXCEPT ![o] = {}]
    /\ UNCHANGED <<access, turn, pc, stopping, faults>>

RemoveBinding(b) ==
    /\ b \in Active
    /\ binding' = [binding EXCEPT ![b].status = "removed"]
    /\ UNCHANGED <<access, session, run, turn, binder, pc, stopping, faults>>

UpdateSession ==
    /\ session # "none" /\ ~SessionLocked
    /\ session' = IF session = "active" THEN "archived" ELSE "active"
    /\ UNCHANGED <<access, binding, run, turn, binder, pc, stopping, faults>>

-----------------------------------------------------------------------------
(***************************************************************************)
(* A turn.                                                                 *)
(***************************************************************************)
Goto(t, place) == pc' = [pc EXCEPT ![t] = place]

\* The handler ends and forgets what it had read; its stream is closed.
Leave(t, place) ==
    /\ Goto(t, place)
    /\ scope' = [scope EXCEPT ![t] = {}] /\ seen' = [seen EXCEPT ![t] = {}]
    /\ streams' = streams \ {t} /\ aborted' = aborted \ {t}

\* Contexts that can no longer be used are revoked for good.
Resolve(t) ==
    /\ pc[t] = "idle" /\ session # "none" /\ ~SessionLocked
    /\ IF session = "archived"
       THEN Goto(t, "refused") /\ UNCHANGED <<rows, scope>>
       ELSE LET left == {b \in Active : Usable(binding[b].context)}
            IN  /\ binding' = [b \in Bound |->
                       IF b \in Active \ left
                       THEN [binding[b] EXCEPT !.status = "revoked"] ELSE binding[b]]
                \* Nothing is left, or the managed skill wiki-query is disabled.
                /\ \/ Goto(t, "refused") /\ UNCHANGED scope
                   \/ left # {} /\ Goto(t, "resolved") /\ scope' = [scope EXCEPT ![t] = left]
                /\ UNCHANGED <<session, run>>
    /\ UNCHANGED <<access, seen, streams, aborted, binder, stopping, faults>>

BeginRun(t) ==
    /\ pc[t] = "resolved" /\ ~SessionLocked
    /\ IF session = "active" /\ \A u \in Turns : ~Running(u)
       THEN /\ run' = [run EXCEPT ![t] = [status |-> "running", answered |-> FALSE,
                                          events |-> <<"run.started">>]]
            /\ Goto(t, "begun") /\ UNCHANGED turn
       ELSE Leave(t, "refused") /\ UNCHANGED run
    /\ UNCHANGED <<access, session, binding, binder, stopping, faults>>

\* The routing is recorded before the stream can be aborted.
OpenStream(t) ==
    /\ pc[t] = "begun"
    /\ streams' = streams \cup {t}
    /\ Goto(t, "working")
    /\ UNCHANGED <<access, rows, scope, seen, aborted, binder, stopping, faults>>

\* The routing cannot be recorded: the request fails, the run stays.
RoutingFails(t) ==
    /\ pc[t] = "begun" /\ faults < MaxFaults
    /\ faults' = faults + 1
    /\ Leave(t, "lost")
    /\ UNCHANGED <<access, rows, binder, stopping>>

\* The loop ends with an answer that was streamed while the scope was readable.
Answer(t) ==
    /\ pc[t] = "working" /\ t \notin aborted /\ Readable
    /\ Goto(t, "completing")
    /\ UNCHANGED <<access, rows, turn, binder, stopping, faults>>

\* The model fails, the scope is no longer readable or the client is gone.
Fail(t) ==
    /\ pc[t] = "working"
    /\ Goto(t, "failing")
    /\ UNCHANGED <<access, rows, turn, binder, stopping, faults>>

Cancel(t) ==
    /\ pc[t] = "working" /\ t \in aborted
    /\ Goto(t, "cancelling")
    /\ UNCHANGED <<access, rows, turn, binder, stopping, faults>>

CompleteCheck(t) ==
    /\ pc[t] = "completing" /\ ~SessionLocked
    /\ IF Running(t) /\ Bound = Active
       THEN seen' = [seen EXCEPT ![t] = Bound] /\ Goto(t, "committing")
       ELSE Goto(t, "failing") /\ UNCHANGED seen
    /\ UNCHANGED <<access, rows, scope, streams, aborted, binder, stopping, faults>>

\* The answer, its evidence, the tool calls and the events are written together.
Answered(events) ==
    [status |-> "completed", answered |-> TRUE,
     events |-> events \o <<"tool.requested", "tool.completed", "run.completed">>]

\* Mutant: the memberships are not read again when the answer is stored.
CommitOnBindings(t) ==
    /\ pc[t] = "committing"
    /\ IF scope[t] \subseteq seen[t]
       THEN /\ run' = [run EXCEPT ![t] = Answered(run[t].events)]
            /\ \/ Leave(t, "done")
               \/ Goto(t, "failing") /\ UNCHANGED turn
       ELSE Goto(t, "failing") /\ UNCHANGED <<run, turn>>
    /\ UNCHANGED <<access, session, binding, binder, stopping, faults>>

\* Emitting what was completed may still fail: the run is then settled in vain.
CompleteCommit(t) ==
    /\ pc[t] = "committing"
    /\ IF SpacesOf(seen[t]) \subseteq granted /\ scope[t] \subseteq seen[t]
       THEN /\ run' = [run EXCEPT ![t] = Answered(run[t].events)]
            /\ \/ Leave(t, "done")
               \/ Goto(t, "failing") /\ UNCHANGED turn
       ELSE Goto(t, "failing") /\ UNCHANGED <<run, turn>>
    /\ UNCHANGED <<access, session, binding, binder, stopping, faults>>

\* Mutant: the status read by the caller is not read again under the lock.
SettledBlindly(t, status) ==
    [run EXCEPT ![t].status = status, ![t].events = Append(@, Ending[status])]

Settled(t, status) ==
    IF Running(t)
    THEN [run EXCEPT ![t] = [run[t] EXCEPT !.status = status,
                                     !.events = Append(@, Ending[status])]]
    ELSE run

Settle(t) ==
    /\ pc[t] \in {"failing", "cancelling"} /\ ~SessionLocked
    /\ run' = Settled(t, IF pc[t] = "failing" THEN "failed" ELSE "stopped")
    /\ Leave(t, "done")
    /\ UNCHANGED <<access, session, binding, binder, stopping, faults>>

\* What settling throws is dropped.
SettleFails(t) ==
    /\ pc[t] \in {"failing", "cancelling"} /\ faults < MaxFaults
    /\ faults' = faults + 1
    /\ Leave(t, "lost")
    /\ UNCHANGED <<access, rows, binder, stopping>>

-----------------------------------------------------------------------------
(***************************************************************************)
(* A stop request, or the disconnect of the client: it aborts the stream   *)
(* of this process, reads the run, and settles it.                         *)
(***************************************************************************)
Stop(t) ==
    /\ run[t].status # "none" /\ t \notin stopping
    /\ aborted' = aborted \cup ({t} \cap streams)
    /\ stopping' = IF Running(t) THEN stopping \cup {t} ELSE stopping
    /\ UNCHANGED <<access, rows, scope, seen, streams, binder, pc, faults>>

StopSettle(t) ==
    /\ t \in stopping /\ ~SessionLocked
    /\ run' = Settled(t, "stopped")
    /\ stopping' = stopping \ {t}
    /\ UNCHANGED <<access, session, binding, turn, binder, pc, faults>>

(***************************************************************************)
(* The environment.                                                        *)
(***************************************************************************)
Grant(s) ==
    /\ granted' = granted \cup {s}
    /\ UNCHANGED <<present, rows, turn, binder, pc, stopping, faults>>

Revoke(s) ==
    /\ granted' = granted \ {s}
    /\ UNCHANGED <<present, rows, turn, binder, pc, stopping, faults>>

Vanish(s) ==
    /\ [space |-> s, whole |-> FALSE] \in Contexts
    /\ present' = present \ {s}
    /\ UNCHANGED <<granted, rows, turn, binder, pc, stopping, faults>>

Crash ==
    /\ faults < MaxFaults /\ faults' = faults + 1
    /\ pc' = [t \in Turns |-> IF pc[t] \in Alive THEN "lost" ELSE pc[t]]
    /\ binder' = [o \in Binders |-> {}]
    /\ scope' = [t \in Turns |-> {}] /\ seen' = [t \in Turns |-> {}]
    /\ streams' = {} /\ aborted' = {} /\ stopping' = {}
    /\ UNCHANGED <<access, rows>>

Handle(t) == \/ Resolve(t) \/ BeginRun(t) \/ OpenStream(t) \/ Answer(t) \/ Fail(t) \/ Cancel(t)
             \/ CompleteCheck(t) \/ CompleteCommit(t) \/ Settle(t)

Next ==
    \/ \E o \in Binders, cs \in SUBSET Contexts : CreateCheck(o, cs)
    \/ \E o \in Binders, c \in Contexts : AddCheck(o, c)
    \/ \E o \in Binders : InsertBindings(o)
    \/ \E b \in Bound : RemoveBinding(b)
    \/ UpdateSession
    \/ \E t \in Turns : Handle(t) \/ RoutingFails(t) \/ SettleFails(t)
    \/ \E t \in Turns : Stop(t) \/ StopSettle(t)
    \/ \E s \in Spaces : Grant(s) \/ Revoke(s) \/ Vanish(s)
    \/ Crash

Spec == Init /\ [][Next]_vars

-----------------------------------------------------------------------------
(***************************************************************************)
(* Properties.                                                             *)
(***************************************************************************)
Terminal == {"run.completed", "run.failed", "run.stopped"}

\* A session has at most one running turn, a run is only left running while its
\* handler works on it or was lost with its process or statement, and an answer
\* is stored exactly for a completed run.
OneTurnRuns ==
    /\ \A t, u \in Turns : Running(t) /\ Running(u) => t = u
    /\ \A t \in Turns : Running(t) => pc[t] \in Alive \cup {"lost"}
    /\ \A t \in Turns : run[t].answered <=> run[t].status = "completed"

\* The events of a run tell what became of it -- whichever of completion,
\* failure, stop request and disconnect came first (agent-sessions.ts 1008-1358):
\* they start with run.started and end with the one terminal event of its status
\* once it is settled.
EventsTell ==
    \A t \in Turns : run[t].status # "none" =>
        LET events == run[t].events
        IN  /\ Len(events) > 0 /\ events[1] = "run.started"
            /\ \A i \in 1..Len(events) : events[i] \in Terminal <=> ~Running(t) /\ i = Len(events)
            /\ ~Running(t) => events[Len(events)] = Ending[run[t].status]

RunsConsistent == OneTurnRuns /\ EventsTell

\* A turn only completes while the member may read every space of the scope
\* it was resolved with, however long ago that was (completeAgentSessionRun).
AnswerUnderGrant ==
    [][\A t \in Turns : run[t].answered # run'[t].answered
           => SpacesOf(scope[t]) \subseteq granted]_vars
=============================================================================
