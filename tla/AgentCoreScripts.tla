--------------------------- MODULE AgentCoreScripts ---------------------------
(***************************************************************************)
(* The two AgentCoreAdapters and the projection of what they report.  A    *)
(* script of events is replayed either as it is (the internal adapter) or  *)
(* through the loop of the Pi library (the Pi adapter), which first        *)
(* compiles it to the turns of an assistant: some text, then some tool     *)
(* calls.  The stream of either is folded into the persisted events of a   *)
(* run, which settles it.                                                  *)
(***************************************************************************)
EXTENDS Naturals, FiniteSets, SequencesExt

CONSTANTS
    ToolCalls,      \* ids of tool calls
    Unpersisted,    \* those of a tool other than knowledge.search and knowledge.read
    MaxScript       \* bounds the events of a script

VARIABLES
    script,     \* the script as far as it is written
    run         \* the row of agent_run and its persisted events

scriptVars == <<script, run>>

Event(t) == [type |-> t]
Tool(t, c) == [type |-> t, call |-> c]

ToolEvents == {Tool(t, c) : t \in {"requested", "done"}, c \in ToolCalls}
ScriptEvents == {Event("delta"), Event("completed"), Event("failed")} \cup ToolEvents

Terminal == {"completed", "failed", "stopped"}

\* What a stream is made of: the tools with their summaries, and text.
StreamEvents == {Event(t) : t \in Terminal \cup {"started", "delta"}} \cup ToolEvents
Of(s, t) == {i \in DOMAIN s : s[i].type = t}
CallsOf(s, t) == {s[i].call : i \in Of(s, t)}

\* validateAgentCoreScript: every tool call is requested once and completed at most
\* once and later, and the last event is the only terminal one.
Valid(s) ==
    /\ Of(s, "completed") \cup Of(s, "failed") = {Len(s)}
    /\ \A i, k \in DOMAIN s : s[i] = s[k] /\ s[i] \in ToolEvents => i = k
    /\ \A i \in Of(s, "done") : \E k \in Of(s, "requested") : k < i /\ s[k].call = s[i].call
    /\ Last(s).type = "completed" => CallsOf(s, "requested") = CallsOf(s, "done")

-----------------------------------------------------------------------------
\* The internal adapter: the signal is looked at before every event.
InternalTrace(s, stop) ==
    IF stop = 0 THEN <<Event("stopped")>>
    ELSE <<Event("started")>> \o
         (IF stop > Len(s) THEN s ELSE SubSeq(s, 1, stop - 1) \o <<Event("stopped")>>)

NoTurn == [text |-> 0, tools |-> <<>>, summaries |-> {}, fails |-> FALSE]

\* compileScriptSegments: one assistant turn after the other.
OnLast(turns, f(_)) == [turns EXCEPT ![Len(turns)] = f(@)]
Opened(turns) == IF turns = <<>> THEN <<NoTurn>> ELSE turns

\* Mutant: the tools of a turn are not put in one.
CompiledFlat(turns, e) ==
    IF e.type = "requested"
       THEN OnLast(Opened(turns), LAMBDA t : [t EXCEPT !.tools = Append(@, e.call),
                                                       !.summaries = @ \cup {e.call}])
       ELSE OnLast(Opened(turns), LAMBDA t : [t EXCEPT !.text = @ + (IF e.type = "delta" THEN 1 ELSE 0)])

Compiled(turns, e) ==
    CASE e.type = "delta" ->
            LET kept == Opened(turns)
                open == IF Last(kept).tools = <<>> THEN kept ELSE Append(kept, NoTurn)
            IN OnLast(open, LAMBDA t : [t EXCEPT !.text = @ + 1])
      [] e.type = "requested" ->
            OnLast(Opened(turns), LAMBDA t : [t EXCEPT !.tools = Append(@, e.call)])
      [] e.type = "done" /\ turns # <<>> /\ e.call \in Range(Last(turns).tools) ->
            OnLast(turns, LAMBDA t : [t EXCEPT !.summaries = @ \cup {e.call}])
      [] e.type = "failed" ->
            OnLast(Opened(turns), LAMBDA t : [t EXCEPT !.fails = TRUE])
      [] OTHER -> turns

\* A turn that ends with tool calls is followed by an empty one.
Closed(turns) ==
    LET kept == Opened(turns) IN
    IF Last(kept).fails \/ Last(kept).tools = <<>> THEN kept ELSE Append(kept, NoTurn)

Segments(s) == Closed(FoldLeft(Compiled, <<>>, s))

\* What the Pi loop reports of a turn: its text; if it fails nothing else, and
\* otherwise its tools, one after the other, with the summary they were given.
Reported(t) ==
    [i \in 1..t.text |-> Event("delta")] \o
    (IF t.fails THEN <<Event("failed")>>
     ELSE FlattenSeq([i \in DOMAIN t.tools |->
             <<Tool("requested", t.tools[i]),
               Tool(IF t.tools[i] \in t.summaries THEN "done" ELSE "blank", t.tools[i])>>])
          \o (IF t.tools = <<>> THEN <<Event("completed")>> ELSE <<>>))

PiTrace(s, stop) ==
    LET all == FlattenSeq([i \in DOMAIN Segments(s) |-> Reported(Segments(s)[i])]) IN
    InternalTrace(all, stop)

-----------------------------------------------------------------------------
\* persistAgentCoreEventProjection refuses a stream that is not well formed, with other
\* events or a blank summary; a run that was stopped or failed inside a tool, too.
Accepted(events) ==
    /\ events \in Seq(StreamEvents) /\ events # <<>>
    /\ events[1].type = "started"
    /\ \A i \in Of(events, "started"), k \in DOMAIN events : k < i => events[k] \notin ToolEvents
    /\ \A i \in DOMAIN events : events[i].type \in Terminal <=> i = Len(events)
    /\ CallsOf(events, "requested") \cap Unpersisted = {}
    /\ CallsOf(events, "requested") = CallsOf(events, "done")
    /\ \A i, k \in DOMAIN events : events[i] = events[k] /\ events[i] \in ToolEvents => i = k
    /\ \A i \in Of(events, "done") :
          \E k \in Of(events, "requested") : k < i /\ events[k].call = events[i].call

\* What is persisted of a stream: everything but its text, and but run.started, which
\* beginAgentSessionRun has inserted.
Persisted(events) == DOMAIN events \ (Of(events, "started") \cup Of(events, "delta"))

\* The nth of the numbers of S.
Nth(S, n) == CHOOSE i \in S : Cardinality({k \in S : k <= i}) = n

\* They follow the rows there are, in the order of the stream.
Rows(rows, events) ==
    LET kept == Persisted(events)
    IN rows \o [n \in 1..Cardinality(kept) |-> events[Nth(kept, n)]]

Init == script = <<>> /\ run = [status |-> "running", rows |-> <<Event("started")>>]

Write(e) ==
    /\ run.status = "running"
    /\ Len(script) < MaxScript
    /\ script' = Append(script, e)
    /\ UNCHANGED run

\* Mutant: the status of the run is not looked at.
ProjectAnyRun(events) ==
    /\ Accepted(events)
    /\ run' = [status |-> Last(events).type, rows |-> Rows(run.rows, events)]
    /\ UNCHANGED script

Project(events) ==
    /\ Accepted(events)
    /\ run.status = "running"
    /\ run.rows = <<Event("started")>>
    /\ run' = [status |-> Last(events).type, rows |-> Rows(run.rows, events)]
    /\ UNCHANGED script

\* The run is stopped or settled by the session's own operations meanwhile.
SettleElsewhere(status) ==
    /\ run.status = "running"
    /\ run' = [status |-> status, rows |-> Append(run.rows, Event(status))]
    /\ UNCHANGED script

Next ==
    \/ \E e \in ScriptEvents : Write(e)
    \/ /\ script # <<>> /\ Valid(script)
       /\ \E stop \in 0..(MaxScript + 2) :
             Project(InternalTrace(script, stop)) \/ Project(PiTrace(script, stop))
    \/ \E status \in Terminal : SettleElsewhere(status)

Spec == Init /\ [][Next]_scriptVars

-----------------------------------------------------------------------------
TypeOK ==
    /\ script \in Seq(ScriptEvents)
    /\ run.status \in Terminal \cup {"running"}
    /\ run.rows \in Seq(StreamEvents \ {Event("delta")})

\* Tools run one at a time, and the script does not fail after one of the last turn.
Sequential(s) ==
    /\ \A i \in Of(s, "requested") :
          i < Len(s) /\ s[i + 1].type = "done" /\ s[i + 1].call = s[i].call
    /\ Last(s).type = "failed" /\ Len(s) > 1 => s[Len(s) - 1].type # "done"

\* The adapters are interchangeable: the Pi loop reports of such a script what the
\* internal adapter does, in the same order.  Of every valid script, whatever it
\* loses, it reports every tool it runs once, and one end.
ReplayAgrees ==
    script # <<>> /\ Valid(script) =>
        LET mine == InternalTrace(script, Len(script) + 1)
            pi == PiTrace(script, 3 * MaxScript)
        IN /\ Sequential(script) => pi = mine
           /\ pi[1].type = "started"
           /\ \A i \in DOMAIN pi : pi[i].type \in Terminal <=> i = Len(pi)
           /\ Last(pi) = Last(mine)
           /\ CallsOf(pi, "requested") \subseteq CallsOf(mine, "requested")
           /\ Cardinality(Of(pi, "requested")) = Cardinality(CallsOf(pi, "requested"))

\* A settled run has one end, which is its last row and its status, and every tool
\* row is answered: a stream is persisted whole, once, and never after another end.
ProjectedOnce ==
    /\ run.status = "running" => run.rows = <<Event("started")>>
    /\ run.status # "running" =>
          /\ \A i \in DOMAIN run.rows : run.rows[i].type \in Terminal <=> i = Len(run.rows)
          /\ Last(run.rows).type = run.status
          /\ CallsOf(run.rows, "requested") = CallsOf(run.rows, "done")
          /\ CallsOf(run.rows, "requested") \cap Unpersisted = {}
=============================================================================
