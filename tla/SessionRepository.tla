--------------------------- MODULE SessionRepository ---------------------------
(***************************************************************************)
(* The two adapters of AgentSessionRepository, given the same calls: the   *)
(* in-memory one, which is the reference, and the one of a SQLite file.    *)
(* An adapter numbers its rows with one counter of the process, so opening *)
(* the file again starts at zero: an insert may draw an id its table has.  *)
(***************************************************************************)
EXTENDS Naturals, FiniteSets

CONSTANTS
    MaxDrawn,       \* bounds the ids the first process draws
    MaxReopened,    \* and those of the process after it
    MaxThreads,     \* bounds the sessions, and the messages, of a process
    None

VARIABLES
    memory,     \* the state of the in-memory adapter
    file,       \* the file, and the counter of the process that has it open
    odd         \* what happened that the adapters answer differently

repositoryVars == <<memory, file, odd>>

Unknown == 0
Empty == [drawn |-> 0, sessions |-> <<>>, messages |-> <<>>, runs |-> <<>>, events |-> <<>>]

EventsOf(a, r) == {e \in DOMAIN a.events : a.events[e].run = r}

\* The id is drawn first; a row whose id is taken or whose reference is missing is
\* not inserted.  The maps and arrays of the reference take any row.
With(rows, id, row) == [i \in DOMAIN rows \cup {id} |-> IF i = id THEN row ELSE rows[i]]
Inserting(rows, id, row, allowed) ==
    IF allowed /\ id \notin DOMAIN rows THEN With(rows, id, row) ELSE rows

CreateSession(a) ==
    [a EXCEPT !.drawn = @ + 1,
              !.sessions = Inserting(@, a.drawn + 1, "session", TRUE)]

AppendMessage(a, s) ==
    IF s \in DOMAIN a.sessions
       THEN [a EXCEPT !.drawn = @ + 1, !.messages = Inserting(@, a.drawn + 1, s, TRUE)]
       ELSE a

\* Only the file looks at the message.
BeginRun(a, s, allowed) ==
    IF s \in DOMAIN a.sessions
       THEN [a EXCEPT !.drawn = @ + 1,
                      !.runs = Inserting(@, a.drawn + 1, [session |-> s, settled |-> None], allowed)]
       ELSE a

Open(a, r) == r \in DOMAIN a.runs /\ a.runs[r].settled = None

\* Mutant: the sequence counts the events of every run.
AppendRunEventOfAll(a, r) ==
    IF Open(a, r)
       THEN [a EXCEPT !.drawn = @ + 1,
                      !.events = Inserting(@, a.drawn + 1,
                          [run |-> r, sequence |-> Cardinality(DOMAIN a.events) + 1], TRUE)]
       ELSE a

AppendRunEvent(a, r) ==
    IF Open(a, r)
       THEN [a EXCEPT !.drawn = @ + 1,
                      !.events = Inserting(@, a.drawn + 1,
                          [run |-> r, sequence |-> Cardinality(EventsOf(a, r)) + 1], TRUE)]
       ELSE a

\* settled is how many events the run had then.  The reference marks the run before
\* it refuses a blank error code, the file after.
SettleRun(a, r, allowed) ==
    IF Open(a, r) /\ allowed
       THEN [a EXCEPT !.runs[r].settled = Cardinality(EventsOf(a, r))] ELSE a

-----------------------------------------------------------------------------
Init == memory = Empty /\ file = Empty /\ odd = {}

Ids(table) == DOMAIN memory[table] \cup DOMAIN file[table] \cup {Unknown}
MayDraw ==
    \A a \in {memory, file} : a.drawn < IF "reopened" \in odd THEN MaxReopened ELSE MaxDrawn

\* A call with a blank argument of another kind is refused by both and left out.
Call ==
    \/ /\ MayDraw /\ Cardinality(DOMAIN memory.sessions) < MaxThreads
       /\ memory' = CreateSession(memory) /\ file' = CreateSession(file)
       /\ UNCHANGED odd
    \/ /\ MayDraw /\ Cardinality(DOMAIN memory.messages) < MaxThreads
       /\ \E s \in Ids("sessions") :
             memory' = AppendMessage(memory, s) /\ file' = AppendMessage(file, s)
       /\ UNCHANGED odd
    \/ /\ MayDraw
       /\ \E s \in Ids("sessions"), m \in Ids("messages") :
             /\ memory' = BeginRun(memory, s, TRUE)
             /\ file' = BeginRun(file, s, m \in DOMAIN file.messages)
             /\ odd' = IF m \in DOMAIN memory.messages THEN odd ELSE odd \cup {"message"}
    \/ /\ MayDraw
       /\ \E r \in Ids("runs") :
             memory' = AppendRunEvent(memory, r) /\ file' = AppendRunEvent(file, r)
       /\ UNCHANGED odd
    \/ \E r \in Ids("runs"), blank \in BOOLEAN :
          /\ memory' = SettleRun(memory, r, TRUE)
          /\ file' = SettleRun(file, r, ~ blank)
          /\ odd' = IF blank THEN odd \cup {"error"} ELSE odd

\* The process starts again, once: the memory is gone, the file is not.
Reopen ==
    /\ file.drawn > 0 /\ "reopened" \notin odd
    /\ memory' = Empty
    /\ file' = [file EXCEPT !.drawn = 0]
    /\ odd' = odd \cup {"reopened"}

Next == Call \/ Reopen

Spec == Init /\ [][Next]_repositoryVars

-----------------------------------------------------------------------------
Numbers == 1..MaxDrawn

TypeOK ==
    /\ \A a \in {memory, file} :
          /\ a.drawn \in 0..MaxDrawn
          /\ \A t \in {"sessions", "messages", "runs", "events"} : DOMAIN a[t] \subseteq Numbers
    /\ odd \subseteq {"message", "error", "reopened"}

\* The events of a run are numbered from one without a gap, whatever was inserted in
\* between, refused or lost, and a settled run has the events it was settled with;
\* every run belongs to a session that is there.
EventsContiguous ==
    \A a \in {memory, file} : \A r \in DOMAIN a.runs :
        LET count == Cardinality(EventsOf(a, r)) IN
        /\ {a.events[e].sequence : e \in EventsOf(a, r)} = 1..count
        /\ a.runs[r].settled \in {None, count}
        /\ a.runs[r].session \in DOMAIN a.sessions

\* Callers cannot tell the adapters apart, as long as they name messages that exist
\* and error codes that are not blank and the file is not opened again.
AdaptersAgree == odd = {} => memory = file
=============================================================================
