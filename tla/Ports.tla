-------------------------------- MODULE Ports --------------------------------
(* The adapters behind the ports: the agent cores and the projection of their *)
(* events, the job queues, the session repositories, and the learning and     *)
(* assessment components.  They share no state, so a behaviour is one of one  *)
(* of them: port says of which, and the variables of the others keep their    *)
(* initial values.  The three job queues are three parts over one variable.   *)
EXTENDS Naturals, FiniteSets
CONSTANTS
    ToolCalls, Unpersisted, MaxScript,
    Queues, JobKeys, Limits, MaxJobs, MaxSequence, Callers,
    MaxDrawn, MaxReopened, MaxThreads,
    Pupils, Plans, Units, Tests, Items, Free, MaxLog,
    Nothing
VARIABLES
    script, coreRun,
    jobs, ids, sequence, thrown, reopened, queueCall,
    memory, file, odd,
    candidate, planOfOne, log, snapshot, test, attempt, marks, reviews,
    port

coreVars == <<script, coreRun>>
fileVars == <<ids, sequence, thrown, reopened>>
queueVars == <<jobs, fileVars, queueCall>>
repositoryVars == <<memory, file, odd>>
componentVars == <<candidate, planOfOne, log, snapshot, test, attempt, marks, reviews>>
portsVars == <<coreVars, queueVars, repositoryVars, componentVars>>

C == INSTANCE AgentCoreScripts WITH run <- coreRun
M == INSTANCE JobQueue WITH Keys <- JobKeys, None <- Nothing
Q == INSTANCE SqliteJobQueue WITH Keys <- JobKeys, None <- Nothing
B == INSTANCE PostgresJobQueue WITH call <- queueCall, Keys <- JobKeys, None <- Nothing
N == INSTANCE SessionRepository WITH None <- Nothing
O == INSTANCE ComponentPorts WITH None <- Nothing

\* maxAttempts is between one and twenty; learners, plans, units and items are told apart
\* from nothing.
ASSUME QueueAssumption      == Limits \subseteq 1..20 /\ MaxJobs \in Nat
ASSUME RepositoryAssumption == MaxDrawn \in Nat /\ MaxReopened \in 0..MaxDrawn
ASSUME ComponentAssumption  ==
    /\ IsFiniteSet(Items) /\ Free \subseteq Items
    /\ IsFiniteSet(Units) /\ MaxLog \in Nat
    /\ Nothing \notin Pupils \cup Plans \cup O!Answers

AllPorts == {"scripts", "memory queue", "sqlite queue", "postgres queue", "repository",
             "learning port", "assessment port"}

PortsInit == C!Init /\ Q!OpenFile /\ B!ServerInit /\ N!Init /\ O!Init

PortsNext ==
    \/ port = "scripts" /\ C!Next /\ UNCHANGED <<queueVars, repositoryVars, componentVars>>
    \/ /\ \/ port = "memory queue" /\ M!Next /\ UNCHANGED <<fileVars, queueCall>>
          \/ port = "sqlite queue" /\ Q!SqliteNext /\ UNCHANGED queueCall
          \/ port = "postgres queue" /\ B!ServerNext /\ UNCHANGED fileVars
       /\ UNCHANGED <<coreVars, repositoryVars, componentVars>>
    \/ port = "repository" /\ N!Next /\ UNCHANGED <<coreVars, queueVars, componentVars>>
    \/ /\ \/ port = "learning port" /\ O!LearningNext
          \/ port = "assessment port" /\ O!AssessmentNext
       /\ UNCHANGED <<coreVars, queueVars, repositoryVars>>

PortsSpec == PortsInit /\ [][PortsNext /\ port' = port]_<<portsVars, port>>

PortsTypeOK ==
    /\ port = "scripts" => C!TypeOK
    /\ port \in {"memory queue", "sqlite queue"} => M!TypeOK
    /\ port = "postgres queue" => B!ServerTypeOK
    /\ port = "repository" => N!TypeOK
    /\ port \in {"learning port", "assessment port"} => O!TypeOK

\* The adapters of the agent core report one script alike (AgentCoreScripts).
ReplaysAlike == port = "scripts" => C!ReplayAgrees

\* A stream is persisted whole, once and never after another end (AgentCoreScripts).
PersistedOnce == port = "scripts" => C!ProjectedOnce

\* Jobs of every adapter are claimed at most as often as they allow, wait and are given
\* up accordingly and can be recovered while they are under way; a key has one live
\* job wherever a call is one step, and rows have ids of their own (JobQueue,
\* SqliteJobQueue, PostgresJobQueue).
QueuesKept ==
    /\ port \in {"memory queue", "sqlite queue", "postgres queue"} => M!RetriesBounded
    /\ port \in {"memory queue", "sqlite queue"} => M!OneJobPerKey
    /\ port = "sqlite queue" => Q!RowsNamed

\* What the statements of the SQLite queue do to its rows, which they find by their
\* ids, is what the contract of the in-memory queue allows a call to do to its jobs.
\* The exception is named: an enqueue that throws, which the contract never does to a
\* call with a valid input; it changes no job, and happens only once the file has been
\* opened again (SqliteJobQueue, JobQueue).
ContractKept ==
    [][port = "sqlite queue" =>
          IF thrown' THEN reopened /\ UNCHANGED jobs ELSE [M!Next]_jobs]_<<portsVars, port>>

\* The adapters of the repository agree and number the events of a run without gaps
\* (SessionRepository).
RepositoriesKept == port = "repository" => N!EventsContiguous /\ N!AdaptersAgree

\* Reports and grades of the component ports are derived from what was recorded
\* (ComponentPorts).
DerivedKept ==
    /\ port = "learning port" => O!ReportsDerived
    /\ port = "assessment port" => O!GradesWhole

\* Every port keeps what it is relied on for: streams, jobs, events, and what is derived.
PortsKept == PersistedOnce /\ QueuesKept /\ RepositoriesKept /\ DerivedKept
=============================================================================
