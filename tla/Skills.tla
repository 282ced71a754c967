--------------------------------- MODULE Skills ---------------------------------
(***************************************************************************)
(* Skill runs of one agent session: a member asks for an approval and      *)
(* decides it, queues runs of a managed skill, and workers execute them    *)
(* from messages delivered at least once.  Between the request and the     *)
(* execution the scope is revoked, the approval lapses, the skill changes  *)
(* on disk or is disabled, and the worker dies.  The skill is a builtin    *)
(* one, a generator of learning candidates, or a dynamic one that asks.    *)
(*                                                                         *)
(* What a step reads it reads together; what may change between two reads  *)
(* of a request may as well change before the run it queues is executed.   *)
(* The outbox that carries a run to the queue is the one of JobOutbox.     *)
(***************************************************************************)
EXTENDS Naturals, FiniteSets

CONSTANTS
    Runs,        \* skill_run rows
    Approvals,   \* skill_approval rows
    Workers,     \* handlers of the queue skill.run
    MaxVersion,  \* bounds the versions of the skill on disk
    MaxFaults,   \* bounds crashes, failing statements and duplicate deliveries
    None         \* no row

VARIABLES
    kind,       \* which of the three skills it is
    skill,      \* version on disk, and the skill_installation row that pins one
    session,    \* the session's status, and whether the run's contexts are readable and bound
    approval,
    skillRun,
    messages,   \* deliveries of a run's message that wait
    worker,     \* what a handler does
    candidates, \* plan or practice candidates stored for a run
    skillFaults

skillVars == <<kind, skill, session, approval, skillRun, messages, worker, candidates,
               skillFaults>>

Kinds == {"builtin", "generate", "dynamic"}
Versions == 1..MaxVersion
Pin == [version : Versions, enabled : BOOLEAN]
Approval == [status : {"pending", "approved", "rejected", "expired"},
             version : Versions, late : BOOLEAN]
SkillRun == [status : {"queued", "running", "completed", "failed"},
             version : Versions, approval : Approvals \cup {None}]

(***************************************************************************)
(* lapsed is a history variable of a handler: when it claimed its run, the *)
(* scope or the approval of the run had already ended for good.            *)
(***************************************************************************)
Place == {"claimed", "resolved", "checked", "executing", "produced", "completing", "failing"}
Idle == [run |-> None, place |-> "idle", scope |-> FALSE, lapsed |-> FALSE]

TypeOK ==
    /\ kind \in Kinds
    /\ skill.version \in Versions /\ skill.pin \in Pin \cup {None}
    /\ session \in [status : {"active", "archived", "deleted"},
                    readable : BOOLEAN, bound : BOOLEAN]
    /\ approval \in [Approvals -> Approval \cup {None}]
    /\ skillRun \in [Runs -> SkillRun \cup {None}]
    /\ messages \in [Runs -> Nat]
    /\ \A w \in Workers : worker[w] = Idle \/ (worker[w].run \in Runs /\ worker[w].place \in Place)
    /\ candidates \in [Runs -> 0..1]
    /\ skillFaults \in 0..MaxFaults

Init ==
    /\ kind \in Kinds
    /\ skill = [version |-> 1, pin |-> None]
    /\ session = [status |-> "active", readable |-> TRUE, bound |-> TRUE]
    /\ approval = [a \in Approvals |-> None]
    /\ skillRun = [r \in Runs |-> None]
    /\ messages = [r \in Runs |-> 0]
    /\ worker = [w \in Workers |-> Idle]
    /\ candidates = [r \in Runs |-> 0]
    /\ skillFaults = 0

\* resolveAgentSessionContext: what can no longer be read is unbound for good.
InScope == session.bound /\ session.readable
Unbind == [session EXCEPT !.bound = InScope]

Enabled == skill.pin = None \/ skill.pin.enabled
Asks == kind = "dynamic"

\* Another version on disk or in the pin than the run was queued for refuses it.
Unchanged(version) ==
    /\ skill.version = version
    /\ skill.pin # None => skill.pin.enabled /\ skill.pin.version = version

Live(a) == /\ approval[a] # None /\ approval[a].status = "approved" /\ ~approval[a].late

-----------------------------------------------------------------------------
(***************************************************************************)
(* The member's and the administrator's requests.                          *)
(***************************************************************************)
RequestApproval(a) ==
    /\ session.status = "active" /\ approval[a] = None /\ Asks
    /\ session' = Unbind
    /\ approval' = IF InScope /\ Enabled
                   THEN [approval EXCEPT ![a] = [status |-> "pending", late |-> FALSE,
                                                 version |-> skill.version]]
                   ELSE approval
    /\ UNCHANGED <<kind, skill, skillRun, messages, worker, candidates, skillFaults>>

\* What a refused decision has marked expired is rolled back with its error.
Decide(a, decision) ==
    /\ approval[a] # None /\ approval[a].status = "pending" /\ ~approval[a].late
    /\ session.status = "active" /\ InScope
    /\ approval' = [approval EXCEPT ![a].status = decision]
    /\ UNCHANGED <<kind, skill, session, skillRun, messages, worker, candidates, skillFaults>>

ListApprovals ==
    /\ session.status = "active"
    /\ session' = Unbind
    /\ approval' = [a \in Approvals |->
           IF approval[a] # None /\ approval[a].status = "pending" /\ approval[a].late
           THEN [approval[a] EXCEPT !.status = "expired"] ELSE approval[a]]
    /\ UNCHANGED <<kind, skill, skillRun, messages, worker, candidates, skillFaults>>

\* The run, what a generator is asked for and the outbox row, in one transaction.
QueueRun(r, a) ==
    /\ session' = Unbind
    /\ IF InScope /\ Enabled
            /\ IF Asks THEN a # None /\ Live(a) /\ approval[a].version = skill.version
                       ELSE a = None
       THEN /\ skillRun' = [skillRun EXCEPT ![r] =
                   [status |-> "queued", version |-> skill.version, approval |-> a]]
            /\ messages' = [messages EXCEPT ![r] = 1]
       ELSE UNCHANGED <<skillRun, messages>>
    /\ UNCHANGED <<kind, skill, approval, worker, candidates, skillFaults>>

Queue(r, a) ==
    /\ kind # "generate" /\ session.status = "active" /\ skillRun[r] = None
    /\ QueueRun(r, a)

\* A generation has a session of its own, so it has one run.
QueueGeneration(r) ==
    /\ kind = "generate" /\ session.status = "active"
    /\ \A q \in Runs : skillRun[q] = None
    /\ QueueRun(r, None)

\* The audit of a queued generation fails: its session goes, with all its rows.
CleanupFailedGeneration ==
    /\ kind = "generate" /\ session.status = "active" /\ skillFaults < MaxFaults
    /\ \E r \in Runs : skillRun[r] # None
    /\ session' = [session EXCEPT !.status = "deleted"]
    /\ skillRun' = [r \in Runs |-> None] /\ candidates' = [r \in Runs |-> 0]
    /\ skillFaults' = skillFaults + 1
    /\ UNCHANGED <<kind, skill, approval, messages, worker>>

SetSkillEnabled(enabled) ==
    /\ skill' = [skill EXCEPT !.pin = [version |-> skill.version, enabled |-> enabled]]
    /\ UNCHANGED <<kind, session, approval, skillRun, messages, worker, candidates, skillFaults>>

-----------------------------------------------------------------------------
(***************************************************************************)
(* A worker.                                                               *)
(***************************************************************************)
Goes(w, place) == worker' = [worker EXCEPT ![w].place = place]
RunOf(w) == skillRun[worker[w].run]

\* Mutant: the handler looks at the status and claims whatever is not settled.
ClaimRunning(w, r) ==
    /\ worker[w] = Idle /\ messages[r] > 0
    /\ messages' = [messages EXCEPT ![r] = @ - 1]
    /\ IF skillRun[r] # None /\ skillRun[r].status \in {"queued", "running"}
       THEN /\ skillRun' = [skillRun EXCEPT ![r].status = "running"]
            /\ worker' = [worker EXCEPT ![w] =
                   [run |-> r, place |-> "claimed", scope |-> FALSE, lapsed |-> FALSE]]
       ELSE UNCHANGED <<skillRun, worker>>
    /\ UNCHANGED <<kind, skill, session, approval, candidates, skillFaults>>

\* Only a queued run is claimed; a message for any other is acknowledged.
Claim(w, r) ==
    /\ worker[w] = Idle /\ messages[r] > 0
    /\ messages' = [messages EXCEPT ![r] = @ - 1]
    /\ IF skillRun[r] # None /\ skillRun[r].status = "queued"
       THEN /\ skillRun' = [skillRun EXCEPT ![r].status = "running"]
            /\ worker' = [worker EXCEPT ![w] =
                   [run |-> r, place |-> "claimed", scope |-> FALSE,
                    lapsed |-> ~session.bound \/ (Asks /\ ~Live(skillRun[r].approval))]]
       ELSE UNCHANGED <<skillRun, worker>>
    /\ UNCHANGED <<kind, skill, session, approval, candidates, skillFaults>>

Resolve(w) ==
    /\ worker[w].place = "claimed"
    /\ IF session.status = "active"
       THEN /\ session' = Unbind
            /\ worker' = [worker EXCEPT ![w].place = "resolved", ![w].scope = InScope]
       ELSE Goes(w, "failing") /\ UNCHANGED session
    /\ UNCHANGED <<kind, skill, approval, skillRun, messages, candidates, skillFaults>>

\* The version the handler claimed is the one it compares.
CheckSkill(w) ==
    /\ worker[w].place = "resolved"
    /\ Goes(w, IF worker[w].scope /\ RunOf(w) # None /\ Unchanged(RunOf(w).version)
               THEN "checked" ELSE "failing")
    /\ UNCHANGED <<kind, skill, session, approval, skillRun, messages, candidates, skillFaults>>

\* Mutant: only the version and the scope of the approval are compared again.
ApprovalStands(a) == approval[a] # None /\ approval[a].status = "approved"

matchingApproval(a) == Live(a)

CheckApproval(w) ==
    /\ worker[w].place = "checked"
    /\ Goes(w, IF RunOf(w) # None /\ (Asks => matchingApproval(RunOf(w).approval))
               THEN "executing" ELSE "failing")
    /\ UNCHANGED <<kind, skill, session, approval, skillRun, messages, candidates, skillFaults>>

Executes(w, as, place) ==
    /\ kind = as /\ worker[w].place = "executing"
    /\ Goes(w, "failing") \/ Goes(w, place)
    /\ UNCHANGED <<kind, skill, session, approval, skillRun, messages, candidates, skillFaults>>

\* The program in its sandbox, the lint of the bound spaces or the model
\* produces an output, or fails.
ExecuteSandbox(w) == Executes(w, "dynamic", "completing")
LintSpaces(w) == Executes(w, "builtin", "completing")
Generate(w) == Executes(w, "generate", "produced")

\* The candidate refers to its run: it cannot be stored once the run is gone.
PersistCandidate(w) ==
    /\ worker[w].place = "produced"
    /\ IF candidates[worker[w].run] = 0 /\ RunOf(w) # None
       THEN /\ candidates' = [candidates EXCEPT ![worker[w].run] = 1]
            /\ Goes(w, "completing")
       ELSE Goes(w, "failing") /\ UNCHANGED candidates
    /\ UNCHANGED <<kind, skill, session, approval, skillRun, messages, skillFaults>>

Finish(w) ==
    /\ worker[w].place \in {"completing", "failing"}
    /\ skillRun' = IF RunOf(w) # None /\ RunOf(w).status = "running"
                   THEN [skillRun EXCEPT ![worker[w].run].status =
                             IF worker[w].place = "completing" THEN "completed" ELSE "failed"]
                   ELSE skillRun
    /\ worker' = [worker EXCEPT ![w] = Idle]
    /\ UNCHANGED <<kind, skill, session, approval, messages, candidates, skillFaults>>

\* The handler dies or its last transaction fails: the message comes again.
Crash(w) ==
    /\ worker[w] # Idle /\ skillFaults < MaxFaults
    /\ skillFaults' = skillFaults + 1
    /\ messages' = [messages EXCEPT ![worker[w].run] = @ + 1]
    /\ worker' = [worker EXCEPT ![w] = Idle]
    /\ UNCHANGED <<kind, skill, session, approval, skillRun, candidates>>

-----------------------------------------------------------------------------
(***************************************************************************)
(* The environment.                                                        *)
(***************************************************************************)
Redeliver(r) ==
    /\ skillRun[r] # None /\ skillFaults < MaxFaults
    /\ skillFaults' = skillFaults + 1
    /\ messages' = [messages EXCEPT ![r] = @ + 1]
    /\ UNCHANGED <<kind, skill, session, approval, skillRun, worker, candidates>>

Lapse(a) ==
    /\ approval[a] # None
    /\ approval' = [approval EXCEPT ![a].late = TRUE]
    /\ UNCHANGED <<kind, skill, session, skillRun, messages, worker, candidates, skillFaults>>

ChangeSession ==
    /\ session.status # "deleted"
    /\ \/ session' = [session EXCEPT !.readable = ~@]
       \/ session' = [session EXCEPT !.bound = FALSE]
       \/ session' = [session EXCEPT !.status = IF @ = "active" THEN "archived" ELSE "active"]
    /\ UNCHANGED <<kind, skill, approval, skillRun, messages, worker, candidates, skillFaults>>

ReplaceSkill ==
    /\ skill.version < MaxVersion
    /\ skill' = [skill EXCEPT !.version = @ + 1]
    /\ UNCHANGED <<kind, session, approval, skillRun, messages, worker, candidates, skillFaults>>

Work(w) == \/ \E r \in Runs : Claim(w, r)
           \/ Resolve(w) \/ CheckSkill(w) \/ CheckApproval(w)
           \/ ExecuteSandbox(w) \/ LintSpaces(w) \/ Generate(w)
           \/ PersistCandidate(w) \/ Finish(w)

Next ==
    \/ \E a \in Approvals : \/ RequestApproval(a) \/ Lapse(a)
                            \/ \E d \in {"approved", "rejected"} : Decide(a, d)
    \/ ListApprovals \/ CleanupFailedGeneration
    \/ \E r \in Runs : QueueGeneration(r) \/ \E a \in Approvals \cup {None} : Queue(r, a)
    \/ \E enabled \in BOOLEAN : SetSkillEnabled(enabled)
    \/ \E w \in Workers : Work(w) \/ Crash(w)
    \/ \E r \in Runs : Redeliver(r)
    \/ ChangeSession \/ ReplaceSkill

Spec == Init /\ [][Next]_skillVars

-----------------------------------------------------------------------------
(***************************************************************************)
(* Properties.                                                             *)
(***************************************************************************)
Working(r) == {w \in Workers : worker[w].run = r}

\* However often its message is delivered, a run is executed once, by one
\* handler, and never again once it is settled; a run of a generator completes
\* with its candidate stored, and one that failed leaves none.
RunsOnce ==
    \A r \in Runs : skillRun[r] # None =>
        /\ Cardinality(Working(r)) <= IF skillRun[r].status = "running" THEN 1 ELSE 0
        /\ skillRun[r].status = "completed" => candidates[r] = (IF kind = "generate" THEN 1 ELSE 0)
        /\ skillRun[r].status \in {"queued", "failed"} => candidates[r] = 0

\* A run whose scope was revoked or whose approval had run out before a worker
\* claimed it is never executed, whatever was valid when it was queued
\* (dynamic-skill-execution.ts 179-211, builtin-skill-execution.ts 64-104).
LapsedNeverRuns ==
    \A w \in Workers : worker[w].lapsed =>
        worker[w].place \notin {"executing", "produced", "completing"}
=============================================================================
