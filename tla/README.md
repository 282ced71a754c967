# Verification of Wknowledge

TLA+ modules, TLC configurations and TLAPS proofs about the server side of
Wknowledge: the web application and the worker, the PostgreSQL rows they share,
the pg-boss queue between them, the directories they write, and the runtime that
answers a member's questions.

* [The system](#the-system): its parts, their state, how they interact, what is hard
* [The modules](#the-modules): what each models and how it corresponds to the code
* [The runs](#the-runs): what TLC checks, with which bounds, under which fairness
* [The proofs](#the-proofs): what holds for every value of the constants, and why
* [What the code does that its documents do not say](#what-the-code-does-that-its-documents-do-not-say)
* [Not modelled](#not-modelled) and [what is left](#what-is-left)

Paths are relative to the repository. In the comments and below, "C:n" is line n of
`packages/core/src/index.ts` and "W:n" line n of `apps/worker/src/index.ts`.

## The system

A Next.js application (`apps/web`) and one or more workers (`apps/worker`) run the
same library (`packages/core`) against one PostgreSQL database
(`packages/database`). Requests insert rows; long work is handed to the worker as
pg-boss messages. Both write a local blob store (`packages/blob-store`) and a
directory per space with compiled output and wiki pages (`packages/wiki`). All SQL
runs at READ COMMITTED, so a decision made from one statement can be stale at the
next, unless a row is locked or the condition is repeated in the UPDATE. A question
is answered inside a web request, by a loop of model calls and knowledge tools
(`packages/agent-runtime`, `packages/model-gateway`).

| Part | State it keeps | Operations | Talks to |
|---|---|---|---|
| Processing jobs and execution leases (`core/src/index.ts`, `database/src/processing-execution-lease.ts`, `worker/src/index.ts`) | `processing_job` row: status, execution token, lease expiry, queue message id; `resources.status` | claim, refresh, stage, complete, fail, confirm a cancellation; cancel, resume and retry by users; recovery when a worker starts | queue, outbox, compiled output, wiki |
| Transactional outboxes (`core/src/job-outbox.ts`, `skill-run-outbox.ts`, `learning-report-outbox.ts`) | outbox row: status, dispatch token, lease, attempts | insert with the job's transaction, list candidates, claim, publish, confirm, give up, retry | queue, jobs |
| Chunked uploads (`core/src/index.ts`, `worker/src/index.ts`) | `resource_upload` session, part rows, temporary files, finalization job | create, put a part, complete, finalize, record a failure, clean up expired sessions | blob store, quota, queue, resources |
| Storage quota (`core/src/index.ts`) | versions, derived assets, `storage_reservation` rows; the organization row as lock | reserve, commit, release, expire | every write of bytes |
| Blob store (`blob-store/src/index.ts`) | content addressed files, temporary part files | put, put temporary (exclusive), compose, remove | uploads, resources, worker |
| Compiled output (`core/src/compiled-publish.ts`) | `compiled/<version>` directory | stage, remove, rename into place | worker |
| Wiki publication (`database/src/wiki-publication-lock.ts`, `wiki/src/index.ts`) | lock row with a lease, live, staging and backup directories | lease and heartbeat, publish by two renames, recover | worker, web |
| Wiki pages, proposals, conflicts (`wiki/src/index.ts`) | page files, proposals, revisions, conflicts | compile, review, propose, accept, reject, declare and decide a conflict | publication lock |
| Resources, versions, spaces (`core/src/index.ts`) | rows, blobs | upload, replace, recompile | jobs, outbox, quota, blob store |
| Learning reports (`core/src/learning-report-artifacts.ts`) | snapshot row: status, token, lease; artifact rows and files | request, claim, render, complete, fail, recover | its outbox |
| Skill runs and approvals (`core/src/skill-runs.ts`, `skill-approvals.ts`, `dynamic-skill-execution.ts`, `builtin-skill-execution.ts`) | run, approval and candidate rows | request, decide, queue, execute, clean up | its outbox, sandbox, generators |
| Agent Skill installations (`core/src/agent-skill-installations.ts`, `agent-runtime/src/agent-skill-catalog.ts`) | installation rows pinned to a digest | discover, install, revoke, resolve | the skills directory |
| Agent sessions (`core/src/agent-sessions.ts`, two routes) | session, context binding, run, event and message rows; streams of a process | create, bind, begin a turn, complete, fail, stop | runtime, memberships |
| Knowledge turn (`agent-runtime/src/index.ts`, `pi-agent-turn.ts`, `core/src/agent-turn.ts` and its neighbours) | none but the turn's | search, read, model calls, grounding, publication of the answer | gateway, sessions |
| Agent core adapters (`agent-runtime/src/pi-adapter.ts`, `core/src/agent-run-event-projection.ts`) | event streams, persisted events | replay a script, project a stream | Pi library, runs |
| Model gateway, budget and rate limits (`model-gateway/src/index.ts`, `core/src/model-invocation-budget.ts`, `database/src/request-rate-limit.ts`) | fixed window counters | choose a provider, charge, invoke, abort; accept or deny a mutation | providers |
| Invitations, memberships, signup (`core/src/index.ts`, `trial-signup.ts`) | accounts, codes, invitations, roles | invite, accept, revoke, sign up, disable, change roles | everything that checks access |
| Learning plans (`core/src/learning-plans.ts`) | plan versions, courses, progress | draft, confirm, materialize a candidate, record | skill runs |
| Practice and assessments (`core/src/practice-candidates.ts`, `assessments.ts`, `manual-free-response-reviews.ts`) | practice sets, attempts, assessments, grades, mastery | compose, try, freeze, answer, submit, review | plans |
| Ports (`core/src/*-job-queue.ts`, `*-agent-session-repository.ts`, in-memory components) | queues and repositories in memory, SQLite, PostgreSQL | enqueue, claim, complete, fail, recover; append, settle; compose, confirm, grade | not used by the worker yet |

### What is hard here

*Two handlers of one job.* pg-boss delivers at least once and aborts nothing it can
be sure of: a handler may live on after its message or its lease expired, next to
the handler of the redelivery. What keeps them apart is the token in the row: a
write that matters names it. The places that do not (W:355, C:2378, the removal of
a directory after a lease check, the recovery of reports by id alone) are where the
properties aim.

*Requests against each other.* Most services read a row in one statement, decide, and
write in another: cancel, resume and retry of a job; an upload that looks for a
duplicate; two confirmations of plans; two reviewers; two installations. What makes
them safe, where they are, is a repeated condition, a row lock or a unique index.

*Directories.* A wiki is published by two renames under a lease kept in the database.
The renames do not look at the lease; a process that dies between them leaves no
`wiki/`, and three different places put a backup back, one of them without the lease.

*Crashes.* A worker that dies leaves a row that says processing under a live lease,
a message that pg-boss redelivers after its expiry, an outbox row that says
dispatching, parts on disk, a reservation, a running skill. Each is taken up again by a
different mechanism, or by none: redelivery, the recovery at the next start, the dispatch
lease, the cleanup timer, the expiry. The liveness properties ask whether they meet.

*Stale permission.* A turn, a skill run and a report are checked when they are asked for
and carried out later. In between memberships and approvals end and contexts disappear.

*Account keeping.* Bytes are reserved before they are written and counted after, model
calls are charged before they are made; a reservation has to end exactly once, a charge
has to be made for all of its counters or for none.

`PROJECT.json` lists each hazard at its line with the properties that would catch it.

### What makes the parts correct

| Part | Properties |
|---|---|
| Processing jobs | one active job per version; the lease columns agree with the status; a settled job does not run again; a cancellation is not undone by a handler; a job that says it is queued or processing is one that somebody will take up; a completed job has its output and a ready resource; every job settles |
| Outboxes | no queued job is lost and every one is eventually taken; a row is closed only if its message is out or its job no longer waits; no more messages than faults explain |
| Chunked uploads | one version per session; recorded parts of a live session are on disk; the reservation ends with the session; a settled session stays settled; parts of expired sessions are removed; finalizing ends |
| Quota | reservations fit; usage exceeds the quota only through named gaps; nothing is held back by an operation that ended |
| Wiki publication | what was published successfully stays published; there is always a wiki or a backup to put back; publications take effect one at a time |
| Wiki pages | no page twice; a dispute names a conflict that can still be decided; approved text changes only by a proposal made for it; acceptances have their revisions |
| Resources | versions numbered without gaps, each with its blob; duplicates only by overlap |
| Learning reports | a completed report shows the files of the execution that claimed it last; one in the making per plan |
| Skill runs | executed once; never under a scope or approval that had ended before it was claimed; a candidate exactly with its completion |
| Installations | one enabled per skill, pinned to what was read |
| Agent sessions | one running turn; events tell the truth about a run; an answer is stored only while its whole scope is readable |
| Turn and adapters | an answer is what it claims to be; after a revocation at most the one thing that had been looked for is still begun; both adapters report one script alike |
| Gateway | charged before sent, to all counters or none; local data stays local; no lock cycle |
| Membership | an account is made once; the owners stay; whoever is a member was invited |
| Plans, assessments | one active plan; a candidate becomes one plan or set; submitted means answered; one grade per attempt |
| Ports | bounded retries; one live job per key; contiguous events; adapters agree |

## The modules

| Module | About | Checked in |
|---|---|---|
| `ProcessingJobs` | the jobs of one resource version, from outbox to wiki | `jobs_*`, `bad_two_active` |
| `JobOutbox`, `DeliveryIntent` | candidates, claims, publication and confirmation; what an outbox promises | `outbox` |
| `ChunkedUpload` | one upload session, from creation to cleanup | `uploads_*` |
| `StorageQuota` | the account of one organization | `platform` |
| `WikiPublication`, `WikiRegister` | the lease, the two renames, the recoveries; the register they implement | `wiki_publication` |
| `WikiPages` | pages, proposals, conflicts of one space | `knowledge`, `bad_lock` |
| `AgentSessions` | the contexts and turns of one session | `knowledge` |
| `Skills` | skill runs and approvals of one session | `learning` |
| `LearningPlans` | drafts, confirmations, courses of one learner | `learning` |
| `Assessments` | practice, assessments, grades of one learner | `learning` |
| `LearningReports` | report snapshots and their renderers | `learning` |
| `ModelGateway` | provider choice, budgets, counters | `platform` |
| `KnowledgeTurn` | one question through any of the three loops | `platform` |
| `AgentCoreScripts` | both adapters of the agent core and the projection | `platform` |
| `JobQueue`, `SqliteJobQueue`, `PostgresJobQueue` | the queue port and two of its adapters | `platform` |
| `SessionRepository`, `ComponentPorts` | the other ports | `platform` |
| `Access` | signup, invitations, members | `platform` |
| `Resources` | the versions of the documents of a space | `platform` |
| `SkillInstallations` | the pinned installations of one Agent Skill | `platform` |
| `Organization` | the six parts that belong to one organization: StorageQuota, ModelGateway, KnowledgeTurn, Access, Resources and SkillInstallations, of which one moves; what is proved about them is proved of it | `platform` |
| `Ports` | the adapters behind the ports: AgentCoreScripts, the three queues, SessionRepository and ComponentPorts, of which one moves; what is proved about them is proved of it | `platform` |
| `MC...` | model values, symmetry and composition for TLC | |
| `..._proofs` | theorems | |

One action is one SQL statement, or one transaction where nothing outside can see
its parts, or one call to pg-boss or to the disk. An operation is the chain of
actions its program counter walks; other actors act between them. `map` in
`PROJECT.json` gives the source lines of every definition. A definition whose comment
begins with "Mutant" is a plausible bug: it is used by no specification, and stands
beside the definition it would replace to show that the properties would notice.

### ProcessingJobs

`job[j]` is a row of `processing_job` together with its outbox row: status, token,
lease, queueId, outbox. A lease is abstracted to none, live or expired; the
120 s and the 30 s heartbeat are in the actions that let it expire. The token of an
execution is the name of the handler slot: a handler uses its token only once it has
claimed the job, and a claim replaces what an earlier handler of that slot left in the row.
`msg[m]` is a pg-boss message, `exec[e]` a handler (`pc`, the position in `Steps`, the
job and the message it works for, aborted, lost), `req[r]` a web request, `rec` the
recovery of a starting worker, `compiled` and `wiki` the published output.

| Code | Actions |
|---|---|
| `claimProcessingExecution`, two UPDATEs (processing-execution-lease.ts) | the claim of a queued job, then of one whose lease expired |
| `processResource` (W) | `Steps`: check, refresh, stage, parse, guard, remove, rename, compile, complete, one action each |
| `markProcessingCompleted`, `markProcessingCancelled`, `markProcessingFailed` (W) | a handler's way out, and what it tells pg-boss |
| `cancelProcessingJob`, `resumeProcessingJob`, `retryProcessingJob` (C) | `req` chains, with the pg-boss call where the code has it |
| `recoverExpiredProcessingJobs` (C) | `rec`: take a stale row, publish, release |
| pg-boss | publication, fetch, redelivery up to `RetryLimit`, expiry, cancel, resume |

The outbox appears here as one step (publish and confirm), with the failure "queue"
that sends the row back to pending; its interleavings are JobOutbox's subject. A
heartbeat appears by its effects: it keeps a lease live unless "stall", and may fail
("heartbeat"), which the handler notices at its next lease CAS and takes for a lost lease. The wiki is
compiled in one step: WikiPublication opens it.

Two assumptions about time are built in. A message expires after 900 s, which
outlasts a lease of 120 s: when the message of a dead handler is redelivered, its
lease has run out. A restarted worker finds leases as they are, live or expired.

### JobOutbox and DeliveryIntent

`JobOutbox` has any number of dispatchers over any number of rows. A dispatcher lists
candidates, claims a row by token and lease, looks at the job, publishes, confirms;
it may crash, stall until its lease has expired, fail to publish, or publish and
fail to confirm. Users cancel and resume in between. `copies` counts the messages
that can still bring a job to a handler. The three outboxes of the repository follow the
same protocol with different payloads; the cancel and resume in the model are those
of processing jobs. Resuming a job whose message pg-boss still holds belongs to
ProcessingJobs. The claim compares the lease when it writes, which allows every
order of clocks.

`DeliveryIntent` says what a writer of a row may rely on: as long as the job wants to
run it is *owed* or *sent*; it never disappears in between. JobOutbox implements it
with "owed" as "the row is pending or dispatching" (`IntentKept`, `IntentLive`).
`LearningReports` and `Skills` rely on that promise: there a pending row is sent.

### ChunkedUpload

`session` is the `resource_upload` row (status, and whether expiresAt has passed),
`reserved` its reservation, `rows` the recorded parts, `file` the temporary files
(none, torn, whole), `version` the number of versions it created, `job` and `msg`
its finalization, `act` the requests and handlers, `clean` the cleanup.

Every operation but the creation starts with `ownedUploadSession`: read, decide, an
UPDATE to expired that names no status, release. Put ends with a read of the
session, which does the same again. The file of a part is created exclusively.
Finalizing locks the session and looks again before it settles it; marking a session
expired inside that transaction and throwing rolls the mark back, as it does in the code.
Cleanup removes a file before its row and keeps the row where the file could not be
removed. `expiresAt` of session and reservation are the same instant and are one flag.

A message may be delivered again while its handler goes on (the handler's `msg` becomes
None), so two handlers may finalize at once. The content's duplicate uploaded in another
way is `twin`.

### StorageQuota

`lock` is the organization row locked by `FOR UPDATE`. Usage is read in two
statements: versions and assets, then reservations; writers of versions do not take
the lock. `slipped` is a history variable: it counts the bytes that escape the account
in one of three ways (an upload that commits between the two reads of another
operation, an asset that grew by more than was reserved because it was larger when the
writer asked, a reservation that expired under a write that still commits).
`OvershootBounded` says there is no fourth. Writes that reuse a blob reserve nothing
and are left out.

### WikiPublication and WikiRegister

One knowledge space. `lease` is the row of `wiki_publication_lock`, `wiki` the live
directory, `staging[p]` and `backup[p]` the directories with the uuid of call p. A
directory is the set of publications whose changes it holds, its time
(the mtime, which a rename keeps: that is how `recoverWikiPublicationArtifacts` finds
the newest backup) and whether it is whole: `rm` of a directory deletes its entries one after
the other, others act in between, it may end midway, and what it leaves holds nothing and may
have a new time (`RemovePart`, `RemoveRest`). `op[p]` is a call: a compilation, an edit (a review or a decision)
or the recovery of a starting worker.

| Code | Actions |
|---|---|
| `withWikiPublicationLease`: INSERT ... ON CONFLICT, timer, DELETE | `Acquire`, `Heartbeat`, `End`, `Fail` |
| `recoverWikiPublicationArtifacts`: readdir and stat, existence, rename, rm | `Scan`, `Stat`, `Restore`, `Clean`, `CleanStaging` |
| `initializeSpace` | `InitializeSpace` |
| `compileWiki` and the edits: copy, `publishWikiDirectory`, log | `Copy`, `MoveAway`, `MoveIn`, `PutBack`, `Discard`, `AppendLog` |
| process death, sleep past the expiry, failing rename or rm | `Crash`, `Expire`, the second branches |

A compilation begins with a recovery *before* it takes the lease (W:646) and an
`initializeSpace`; only then does it acquire. `harm` is a history variable: it records
that one of three windows was hit: *unleased*, where that first recovery or
`initializeSpace` puts something in the place of a directory a swap has just moved away;
*stall*, where a call that slept past its lease goes on renaming; and *part*, where `wiki/` is away and
what an interrupted removal left of an old backup has the newest time of all. Everything the
module promises is promised outside those windows; inside them, only that something can
be restored.

`WikiRegister` is the abstract specification: a set of publications to which one is
added in one step, at most once, and from which nothing is taken. `IsRegister` maps
`content` to what a reader finds or the next recovery restores.

### WikiPages

`file` are the page files of `wiki/topics`, by position, because a compilation writes
page i to the file of position i while the identity of a page comes from its section.
`proposal`, `conflict`, `revisions` are the files below `reviews/`. A call holds the
publication lease, so calls exclude each other, and the directory swap is one step; what
a call writes below `reviews/` before and after it (`todo` of `call`) are steps of their
own between which the process may die or the call fail, also because the old directory could
not be removed after the swap. A conflict whose declaration fails that way is `Withdrawn`: its directory is
removed although its pages are out and name it. Two properties speak of the review lock: `LockKept`, as its document states it, which
the code does not keep (`bad_lock`), and `LockedByProposal`, which names the one exception. Both follow a page and not a file. `Lint` is the lint that may refuse a compilation
(`DUPLICATE_ID`). Content is a number: two texts are the same if their semantic digest is.

### AgentSessions

`granted` and `present` are the environment: spaces the member may read, targets that
exist. `binding` are the rows of `agent_context_binding`, `run[t]` an `agent_run` with its
events, `scope[t]` what turn t was resolved with, `streams` and `aborted` the AbortControllers
of the web process, `stopping` stop requests between their read and their write.
`completeAgentSessionRun` is split in two, because it reads the bindings before it locks the
memberships; while it runs it holds the rows of session and run (`SessionLocked`), for
which the other transactions wait. The answer itself is left to KnowledgeTurn.

### Skills, LearningPlans, Assessments, LearningReports

`Skills` has one skill of three kinds (built in, a generator of candidates, dynamic and in
need of approval), the pin of its installation and the version on disk. A handler claims a
run, resolves its scope, checks the skill and the approval, executes, stores a candidate and
completes; messages are delivered at least once, workers die at every place.
`LearningPlans` breaks the transaction of `confirmLearningPlan` into its statements, with the
rows each has seen, waits for and holds, as READ COMMITTED has it: that is where two
confirmations meet. `Assessments` has the reads of a request before its transaction.
`LearningReports` has claims numbered by their token; `blind` is a history variable of the
reports a recovery queued although they were no longer rendering.

### ModelGateway, KnowledgeTurn, AgentCoreScripts

`ModelGateway` has the loop over providers, the transaction that adds a call to the
counters of organization, provider and user (one lock after the other in the order of their
keys), the windows and the abort, and the limit of HTTP mutations, which uses the same
counters. `KnowledgeTurn` has the three loops that answer a question: "pi" (the default),
"internal" and "query". The model is outside and may answer anything; `readable` and
`aborted` change at any moment and are seen only where the code looks. A look is a read of the database that is
awaited, and what it allows is begun by a later step: `passed` is what has been looked for and is not begun, and a revocation may
come in between (`overtaken` remembers what it overtook). `late` is a history
variable of what was begun after a revocation: requests to a provider, tool events, tools of the Pi loop, chunks of the answer, the result. The property is that
a turn of a session begins one such thing at most, the one overtaken. It leaves out what the code does not look for at all: a query's
answer, the first search and the model calls of the Pi loop. `AgentCoreScripts` writes scripts event by
event and says by functions what each adapter reports of it, stopped at any event, and how
the projection folds a stream into rows: what is not text is persisted in its order, each event
at its rank among those that are (`Nth`). The Pi library is modelled from how the adapter
uses it, and marked external in the map.

### Ports

`JobQueue` is the contract, fixed by the in-memory adapter: one step per call.
`SqliteJobQueue` is written from the SQL and uses no definition of the contract: rows with an id column, statements that select their rows
by id and by condition, the look for a key in the order of `seq`, the unique id, an insert that throws (`thrown`), and the counter of ids, which
starts at zero when the file is opened again. `PostgresJobQueue` splits enqueue, complete and fail into their statements.
`SessionRepository` gives the same calls to two adapters and compares them;
`odd` records the calls they are known to answer differently. `ComponentPorts` are the
in-memory learning and assessment components. The deployed worker does not use the ports yet.
`Ports` puts them side by side, with AgentCoreScripts: `port` says which of them a behaviour is about. The three
queues are three values of it over one variable `jobs`, so that what a call of SQLite does to the jobs can be compared with what
the contract lets it do, step by step: `ContractKept` is that comparison, with the enqueue that throws as a named exception that needs a reopened file, and
`SqliteImplementsQueue` the refinement it amounts to for one process. PostgreSQL is not compared with the contract: it does not
implement it (number 20 below), and keeps the part of `QueuesKept` that bounds retries. `PortsKept` joins what is kept behind the
ports: `PersistedOnce`, `QueuesKept`, `RepositoriesKept` and `DerivedKept`.

### Access, Resources, SkillInstallations

`Access` has the two ways to an account as transactions of several statements that wait for
what another wrote and has not committed (`wrote`), and the management of members as a read
followed by a write. `Resources` has the look for a duplicate, the reservation, the blob and
the insert as separate steps, and the transactions under the resource's lock as one. A row's
`raced` says that its request was overtaken between look and insert. `SkillInstallations`
reads a directory that changes between the listing and the reading of its files, and has the
lock, the update and the insert of an installation as steps, with the unique index on enabled
rows and the rule that a statement that waited looks at its row again.

## The runs

| Run | Instance | Properties | Distinct states |
|---|---|---|---|
| `jobs_handlers` | 1 job, 2 handlers, 2 messages redelivered once, 1 user who cancels; two faults among errors, stalls, timeouts and a recovery that dies; restarts, also next to a working handler | LeaseConsistent, CancellationSticks, SettledNeverReruns | 2.6 M |
| `jobs_requests` | 3 jobs, 1 handler, 2 messages, cancel, resume and retry one at a time; one fault among crashes, errors, stalls, heartbeats, timeouts, an unreachable queue | OneRunnableJob | 2.5 M |
| `jobs_worker` | 1 job, 1 handler, 3 messages redelivered twice, 2 crashes, restarts | NoOrphanedJob, CompletedIsUsable, EventuallySettled | 15 k |
| `bad_two_active` | 3 jobs, 2 retries at once | OneActiveJob (violated) | |
| `outbox` | 2 rows, 2 dispatchers, one fault of any kind, users cancel and resume | DeliverySafe, OncePerFault, IntentKept, IntentLive | 175 k |
| `uploads_requests` | 2 parts, 2 requests at once, 1 handler, one fault of any kind | PartsOnDisk, ReservationFollows, SettledStays | 1.7 M |
| `uploads_worker` | 1 part, 1 request, 2 handlers, 2 messages, one fault | OneVersion, FinalizingSettles, PartsReclaimed | 0.4 M |
| `wiki_publication` | 3 calls of any kind, two faults among crash, stall and failing rename or removal, removals that end midway | NothingLost, IsRegister | @WP@ |
| `knowledge` | 2 turns, 2 spaces, contexts of a whole space and of one target, 2 bindings, one crash or failing statement; 2 pages that compilations put into up to 3 files, 3 contents, 3 compilations, 1 conflict, one crash or failing write | RunsConsistent, AnswerUnderGrant, PagesTypeOK, DisputedIsNamed, AcceptedOnRecord, LockedByProposal | 1.5 M |
| `bad_lock` | the pages of `knowledge` without failures | LockKept (violated) | |
| `learning` | 2 skill runs, 2 workers, 1 approval; 2 learners, 3 plans; 2 students, 2 sets, 2 questions, 2 attempts; 2 reports, 2 renderers; one fault each | LearningTypeOK, SkillRunsKept, OneActivePlan, MaterializedOnce, AssessmentKept, ReportsHonest | 1.3 M |
| `platform` | the parts below | AccountKept, BudgetKept, TurnHonest, AccessKept, VersionsLinked, OneEnabled, ReplaysAlike, PortsKept, ContractKept | 1.1 M |

`knowledge`, `learning` and `platform` check several modules in one run. These parts share no
variable, and a variable chosen at the start (`part`, and `port` for the parts of `Ports`) says which of them moves: the run
visits the sum of their states and not the product. In `platform` they are the
storage account (3 writers, quota 3, sizes 1 and 2; 248 k), the gateway (2 calls, 2 providers, one
local; 117 k), a turn with each of its loops (36 k), the agent scripts (5 events; 78 k), the
job queue in memory, in SQLite and in PostgreSQL (2 callers, 1 key; 48 k for PostgreSQL), the session repository
(46 k), the learning and assessment components (49 k), signup, invitations and members (2
people, 2 invitations, 1 code; 361 k), 2 versions of 2 documents (83 k) and the
installations of a skill (88 k). A property of these runs names an
operator of the component's module; `MCLearning`, `Organization` and `Ports` say for which part it is asked.

The type invariants of ProcessingJobs, JobOutbox and ChunkedUpload and those of the parts of `platform` are proved
and no property of a run.

### Why the bounds are enough

*Handlers and renderers.* Two are needed for every race between a stale and a fresh handler; a third
would race with one of the two in the same way, because a row names at most one token.
*Jobs.* Three: an old failed job, the retry, and one more for a retry to pick wrongly.
*Messages and redelivery.* One redelivery shows the difference between a first and
a last delivery; `jobs_worker` has two and as many crashes, so that the last
delivery can be the one that dies before the recovery takes over.
*Parts.* Two, so that one can be there and another missing. *Requests.* Two, for every
race between a read and another's write.
*Publications.* Three: one whose work can be lost, one that overtakes it, and a recovery that
acts on what both left. *Pages and contents.* Two pages, so that a page may move to the file of another
and a conflict may take in one and not the other; three contents, so that a page
may differ from what was approved and from what was proposed.
*Turns.* Two, the running one and the one that finds it. *Spaces.* Two, so that one of a
scope's spaces can be revoked. *Plans.* Three: the active one and two drafts.
*Versions.* Two, of one document or of two: one, and the upload, replacement or recompilation that overlaps it. *Writers.* Three fill a quota of three with sizes one and two in every way.
*Faults.* Two in `jobs_handlers` and `wiki_publication`, where a stale actor needs one and what then goes
wrong with it or its successor is another; two crashes in `jobs_worker`; one of each kind, in
every position, elsewhere. Restarts and overlapping workers are switched on by `Faults` but not counted.

The bounds are `MaxFaults`, `RetryLimit`, the other `Max...` constants, each a guard of the action
it bounds, and the sets of identities. One state constraint is used, `Unharmed` of `wiki_publication`: a behaviour is followed up to
the step that hits a window (that step included), since NothingLost and IsRegister promise nothing of a publication after it; that something can still be restored
then is what the theorem `NothingLostHolds` says of every behaviour. Symmetry is used only
in runs without liveness and only over identities that no operator orders.

Deadlock is checked for the outbox, where there is always a dispatcher that may look again.
The other runs switch it off: when every job is settled, the session is cleaned
up or every request is answered, the system rightly stops.

### Fairness

`jobs_worker`, `outbox` and `uploads_worker` use a fair specification. What is assumed
fair is what the code drives by itself: a handler, request or recovery that has begun goes on or dies; pg-boss
polls, redelivers and expires; time passes; the outbox is drained every 5 s (strongly fair,
since a slot may be taken by the targeted dispatch of a request); the cleanup runs every
5 minutes. Nothing is assumed of users, faults, crashes or restarts.

The other modules have no liveness property, because the code promises none that it drives: nothing
but a user stops a turn whose process died, nothing takes up a skill run whose worker died,
and a report is recovered only by the start of a worker.

### What the passing runs depend on

* `NoOrphanedJob`, `CompletedIsUsable` and `EventuallySettled` are checked for one
  worker with one handler at a time, the deployed configuration, and without requests. With overlapping
  handlers a stale one may be between `rm` and `rename`, or write the resource's status late.
* A crash on the last delivery leaves the job to the recovery of a later start, which
  happens only if a worker starts after the lease has expired. A recovery that dies after it has published
  leaves a message that may be consumed before the lease ends: then too a later start
  is needed. `jobs_worker` has fewer crashes than deliveries for the former.
* A heartbeat that meets a database error makes the handler return as lease-lost although the row is
  still its own: the message is acknowledged, and the job waits for a recovery after its
  lease has run out. So does a last delivery that timed out. `jobs_worker` leaves both faults out.
* `FinalizingSettles` assumes fewer faults than deliveries. A crash on the last delivery
  leaves the session finalizing until its owner asks for it again; the
  cleanup does not take finalizing sessions.
* `SettledStays` lets a completed session turn expired: `ownedUploadSession` writes
  expired by id alone after a read (C:1545).
* A retry of an old failed job is allowed although another job of the version completed.
  `jobs_requests` has one request at a time; two retries at once break OneActiveJob (`bad_two_active`). `OneRunnableJob` counts the
  jobs queued or processing, as the look of a retry does; the documents also count `cancel_requested` (`OneActiveJob`), and of that not even
  requests one at a time keep one (number 1 below).
* `cancelProcessingJob` writes `cancel_requested` or `cancelled` by id alone after a read (C:2378) and can overwrite
  a completed job. The model has that step. `CancellationSticks` speaks of what follows.
* `NothingLost` and `IsRegister` hold outside the three windows that `harm` names, `OneActivePlan`
  and `VersionsLinked` outside overlaps (`raced`), `ReportsHonest` outside reports queued by id alone (`blind`),
  `TurnHonest` up to the one thing a revocation overtook (`overtaken`), `ContractKept` up to an enqueue that throws (`thrown`), `AccountKept` up to the bytes in `slipped`. Each of these
  is a history variable that records one named step of the code and nothing else, so that the
  property still says that there is no *other* way. `LockedByProposal` and `DisputedIsNamed` name their exceptions in the
  formula: a page over whose file another is written, and a conflict withdrawn after its pages were out.
* `RunsConsistent` says who is at work on a running run: a handler, or one that died. A run
  whose process died is not required to end.

## The proofs

| Theorem | States, for every value of the constants |
|---|---|
| `ProcessingJobs_proofs!TypeCorrect` | `Spec => []TypeOK` |
| `ProcessingJobs_proofs!LeaseCorrect` | LeaseConsistent: a token and a lease are there exactly when the status says so |
| `ProcessingJobs_proofs!CancellationHolds` | CancellationSticks: no handler, redelivery or recovery undoes a cancellation |
| `ProcessingJobs_proofs!SettledHolds` | SettledNeverReruns: a completed or failed job never runs again |
| `ProcessingJobs_proofs!OneRunnableJobHolds` | OneRunnableJob: one job at most is queued or processing (a job in `cancel_requested` may stand beside it), assuming resumes and retries come one at a time (`\A r, s \in Requests : r = s`) |
| `ProcessingJobs_proofs!NoOrphanedJobHolds` | NoOrphanedJob, assuming `Serial`: a queued job is always on its way to a handler |
| `ProcessingJobs_proofs!CompletedIsUsableHolds` | CompletedIsUsable, assuming `Serial`: a completed job has its output, its pages and a ready resource |
| `JobOutbox_proofs!TypeCorrect` | `Spec => []TypeOK`; in particular no message is consumed that was not sent |
| `JobOutbox_proofs!CoveredCorrect` | a row is closed only when its message is out or its job no longer waits |
| `JobOutbox_proofs!NothingLost` | no queued job is lost |
| `JobOutbox_proofs!DispatchCorrect` | dispatcher and lease columns agree with the status |
| `JobOutbox_proofs!DeliveryCorrect` | DeliverySafe: the three together |
| `JobOutbox_proofs!OncePerFaultHolds` | OncePerFault: a job is published once, and once more for each fault or resume at most |
| `JobOutbox_proofs!IntentImplemented` | IntentKept: JobOutbox implements the safety part of DeliveryIntent |
| `ChunkedUpload_proofs!TypeCorrect` | `Spec => []TypeOK` |
| `ChunkedUpload_proofs!OneVersionHolds` | OneVersion: one version per session, none after a failure |
| `ChunkedUpload_proofs!PartsHold` | the recorded parts of a live session are on disk |
| `ChunkedUpload_proofs!ReservationHolds` | ReservationFollows: the reservation ends with the session, on every path |
| `ChunkedUpload_proofs!NoStrayHolds` | without faults no file is left that no row names |
| `ChunkedUpload_proofs!PartsOnDiskHold` | PartsOnDisk: rows and files agree both ways |
| `ChunkedUpload_proofs!SettledHolds` | SettledStays: a settled session is not reopened or overwritten |
| `WikiPublication_proofs!NothingLostHolds` | NothingLost: outside the three windows a successful publication stays, and there is always a wiki or a backup |
| `WikiPublication_proofs!RegisterImplemented` | IsRegister: WikiPublication implements WikiRegister |
| `Agents_proofs!RunsConsistentHolds` | RunsConsistent: one running turn per session, an answer exactly for a completed run, events that tell how the run ended |
| `Agents_proofs!AnswerUnderGrantHolds` | AnswerUnderGrant: a turn completes only while every space of its scope may be read |
| `Agents_proofs!PortsTyped` | `PortsSpec => []PortsTypeOK`: the types of what is behind the ports |
| `Agents_proofs!PersistedOnceHolds` | PersistedOnce: a stream is persisted whole, in order and once, and its rows tell how the run ended |
| `Agents_proofs!QueuesKeptHolds` | QueuesKept: retries are bounded in all three queues; one live job per key, and ids of their own |
| `Agents_proofs!RepositoriesKeptHolds` | RepositoriesKept: events are numbered without gaps, and the repositories agree |
| `Agents_proofs!DerivedKeptHolds` | DerivedKept: reports and grades follow from what was recorded |
| `Agents_proofs!PortsKeptHolds` | PortsKept: the four together |
| `Agents_proofs!ContractKeptHolds` | ContractKept: a statement of the SQLite queue changes the rows as the contract says, or throws after a restart and changes none |
| `Agents_proofs!SqliteImplementsQueue` | `Q!OneProcessSpec => M!Spec /\ []~thrown`: within one process the SQLite queue implements the contract and never throws |
| `Learning_proofs!LearningTyped` | `LearningSpec => []LearningTypeOK`: the types of the four services |
| `Learning_proofs!ReportsHonestHolds` | ReportsHonest: a completed report shows the files of its last claim; one in the making per plan |
| `Learning_proofs!SkillRunsHold` | SkillRunsKept: a run is executed once, and never when its scope or approval had ended before its claim |
| `Learning_proofs!OneActivePlanHolds` | OneActivePlan: unless two confirmations overlap, one plan and one course are active |
| `Learning_proofs!MaterializedOnceHolds` | MaterializedOnce: a candidate becomes one plan or practice set at most |
| `Learning_proofs!AssessmentHolds` | AssessmentKept: submitted means answered; one grade per attempt, and the mastery that follows |
| `WikiPages_proofs!PagesTyped` | `PagesSpec => []PagesTypeOK`; in particular no page is published under two files |
| `WikiPages_proofs!DisputesNamed` | DisputedIsNamed: a disputed page is named by a conflict that can still be decided, or was withdrawn after its pages were out |
| `WikiPages_proofs!AcceptancesRecorded` | AcceptedOnRecord: an accepted proposal has both texts among the revisions |
| `WikiPages_proofs!LocksHold` | LockedByProposal: text under review or dispute gives way only to a candidate made for it, or to a compilation that writes another page over its file |
| `Organization_proofs!OrganizationTyped` | `OrganizationSpec => []OrganizationTypeOK`: the types of the six parts |
| `Organization_proofs!AccountKeptHolds` | AccountKept: reservations fit the quota and none is negative, the overshoot is what slipped through three named gaps, nothing is held back |
| `Organization_proofs!DecisionsExclusive` | one operation at a time decides about the organization's storage |
| `Organization_proofs!BudgetKeptHolds` | BudgetKept: the counters are the calls charged and within their limits; charged before sent; local data stays local; no lock cycle |
| `Organization_proofs!TurnHonestHolds` | TurnHonest: an answer is what it claims to be; after a revocation a session's turn begins at most what it had looked for |
| `Organization_proofs!AccessKeptHolds` | AccessKept: an account is made once, by one code or invitation; the owners stay |
| `Organization_proofs!VersionsLinkedHolds` | VersionsLinked: versions without gaps, each with its blob; two alike were raced |
| `Organization_proofs!OneEnabledHolds` | OneEnabled: a skill has at most one enabled installation, the last, pinned to what was read |

*ProcessingJobs.* TypeOK is inductive: every value stored comes from a typed variable or a constant
set, position `at` in `Steps` advances only where a next step exists, and `tries` grows
only below `RetryLimit`. The next three are about single rows. `Move` is the table of
the changes a step may make to one row, `StepMoves` proves that every action
makes one of them for each row (one case per action, where the guards that name token
and status are used), and the three properties follow from the table alone. For OneRunnableJob all moves but
two are `Calm`: they make no job queued or processing that was neither. The two others are made by a resume or a retry that has found no such job;
`Alone` says that this is still so when it writes, which needs the assumption that no other request is under way:
with two requests it is false (`bad_two_active`).

The last two assume `Serial`, of which `jobs_worker` is an instance: nobody resumes, a worker does not recover under a working
one, messages are redelivered at least as often as something goes wrong, and there is one handler slot, or else no heartbeat stalls and
no message is taken from a living handler. Each part is needed. A resume can strand its job (number 3 below); a
recovery beside a working handler publishes its message before it hands the row back, and the handler may
give the message up in between; handlers that die before they claim, once more often than their message
is redelivered, leave a queued job without a message; and a second handler may give up the message of a job the first is about to
queue again, or claim an expired lease and complete the job while the first is between `rm` and `rename`. TLC shows
each within seconds when the hypothesis is dropped. The invariant is `OneWorker`. As nothing
fails for good there is one job (`OneJob`), and once its cancellation is asked for it stays cancelled, so the rest
(`Sound`) speaks of the other case. Its parts: a handler holds its message, alone, unless the queue took it away (`Held`); every redelivery was
paid for by a fault, including the one a failing handler is about to cause (`Budget`), so the last redelivery is
never used up; a queued job is in the outbox, in the queue, or with a handler that has not claimed it (`Delivery`); whoever works owns the lease, so
two who work are one (`Ownership`); the recovery has the job to itself (`Recovering`); and what has been
made is known from the place of the handler that makes it (`Output`). TLC checked it with one slot and every fault, and with two slots, before it was proved.

*JobOutbox.* The inductive invariant is `TypeOK /\ GivenUpCovered`: a step that marks a row sent has just
added a copy, one that gives it up has just read a job that no longer waits, and the
resume that makes it wait again also reopens the row. NoLostIntent follows in each state.
The refinement maps a row that is pending or dispatching to "owed": each action maps to a
step of DeliveryIntent or to a stutter; GivenUpCovered is what makes closing a row a
stutter or a legal release of the debt. OncePerFault is a potential argument: the messages sent for a row, the
dispatchers that may still send one, and the row itself while it may be claimed again are together never more than one
plus the faults and resumes so far, since a dispatcher hands on the one chance it took and only a fault or a resume
makes a new one.

*ChunkedUpload.* The properties hold each other up and are proved as one inductive invariant, `IInv`.
What it adds to them: before the finalization is requested there is no job, message or handler
(`NotRequested`); while the session is created there is one request, which has the reservation
(`Creating`); an actor about to release the reservation, a handler about to remove the parts and a
working cleanup each imply that the session is no longer live (`Placed`, `CleanPlaced`); and the requests between
the write of a part and its row hold different parts, written and not yet recorded (`Held`). `Held` is why a
request that undoes its write never takes away another's part: the file is created exclusively, so whoever
has written it is alone with it. `Frames` says which actions change which variables and
`StatusMoves` how the status may change, so that each part of the invariant is proved over the few actions that
can disturb it. SettledStays is read off `StatusMoves`. `NoStray` strengthens NoStrayFile by
the part the cleanup is working on.

*WikiPublication.* The module's property is about what can be restored after any crash, so the
invariant has to say why the *newest* backup is the right one. `IInv` has ten parts. A
call in the middle of a swap that has not slept past its expiry still owns the lease
(`Leased`), so there is at most one; while `wiki/` is away, the call that moved it last keeps its backup,
which is newer than every other and which no recovery is about to remove (`Reachable`, `LastAway`), and
while it is there it is newer than every backup on which no removal has begun (`Ordered`), since a part of one may have any time; what the owner of the lease has read stays
true until it writes (`Writes`), and a call's changes are nowhere before it moves in (`Unseen`) and published after (`Kept`). That a newest backup exists
among the backups of any number of calls is the least element of a well-founded order on their age. The lemmas follow the
actions: moving away, moving in, restoring, removing a part or the rest, initializing. TLC checked `IInv` on the instance of
`wiki_publication` before it was proved. The refinement then needs one fact per
step: what a reader finds or the next recovery restores is unchanged or grows by the caller.

*AgentSessions.* A turn that has not begun has no run; the run of a turn that is
committing is still running, because a stop waits for the rows the commit holds. With it, each
way to end a run ends it once, and appends one event when it does: the events of a run
have a terminal one exactly when it has ended, and it is the last. For AnswerUnderGrant, the scope re-read by the commit is under the locks it took on the memberships.

*Ports.* `PortsIInv` has one part for each port, and `port` never changes, so each is proved as the invariant of its component.

* *Scripts.* The hard step is that of the projection, for a stream of any length. `Rank` and `NthRanked` say that the numbers of a finite
  set are enumerated in order and without repetition by their rank, which is how the sequence numbers arise: ranks grow with the numbers, so
  they are an injection into as many places as there are numbers, and an injection between finite sets of one size leaves out no place. `RowsInOrder` then gives each persisted row its place in the stream, in order
  and leaving out nothing but text, and the end and the answered tools of the rows are those of the stream.
* *Queues.* Each job is `Sound` (what RetriesBounded says of it) and every change keeps it so. That a key has one live job
  needs more: of the jobs of one key all but the last have been given up (`KeysInOrder`), and what is given up never comes back, so the
  last, at which an enqueue looks, speaks for all. It does not hold of PostgreSQL, whose
  enqueue looks and inserts in two statements; there the proof is that a job can be settled or handed back late by a caller that
  looked before, and is sound after that too. For the SQLite queue `FileIInv` adds that rows have ids of their own and, until the file is opened
  again, none above the counter. The first makes a statement by id a change of one row (`OneRowWritten`), so each call is shown to do to its row what the
  contract does to its job, by a lemma per statement (`ClaimJobIs` to `EnqueueRowIs`); the look for the last row of a key is the contract's map of keys because of `KeysInOrder` (`ExistingIsKnown`); the second
  is why an insert throws only after a restart.
* *Repository.* Events belong to runs that are there, runs to sessions that are there, and the events of a run are as many as their last number. An insert
  that is refused, by the id it draws after a restart or by a reference, leaves all of it alone (`Inserting`). The adapters differ only when
  `odd` says how.
* *Components.* What is graded was submitted, complete and without repetition, to a published test; a report was taken from a prefix of a log that only grows.

*Learning.* The four services share no variable; each has an inductive invariant about its instance in
`MCLearning`, and a step of `LearningSpec` is a step of one of them. *Reports:* a token is the number of the last claim
while the row is rendering, so a renderer that lost its claim cannot complete; only queued reports are
claimed, which have no artifacts unless a recovery queued them by id alone. *Skill runs:* the handler of a running run
is the one that claimed it, what it stored is what the run completes with, and what had lapsed at the claim stays
lapsed, so that such a handler stops before it executes. *Plans:* a confirmation that is alone has found every active
plan and course and holds their rows; one that was overlapped says so when it commits, which is the exception
OneActivePlan names. *Assessments:* each value a request read before its transaction either cannot change any more
or is compared again by the statement that depends on it; grades and mastery are then related row by row.

*WikiPages.* The calls exclude each other but stop anywhere, so `IInv` says what the steps not yet taken rely on
(`Calling`): a proposal still to be resolved has the revisions before it on disk, a conflict still to be published is
named by no page, one still to be settled has no page in dispute, and one that was withdrawn is not declared again. `Lint` (no page twice) is kept by a compilation
of any length and any file names: a draft is written to the one file of its position, and an earlier copy left in another
file fails the lint of the whole staging directory. For LockedByProposal each action is followed
  page by page: where the page is found again, by the invariant in one file only, and what it says there. A compilation leaves a locked page
  alone as long as no draft of another page is written to its file.

*Organization.* Six invariants, one of each part, joined in `OrganizationIInv`.

* *Storage.* `MapThenSumSet` folds a set in an order that depends on the set alone; two sums over one set
  therefore differ by what they differ in at one element. This is proved once, by well-founded induction on the subsets of a finite
  set given as a set (`Subsets`), which the provers can instantiate where the library's induction theorems cannot.
  The account (`Room`) then counts what is late twice, as slipped and as expected, and is kept by every step;
  `Seen` says that what a deciding transaction has read is what there is, or the difference slipped through.
* *Gateway.* `Standing` relates each place of a call to what it has locked, read and paid: the locks keep the counters it
  has read unchanged until it commits, so what it stores is what there was plus one. No call has paid in a window later than the
  present one, and a counter is the number of those who paid in the present one (`CountersAgree`), since a new window starts with
  no payer. Of two calls that wait, the one waited for has read more counters (`Place`), since all take them in one
  order (organization, provider, user); so a circle has no call that has read most.
* *Turn.* `TurnIInv` has three parts. `Moving`: the place decides what the turn has asked, fetched and told. `Around`: what has passed and what was begun are of
  their kinds. `Overtakes`: after a revocation a session's turn has only what had passed before it to begin, or has begun that and nothing else. A look after the revocation is refused
  and lets nothing pass, and to begin something uses up what had passed.
* *Access.* What a request read about a code, an invitation or an account stays true until it ends, or the row it writes
  is guarded by a condition or unique index; only the founder's own row is of an owner.
* *Documents.* What a request found (the versions, a blob by its hash) stays true until a version is inserted
  (`Looked`); a version inserted after another that the request had not seen is marked as raced.
* *Installations.* A request about to commit has disabled the only enabled row it saw, or found none, and
  holds the place in the unique index.

The proofs assume the named ASSUMEs of the modules and nothing else: identities are
distinct from `None`, from each other where they are tokens or keys of one table, and from the tags of unions; the bounds are naturals;
the writers and the calls are finitely many (their sums and counts are otherwise meaningless); and the sets that choose
operations, faults, compilations or contexts are subsets of those the module has. TLC evaluates them in the runs.

Only model-checked:

* liveness (EventuallySettled, IntentLive, FinalizingSettles, PartsReclaimed), which the prover does not handle;
* ReplaysAlike: it compares what two folds over a script compute, the compilation of a script to turns and the report of those turns, and only induction over
  the script could show that they agree, which is out of the prover's reach (the library's induction theorems take an operator as a
  parameter). TLC checks it for every valid script of up to five events, stopped at every place.

## What the code does that its documents do not say

Found while the code was translated, and taken into the models as it is. `bad_two_active` shows the
first and `bad_lock` the eighth; of the others the models have the steps, and the properties above say what holds nevertheless.

*Jobs.*

1. **Two active jobs** (`bad_two_active`). `doc/spec/job-cancel-resume-m2-06-v1.md:45`: a version has at most one
   active job. The check and the insert of a retry are not serialised (C:2314): two retries at once create two. One request at a time suffices as well, because the check counts only `queued` and `processing`
   where the document also names `cancel_requested`: a failed job is retried, the retry is cancelled while it runs, and the failed job is retried again.
2. **A cancellation may never be confirmed.** Line 20 of the same document says the worker confirms
   `cancel_requested` at a safe point. If the request lands between a handler's check and
   its next lease CAS, the CAS fails, the handler ends as lease-lost (W:663) and returns
   normally, and the message is gone: the job stays cancel_requested.
3. **Resume may strand a job.** Line 52 says the queue message exists or is published again. The message is resumed
   before the transaction that queues the job (C:2440) and may be consumed while the job is still cancelled; the job is then
   queued with nothing to deliver it.

*Uploads and storage.*

4. **A part that can never be written again.** `doc/spec/chunked-upload-m2-01-v1.md:63` says an interrupted upload is
   resumed by sending the missing parts again. A write that fails, or a request that dies before its insert,
   leaves a temporary file that makes every further write of that part fail
   (blob-store/src/index.ts:91) until the session expires.
5. **The quota can be exceeded.** `doc/spec/storage-quota-reservations-m2-01-m2-11-v1.md:13` says
   concurrent operations cannot get round the limit by reading the total at the same time. An upload that becomes a version
   between the two reads of another reservation (C:245) is counted in neither, because
   `persistUploadedResource` does not take the lock.
6. Overlapping uploads or replacements of one file create duplicates (C:2028); an insert that fails leaves an unreferenced blob.

*Wiki.*

7. **A publication can be lost.** `doc/spec/wiki-publication-lock-m3-06-v1.md:28` says a published wiki stays readable and can be recovered. The
   recovery at W:646 and the `initializeSpace` after it run before the lease is taken: between the two renames of
   another call (wiki/src/index.ts:925) they put an older backup or an empty wiki in place, and the second rename fails.
   A call that slept past its lease goes on renaming. And a recursive `rm` of a backup (wiki/src/index.ts:926, 243) that dies or fails midway leaves a part of it with a new
   time; if the next publication dies between its renames, recovery takes the part for the newest backup (232-234), and the wiki before it is lost.
8. **Approved text can be overwritten silently** (`bad_lock`). `doc/spec/wiki-review-lock-m3-05-v1.md:13` forbids it. A compilation names files by
   position: when a document's sections move, another page is written over the file of a reviewed one, whose text is gone and which is published anew elsewhere, as a draft.
   A proposal accepted on a page in conflict or deprecated goes past the dispute, and a recompilation revives a deprecated page as draft.
9. A declaration of a conflict whose pages are out but whose old wiki directory cannot be removed takes the conflict's directory away again
   (wiki/src/index.ts:1198): its pages stay in dispute, named by a conflict that nobody can decide. A second conflict over a shared page becomes undecidable; a process that dies between the conflict's directory and the publication
   leaves an open conflict that can neither be decided nor declared again. A rejected proposal (base, candidate) is never opened again.
   A document whose leading section disappears fails the lint (`DUPLICATE_ID`) from then on.
   The recovery at start skips a space whose dead owner's lease is still live.

*Agents.*

10. **A session whose binding was revoked or removed can never be read again.** `agent-organization-membership-revocation-m7-10-v1.md:26` says
    bindings recover; a removed binding cannot be added again (`ALREADY_BOUND`). Two concurrent additions duplicate the binding of a whole space.
11. The stop route aborts first and persists then; `agent-run-stream-stop-m5-02-v1.md:28` says the reverse. A run whose routing audit
    fails or whose process dies stays running and blocks the session until someone stops it.
12. Between a look at the bindings and what it allows lie awaits (for a model call the budget's transaction): a revocation in between lets one thing more begin.
    The three loops differ: an exhausted model budget makes the Pi turn complete with the extractive fallback and the
    internal one fail; a turn ended by the policy completes in Pi. The Pi loop has no bound on rounds, and unknown
    tools are answered by the library without a gate (pi-agent-turn.ts:86). A completed
    knowledge.list or unknown tool is reported as a search nobody requested (pi-agent-turn.ts:205); the internal loop leaves a requested read
    uncompleted when it selects nothing. An aborted run whose tool call was invalid settles as failed. A cancelled model request is charged.
13. The Pi adapter loses the tool events of a segment that fails and reorders interleaved tools and summaries;
    pi-adapter.ts:258 says the adapters are interchangeable. The persisted projection, used by tests only, refuses
    streams with knowledge.list and runs that end inside a tool.
14. `consumeRequestRateLimit` counts requests it denies.

*Learning and skills.*

15. **Two active plans.** `learning-content-plan-m6-01-m6-03-v1.md` says there is one active plan after a confirmation. Two overlapping
    confirmations leave two, or an archived plan's course active. State read before a transaction lets attempts and progress be stored for a
    course archived meanwhile; an assessment of an archived plan's course can never be finished. Learning events are
    lost if the process dies between the update and their insert.
16. A report whose sources are revoked at the claim ends in the dead letter queue still queued, one whose reads fail after the claim stays rendering until
    a worker starts after its lease; both block every new report of the course. Recovery by ids alone re-queues
    a report completed in between, whose second rendering fails on the unique index of artifacts.
17. The "expired" mark of an approval is rolled back by the throw that follows it. An approval can be used again within its ten minutes. A worker that
    dies leaves a skill run running for ever. A new version on disk under an old pin makes every run fail until it is enabled again.
    `cleanupFailedGenerationSession` deletes runs whose messages may be queued.

*Access and installations.*

18. Inviting a disabled member again is "accepted", leaves it disabled and never raises a role. Two
    invitations for one new address accepted together make the second fail on the unique e-mail. A sender that fails after delivering deletes the
    code it delivered; the SMTP client has no timeout. A space whose creator is disabled has no effective owner;
    nothing sets `users.disabled`. A trial space's wiki may stay uninitialized if the process dies after its commit.
19. Overlapping installations make the loser fail on the unique index. A revocation that overlaps a re-pin waits, matches no row and reports "not
    installed" while the new pin stays enabled. Discovery lists before it reads, so a mixed digest can be pinned, which later fails closed as drift.

*Ports.* `core/src/job-queue-port.ts:7` claims idempotent terminal states and exclusive claims.

20. In the PostgreSQL queue two concurrent enqueues with one key make two jobs and may return another call's record; a
    completed job can be queued again by an overlapping fail, and a stale worker can settle another's claim. SQLite ids restart
    when the file is opened again, so an enqueue throws on the unique id until the counter has passed the old rows, although sqlite-job-queue.ts:8
    calls its semantics identical to those of the in-memory adapter. The repository in memory marks a run settled before it checks the error code.

## Not modelled

Parsers, media tools and Python runtimes are sequential transformations of a file; the
model has their outcomes. The web pages, schemas and routes keep no state of their own, except
the routes that order several operations, which are modelled with them. Migration,
deployment and evaluation run outside the parts above. Also left out: wire formats of model and mail
providers; the generation of page text, querying and the schema migration of the wiki; the contents of
compiled manifests; verification of a blob when it is read; the ranking of evidence; login sessions and
the services that are one statement each (renaming, archiving, listing). Timing is qualitative: an
expiry may happen at any moment it is possible. Blobs are immutable, written before the
transaction that names them and never removed, so nothing depends on their fate.

## What is left

1. **Composition** of WikiPublication with the compile step of ProcessingJobs, whose wiki is one bit now; and
   of KnowledgeTurn with AgentSessions, which meet in the completion of a turn.
2. **Proofs**: every invariant and action property of the runs but ReplaysAlike is a theorem. What could follow is the converse for PostgreSQL, a contract weak enough that its
   queue implements it, if the adapter is ever deployed.
3. **Liveness** of turns, skill runs and reports, once the code recovers them by itself.
