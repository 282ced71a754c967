---------------------------- MODULE LearningReports ----------------------------
(***************************************************************************)
(* The report snapshots of one learner: a request freezes the report of    *)
(* the active course unless one is being made, a worker claims the         *)
(* snapshot under a token and a lease, renders it, stores the PNG and the  *)
(* PDF and completes it.  Workers die, outlast their lease and, when they  *)
(* start, queue the snapshots whose lease is over.                         *)
(*                                                                         *)
(* The outbox is the one of JobOutbox: here a pending row is sent.  The    *)
(* queue delivers a message until its handler returns or its deliveries    *)
(* are used up.                                                            *)
(***************************************************************************)
EXTENDS Naturals, FiniteSets

CONSTANTS
    Snapshots,    \* learning_report_snapshot rows
    Renderers,    \* workers
    MaxActive,    \* bounds the switches of plan
    MaxClaims,    \* bounds the claims of a snapshot, whose number is its token
    MaxStarts,    \* bounds the deaths of workers
    MaxDeliveries \* deliveries of a message, the retries included

VARIABLES
    active,    \* the plan whose report a request freezes
    report,    \* the snapshot's status, plan, token and lease
    claims,    \* history: claims of a snapshot
    artifacts, \* token of the learning_report_artifact rows, 0 when there are none
    files,     \* stored artifacts: pairs of snapshot and token
    outbox,    \* snapshots whose outbox row is pending
    message,   \* deliveries a snapshot's message has left
    renderer,  \* what a worker does
    starts,    \* of workers that died
    blind      \* history: snapshots a recovery queued that were no longer rendering

reportVars == <<active, report, claims, artifacts, files, outbox, message, renderer, starts, blind>>

Plans == 1..MaxActive
Tokens == 0..MaxClaims
Status == {"none", "queued", "rendering", "completed", "failed"}
Report == [status : Status, plan : 0..MaxActive, token : Tokens, late : BOOLEAN]
Place == {"recovering", "idle", "claiming", "rendering", "stored", "failing"}
Renderer == [place : Place, snapshot : Snapshots \cup {0}, token : Tokens,
             stale : SUBSET Snapshots]
Waiting == [place |-> "idle", snapshot |-> 0, token |-> 0, stale |-> {}]

TypeOK ==
    /\ active \in Plans
    /\ report \in [Snapshots -> Report] /\ claims \in [Snapshots -> Tokens]
    /\ artifacts \in [Snapshots -> Tokens] /\ files \subseteq Snapshots \X Tokens
    /\ outbox \subseteq Snapshots /\ message \in [Snapshots -> 0..MaxDeliveries]
    /\ renderer \in [Renderers -> Renderer]
    /\ blind \subseteq Snapshots /\ starts \in 0..MaxStarts

Init ==
    /\ active = 1
    /\ report = [s \in Snapshots |-> [status |-> "none", plan |-> 0, token |-> 0, late |-> FALSE]]
    /\ claims = [s \in Snapshots |-> 0] /\ artifacts = [s \in Snapshots |-> 0]
    /\ files = {} /\ outbox = {} /\ blind = {} /\ starts = 0
    /\ message = [s \in Snapshots |-> 0]
    /\ renderer = [w \in Renderers |-> Waiting]

InFlight(p) == {s \in Snapshots : report[s].status \in {"queued", "rendering"} /\ report[s].plan = p}

\* createActiveLearningReportSnapshot: the profile's row is locked and the plan
\* checked again, so that the request is one step.
CreateSnapshot(s) ==
    /\ report[s].status = "none" /\ InFlight(active) = {}
    /\ report' = [report EXCEPT ![s].status = "queued", ![s].plan = active]
    /\ outbox' = outbox \cup {s}
    /\ UNCHANGED <<active, claims, artifacts, files, message, renderer, starts, blind>>

Dispatch(s) ==
    /\ s \in outbox
    /\ outbox' = outbox \ {s} /\ message' = [message EXCEPT ![s] = MaxDeliveries]
    /\ UNCHANGED <<active, report, claims, artifacts, files, renderer, starts, blind>>

-----------------------------------------------------------------------------
\* A worker dies wherever it is and starts again, with the recovery of what is
\* late before it works.
ReadExpired(w) ==
    /\ starts < MaxStarts /\ starts' = starts + 1
    /\ renderer' = [renderer EXCEPT ![w] =
           [Waiting EXCEPT !.place = "recovering",
                           !.stale = {s \in Snapshots : report[s].status = "rendering"
                                                        /\ report[s].late}]]
    /\ UNCHANGED <<active, report, claims, artifacts, files, outbox, message, blind>>

\* The update names the snapshots and nothing else.
RequeueExpired(w) ==
    /\ renderer[w].place = "recovering"
    /\ LET stale == renderer[w].stale
       IN /\ report' = [s \in Snapshots |->
                 IF s \in stale
                 THEN [report[s] EXCEPT !.status = "queued", !.token = 0, !.late = FALSE]
                 ELSE report[s]]
          /\ outbox' = outbox \cup stale
          /\ blind' = blind \cup {s \in stale : report[s].status # "rendering"}
    /\ renderer' = [renderer EXCEPT ![w] = Waiting]
    /\ UNCHANGED <<active, claims, artifacts, files, message, starts>>

Take(w, s) ==
    /\ renderer[w] = Waiting /\ message[s] > 0
    /\ message' = [message EXCEPT ![s] = @ - 1]
    /\ renderer' = IF report[s].status = "queued"
                   THEN [renderer EXCEPT ![w].place = "claiming", ![w].snapshot = s]
                   ELSE renderer
    /\ UNCHANGED <<active, report, claims, artifacts, files, outbox, starts, blind>>

\* Unreadable sources fail the delivery before the claim; what fails right after
\* it leaves the snapshot rendering.
Refuse(w) ==
    /\ renderer[w].place = "claiming"
    /\ renderer' = [renderer EXCEPT ![w] = Waiting]
    /\ UNCHANGED <<active, report, claims, artifacts, files, outbox, message, starts, blind>>

Claimable(s) == report[s].status = "queued"

\* A handler that returns completes its message.
Claim(w) ==
    /\ renderer[w].place = "claiming"
    /\ LET s == renderer[w].snapshot
       IN IF Claimable(s)
          THEN /\ claims[s] < MaxClaims
               /\ claims' = [claims EXCEPT ![s] = @ + 1]
               /\ report' = [report EXCEPT ![s].status = "rendering", ![s].late = FALSE,
                                           ![s].token = claims[s] + 1]
               /\ \/ renderer' = [renderer EXCEPT ![w].place = "rendering",
                                                  ![w].token = claims[s] + 1]
                  \/ renderer' = [renderer EXCEPT ![w] = Waiting]
          ELSE /\ renderer' = [renderer EXCEPT ![w] = Waiting]
               /\ UNCHANGED <<claims, report>>
    /\ UNCHANGED <<active, artifacts, files, outbox, message, starts, blind>>

\* The PNG and the PDF are rendered and stored, or one of the two fails.  A
\* file's name holds the token: no two executions write the same one.
RenderFiles(w) ==
    /\ renderer[w].place = "rendering"
    /\ \/ /\ files' = files \cup {<<renderer[w].snapshot, renderer[w].token>>}
          /\ renderer' = [renderer EXCEPT ![w].place = "stored"]
       \/ /\ renderer' = [renderer EXCEPT ![w].place = "failing"]
          /\ UNCHANGED files
    /\ UNCHANGED <<active, report, claims, artifacts, outbox, message, starts, blind>>

\* Mutant: whoever renders may complete, whatever token the snapshot has now.
StillRendering(s, t) == report[s].status = "rendering"

OwnsSnapshot(s, t) == report[s].status = "rendering" /\ report[s].token = t

\* Artifact rows that exist already roll the completion back.
Complete(w) ==
    /\ renderer[w].place = "stored"
    /\ LET s == renderer[w].snapshot
       IN IF OwnsSnapshot(s, renderer[w].token) /\ artifacts[s] = 0
          THEN /\ report' = [report EXCEPT ![s].status = "completed", ![s].token = 0,
                                           ![s].late = FALSE]
               /\ artifacts' = [artifacts EXCEPT ![s] = renderer[w].token]
               /\ message' = [message EXCEPT ![s] = 0]
               /\ renderer' = [renderer EXCEPT ![w] = Waiting]
          ELSE /\ renderer' = [renderer EXCEPT ![w].place = "failing"]
               /\ UNCHANGED <<report, artifacts, message>>
    /\ UNCHANGED <<active, claims, files, outbox, starts, blind>>

Fail(w) ==
    /\ renderer[w].place = "failing"
    /\ LET s == renderer[w].snapshot
       IN report' = IF OwnsSnapshot(s, renderer[w].token)
                    THEN [report EXCEPT ![s].status = "failed", ![s].token = 0, ![s].late = FALSE]
                    ELSE report
    /\ renderer' = [renderer EXCEPT ![w] = Waiting]
    /\ UNCHANGED <<active, claims, artifacts, files, outbox, message, starts, blind>>

-----------------------------------------------------------------------------
LeaseEnds(s) ==
    /\ report[s].status = "rendering" /\ ~report[s].late
    /\ report' = [report EXCEPT ![s].late = TRUE]
    /\ UNCHANGED <<active, claims, artifacts, files, outbox, message, renderer, starts, blind>>

SwitchActive ==
    /\ active < MaxActive /\ active' = active + 1
    /\ UNCHANGED <<report, claims, artifacts, files, outbox, message, renderer, starts, blind>>

Work(w) == \/ ReadExpired(w) \/ RequeueExpired(w) \/ (\E s \in Snapshots : Take(w, s))
           \/ Refuse(w) \/ Claim(w) \/ RenderFiles(w) \/ Complete(w) \/ Fail(w)

Next == \/ \E s \in Snapshots : CreateSnapshot(s) \/ Dispatch(s) \/ LeaseEnds(s)
        \/ \E w \in Renderers : Work(w)
        \/ SwitchActive

Spec == Init /\ [][Next]_reportVars

-----------------------------------------------------------------------------
(***************************************************************************)
(* Properties.                                                             *)
(***************************************************************************)

\* A completed report shows the stored files of the last execution that claimed
\* it, whichever workers outlasted their lease; a plan has one report in the
\* making; and a report that has its artifacts is settled.  The last two hold of
\* reports that no recovery queued after they had settled.
ReportsHonest ==
    /\ \A s \in Snapshots :
          /\ artifacts[s] # 0 => <<s, artifacts[s]>> \in files
          /\ report[s].status = "completed" => artifacts[s] # 0
          /\ s \notin blind =>
                /\ artifacts[s] # 0 <=> report[s].status = "completed"
                /\ artifacts[s] \in {0, claims[s]}
    /\ \A p \in Plans : Cardinality(InFlight(p) \ blind) <= 1
=============================================================================
