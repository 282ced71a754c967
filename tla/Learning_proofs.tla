----------------------------- MODULE Learning_proofs -----------------------------
(***************************************************************************)
(* Proofs about the four services of learning, for any number of requests, *)
(* workers and rows.  Each service has its inductive invariant, proved of  *)
(* the instance that MCLearning runs; a step of LearningSpec is a step of  *)
(* one service, which leaves the variables of the others as they were, so  *)
(* the four compose at the end.                                            *)
(***************************************************************************)
EXTENDS MCLearning, FiniteSetTheorems, TLAPS

-----------------------------------------------------------------------------
(***************************************************************************)
(* LearningReports.  The invariant ties the token of a report to the       *)
(* claims made of it: only the last claim can complete the report, and a   *)
(* report that may be claimed again has no artifacts yet.                  *)
(***************************************************************************)
ReportShape == [status : Status, plan : Nat, token : Nat, late : BOOLEAN]
RendererShape == [place : Place, snapshot : Snapshots \cup {0}, token : Nat, stale : SUBSET Snapshots]

Shaped ==
    /\ report \in [Snapshots -> ReportShape]
    /\ claims \in [Snapshots -> Nat]
    /\ artifacts \in [Snapshots -> Nat]
    /\ renderer \in [Renderers -> RendererShape]

\* The token of a report is the number of its last claim, while it is rendered.
Tokened(s) ==
    report[s].token = IF report[s].status = "rendering" THEN claims[s] ELSE 0

\* A worker at a snapshot has claimed it, and has stored what it reports stored.
Working(w) ==
    LET s == renderer[w].snapshot
        t == renderer[w].token
    IN  /\ renderer[w].place \in {"claiming", "rendering", "stored", "failing"} => s \in Snapshots
        /\ renderer[w].place \in {"rendering", "stored", "failing"} => t \in 1 .. claims[s]
        /\ renderer[w].place = "stored" => <<s, t>> \in files

\* The first conjunct of ReportsHonest.
Shown(s) ==
    /\ artifacts[s] # 0 => <<s, artifacts[s]>> \in files
    /\ report[s].status = "completed" => artifacts[s] # 0
    /\ s \notin blind =>
          /\ artifacts[s] # 0 <=> report[s].status = "completed"
          /\ artifacts[s] \in {0, claims[s]}

\* Two reports of one plan are not in the making at once.
OneInFlight ==
    \A s, t \in Snapshots \ blind :
        /\ report[s].status \in {"queued", "rendering"}
        /\ report[t].status \in {"queued", "rendering"}
        /\ report[s].plan = report[t].plan
        => s = t

IInv ==
    /\ Shaped /\ OneInFlight
    /\ \A s \in Snapshots : Tokened(s) /\ Shown(s)
    /\ \A w \in Renderers : Working(w)

-------------------------------------------------------------------------------
LEMMA InitIInv == Init => IInv
<1> SUFFICES ASSUME Init PROVE IInv
  OBVIOUS
<1>1. Shaped
  BY DEF Init, Shaped, ReportShape, RendererShape, Status, Place, Waiting
<1>2. OneInFlight
  BY DEF Init, OneInFlight
<1>3. \A s \in Snapshots : Tokened(s) /\ Shown(s)
  BY DEF Init, Tokened, Shown
<1>4. \A w \in Renderers : Working(w)
  BY DEF Init, Working, Waiting
<1> QED BY <1>1, <1>2, <1>3, <1>4 DEF IInv

\* A worker that goes back to waiting relies on nothing.
LEMMA Waits ==
    ASSUME IInv, NEW w \in Renderers, renderer' = [renderer EXCEPT ![w] = Waiting],
           claims' = claims, files \subseteq files'
    PROVE  (renderer \in [Renderers -> RendererShape])' /\ \A v \in Renderers : Working(v)'
<1>1. Waiting \in RendererShape
  BY DEF Waiting, RendererShape, Place
<1>2. (renderer \in [Renderers -> RendererShape])'
  BY <1>1 DEF IInv, Shaped
<1>3. \A v \in Renderers : renderer'[v] = IF v = w THEN Waiting ELSE renderer[v]
  BY DEF IInv, Shaped
<1>4. \A v \in Renderers : Working(v)'
  BY <1>3 DEF IInv, Working, Waiting
<1> QED BY <1>2, <1>4

\* A report after a step that changes some of its columns.
LEMMA Updated ==
    ASSUME NEW r \in ReportShape, NEW status \in Status, NEW token \in Nat
    PROVE  [r EXCEPT !.status = status, !.token = token, !.late = FALSE] \in ReportShape
BY DEF ReportShape

\* What a step that leaves the reports alone keeps.
LEMMA Untouched ==
    ASSUME IInv, UNCHANGED <<report, claims, artifacts, blind>>, files \subseteq files',
           (renderer \in [Renderers -> RendererShape])', \A w \in Renderers : Working(w)'
    PROVE  IInv'
BY DEF IInv, Shaped, OneInFlight, Tokened, Shown

-------------------------------------------------------------------------------
LEMMA CreateIInv ==
    ASSUME IInv, active \in Nat, NEW s \in Snapshots, CreateSnapshot(s) PROVE IInv'
<1>1. /\ report' = [report EXCEPT ![s].status = "queued", ![s].plan = active]
      /\ report[s].status = "none" /\ InFlight(active) = {}
      /\ UNCHANGED <<claims, artifacts, files, renderer, blind>>
  BY DEF CreateSnapshot
<1>2. /\ \A t \in Snapshots \ {s} : report'[t] = report[t]
      /\ report'[s].status = "queued" /\ report'[s].plan = active
      /\ report'[s].token = report[s].token
  BY <1>1 DEF IInv, Shaped, ReportShape
<1>3. Shaped'
  BY <1>1 DEF IInv, Shaped, ReportShape, Status
<1>4. \A t \in Snapshots : Tokened(t)' /\ Shown(t)'
  BY <1>1, <1>2 DEF IInv, Tokened, Shown
<1>5. OneInFlight'
  <2>1. \A t \in Snapshots : report[t].status \in {"queued", "rendering"} => report[t].plan # active
    BY <1>1 DEF InFlight
  <2> SUFFICES ASSUME NEW t \in Snapshots \ blind', NEW u \in Snapshots \ blind',
                      report'[t].status \in {"queued", "rendering"},
                      report'[u].status \in {"queued", "rendering"},
                      report'[t].plan = report'[u].plan
               PROVE  t = u
    BY DEF OneInFlight
  <2>2. t \in Snapshots \ blind /\ u \in Snapshots \ blind
    BY <1>1
  <2>3. CASE t # s /\ u # s
    BY <1>2, <2>2, <2>3 DEF IInv, OneInFlight
  <2>4. CASE t = s /\ u # s
    BY <1>2, <2>1, <2>4
  <2>5. CASE t # s /\ u = s
    BY <1>2, <2>1, <2>5
  <2> QED BY <2>3, <2>4, <2>5
<1>6. \A w \in Renderers : Working(w)'
  BY <1>1 DEF IInv, Working
<1> QED BY <1>3, <1>4, <1>5, <1>6 DEF IInv

LEMMA RequeueIInv == ASSUME IInv, NEW w \in Renderers, RequeueExpired(w) PROVE IInv'
<1> DEFINE stale == renderer[w].stale
<1>1. /\ report' = [s \in Snapshots |->
                      IF s \in stale
                      THEN [report[s] EXCEPT !.status = "queued", !.token = 0, !.late = FALSE]
                      ELSE report[s]]
      /\ blind' = blind \cup {s \in stale : report[s].status # "rendering"}
      /\ renderer' = [renderer EXCEPT ![w] = Waiting]
      /\ UNCHANGED <<claims, artifacts, files>>
  BY DEF RequeueExpired
<1>2. \A s \in Snapshots :
        /\ report'[s] \in ReportShape
        /\ report'[s].plan = report[s].plan
        /\ IF s \in stale THEN report'[s].status = "queued" /\ report'[s].token = 0
                          ELSE report'[s] = report[s]
  <2> SUFFICES ASSUME NEW s \in Snapshots
               PROVE  /\ report'[s] \in ReportShape
                      /\ report'[s].plan = report[s].plan
                      /\ IF s \in stale THEN report'[s].status = "queued" /\ report'[s].token = 0
                                        ELSE report'[s] = report[s]
    OBVIOUS
  <2>1. report[s] \in ReportShape
    BY DEF IInv, Shaped
  <2>2. report'[s] = IF s \in stale
                     THEN [report[s] EXCEPT !.status = "queued", !.token = 0, !.late = FALSE]
                     ELSE report[s]
    BY <1>1
  <2>3. CASE s \in stale
    <3>1. report'[s] = [report[s] EXCEPT !.status = "queued", !.token = 0, !.late = FALSE]
      BY <2>2, <2>3
    <3>2. report'[s] \in ReportShape
      <4>1. "queued" \in Status /\ 0 \in Nat
        BY DEF Status
      <4>2. [report[s] EXCEPT !.status = "queued", !.token = 0, !.late = FALSE] \in ReportShape
        BY <2>1, <4>1, Updated
      <4> QED BY <3>1, <4>2
    <3>3. /\ report'[s].plan = report[s].plan
          /\ report'[s].status = "queued" /\ report'[s].token = 0
      BY <2>1, <3>1 DEF ReportShape
    <3> QED BY <2>3, <3>2, <3>3
  <2>4. CASE s \notin stale
    BY <2>1, <2>2, <2>4
  <2> QED BY <2>3, <2>4
<1>3. (renderer \in [Renderers -> RendererShape])' /\ \A v \in Renderers : Working(v)'
  BY <1>1, Waits
<1>4. Shaped'
  BY <1>1, <1>2, <1>3 DEF IInv, Shaped
<1>5. \A s \in Snapshots : Tokened(s)' /\ Shown(s)'
  BY <1>1, <1>2 DEF IInv, Tokened, Shown
<1>6. OneInFlight'
  <2>1. stale \subseteq Snapshots
    BY DEF IInv, Shaped, RendererShape
  <2>2. \A s \in Snapshots \ blind' :
           s \notin blind /\ (report'[s].status \in {"queued", "rendering"}
                                => report[s].status \in {"queued", "rendering"})
    BY <1>1, <1>2, <2>1
  <2> QED BY <1>2, <2>2 DEF IInv, OneInFlight
<1> QED BY <1>3, <1>4, <1>5, <1>6 DEF IInv

LEMMA TakeIInv ==
    ASSUME IInv, NEW w \in Renderers, NEW s \in Snapshots, Take(w, s) PROVE IInv'
<1>1. /\ UNCHANGED <<report, claims, artifacts, files, blind>>
      /\ renderer' = renderer \/ renderer' = [renderer EXCEPT ![w].place = "claiming", ![w].snapshot = s]
  BY DEF Take
<1>2. CASE renderer' = renderer
  BY <1>1, <1>2, Untouched DEF IInv, Shaped, Working
<1>3. CASE renderer' = [renderer EXCEPT ![w].place = "claiming", ![w].snapshot = s]
  <2>1. \A v \in Renderers : /\ v # w => renderer'[v] = renderer[v]
                             /\ renderer'[w].place = "claiming" /\ renderer'[w].snapshot = s
    BY <1>3 DEF IInv, Shaped, RendererShape
  <2>2. (renderer \in [Renderers -> RendererShape])'
    BY ZenonT(60), <1>3 DEF IInv, Shaped, RendererShape, Place
  <2>3. \A v \in Renderers : Working(v)'
    BY <1>1, <2>1 DEF IInv, Working
  <2> QED BY <1>1, <2>2, <2>3, Untouched
<1> QED BY <1>1, <1>2, <1>3

\* Only a queued report is claimed, which has no artifacts unless it is blind.
LEMMA ClaimIInv == ASSUME IInv, NEW w \in Renderers, Claim(w) PROVE IInv'
<1>a. PICK s \in Snapshots : s = renderer[w].snapshot
  BY DEF Claim, IInv, Working
<1>0. UNCHANGED <<artifacts, files, blind>>
  BY DEF Claim
<1>1. CASE renderer' = [renderer EXCEPT ![w] = Waiting] /\ UNCHANGED <<claims, report>>
  BY <1>0, <1>1, Waits, Untouched
<1>2. CASE /\ report[s].status = "queued"
           /\ claims' = [claims EXCEPT ![s] = @ + 1]
           /\ report' = [report EXCEPT ![s].status = "rendering", ![s].late = FALSE,
                                       ![s].token = claims[s] + 1]
           /\ \/ renderer' = [renderer EXCEPT ![w].place = "rendering", ![w].token = claims[s] + 1]
              \/ renderer' = [renderer EXCEPT ![w] = Waiting]
  <2>1. /\ \A t \in Snapshots \ {s} : report'[t] = report[t] /\ claims'[t] = claims[t]
        /\ claims[s] \in Nat /\ claims'[s] = claims[s] + 1
        /\ report'[s].status = "rendering" /\ report'[s].token = claims[s] + 1
        /\ report'[s].plan = report[s].plan
    BY <1>0, <1>2 DEF IInv, Shaped, ReportShape
  <2>2. (report \in [Snapshots -> ReportShape])' /\ (claims \in [Snapshots -> Nat])'
    <3>1. (claims \in [Snapshots -> Nat])'
      BY <1>2, <2>1 DEF IInv, Shaped
    <3>2. [report[s] EXCEPT !.status = "rendering", !.token = claims[s] + 1, !.late = FALSE]
             \in ReportShape
      <4>1. "rendering" \in Status /\ claims[s] + 1 \in Nat /\ report[s] \in ReportShape
        BY <2>1 DEF Status, IInv, Shaped
      <4> QED BY <4>1, Updated
    <3>3. report' = [report EXCEPT ![s] = [report[s] EXCEPT !.status = "rendering",
                                                            !.token = claims[s] + 1, !.late = FALSE]]
      BY <1>2
    <3> QED BY <3>1, <3>2, <3>3 DEF IInv, Shaped
  <2>3. \A v \in Renderers : /\ v # w => renderer'[v] = renderer[v]
                             /\ \/ renderer'[w] = Waiting
                                \/ /\ renderer'[w].place = "rendering" /\ renderer'[w].snapshot = s
                                   /\ renderer'[w].token = claims[s] + 1
    BY <1>a, <1>2 DEF IInv, Shaped, RendererShape
  <2>4. (renderer \in [Renderers -> RendererShape])'
    <3>1. Waiting \in RendererShape
      BY DEF Waiting, RendererShape, Place
    <3> QED BY <1>2, <2>1, <3>1 DEF IInv, Shaped, RendererShape, Place
  <2>5. \A t \in Snapshots : claims[t] \in Nat /\ claims'[t] \in Nat /\ claims[t] <= claims'[t]
    BY <2>1 DEF IInv, Shaped
  <2>6. \A v \in Renderers : Working(v)'
    <3> SUFFICES ASSUME NEW v \in Renderers PROVE Working(v)'
      OBVIOUS
    <3>1. CASE v # w
      BY <1>0, <2>3, <2>5, <3>1 DEF IInv, Working
    <3>2. CASE v = w
      BY <1>0, <2>1, <2>3, <3>2 DEF Working, Waiting
    <3> QED BY <3>1, <3>2
  <2>7. \A t \in Snapshots : Tokened(t)' /\ Shown(t)'
    <3>1. \A t \in Snapshots \ {s} : Tokened(t)' /\ Shown(t)'
      BY <1>0, <2>1 DEF IInv, Tokened, Shown
    <3>2. Tokened(s)'
      BY <1>0, <2>1 DEF Tokened
    <3>3. Shown(s)'
      BY <1>0, <1>2, <2>1 DEF IInv, Shown
    <3> QED BY <3>1, <3>2, <3>3
  <2>8. OneInFlight'
    <3>1. ASSUME NEW v \in Snapshots
          PROVE  /\ report'[v].plan = report[v].plan
                 /\ report'[v].status \in {"queued", "rendering"}
                       => report[v].status \in {"queued", "rendering"}
      BY <1>2, <2>1
    <3> SUFFICES ASSUME NEW t \in Snapshots \ blind', NEW u \in Snapshots \ blind',
                        report'[t].status \in {"queued", "rendering"},
                        report'[u].status \in {"queued", "rendering"},
                        report'[t].plan = report'[u].plan
                 PROVE  t = u
      BY DEF OneInFlight
    <3>2. t \in Snapshots \ blind /\ u \in Snapshots \ blind
      BY <1>0
    <3>3. /\ report[t].status \in {"queued", "rendering"}
          /\ report[u].status \in {"queued", "rendering"}
          /\ report[t].plan = report[u].plan
      <4>1. t \in Snapshots /\ u \in Snapshots
        OBVIOUS
      <4>2. report'[t].plan = report[t].plan /\ report'[u].plan = report[u].plan
        BY <3>1, <4>1
      <4>3. report[t].status \in {"queued", "rendering"}
        BY <3>1, <4>1
      <4>4. report[u].status \in {"queued", "rendering"}
        BY <3>1, <4>1
      <4> QED BY <4>2, <4>3, <4>4
    <3> QED BY <3>2, <3>3 DEF IInv, OneInFlight
  <2> QED BY <1>0, <2>2, <2>4, <2>6, <2>7, <2>8 DEF IInv, Shaped
<1> QED BY <1>a, <1>1, <1>2 DEF Claim, Claimable

LEMMA RenderIInv == ASSUME IInv, NEW w \in Renderers, RenderFiles(w) PROVE IInv'
<1>1. /\ UNCHANGED <<report, claims, artifacts, blind>> /\ files \subseteq files'
      /\ renderer[w].place = "rendering"
  BY DEF RenderFiles
<1>2. CASE /\ files' = files \cup {<<renderer[w].snapshot, renderer[w].token>>}
           /\ renderer' = [renderer EXCEPT ![w].place = "stored"]
  <2>1. /\ \A v \in Renderers \ {w} : renderer'[v] = renderer[v]
        /\ renderer'[w].place = "stored" /\ renderer'[w].snapshot = renderer[w].snapshot
        /\ renderer'[w].token = renderer[w].token
    BY <1>2 DEF IInv, Shaped, RendererShape
  <2>2. (renderer \in [Renderers -> RendererShape])'
    BY <1>2 DEF IInv, Shaped, RendererShape, Place
  <2>3. \A v \in Renderers : Working(v)'
    BY <1>1, <1>2, <2>1 DEF IInv, Working
  <2> QED BY <1>1, <2>2, <2>3, Untouched
<1>3. CASE renderer' = [renderer EXCEPT ![w].place = "failing"] /\ UNCHANGED files
  <2>1. /\ \A v \in Renderers \ {w} : renderer'[v] = renderer[v]
        /\ renderer'[w].place = "failing" /\ renderer'[w].snapshot = renderer[w].snapshot
        /\ renderer'[w].token = renderer[w].token
    BY <1>3 DEF IInv, Shaped, RendererShape
  <2>2. (renderer \in [Renderers -> RendererShape])'
    BY <1>3 DEF IInv, Shaped, RendererShape, Place
  <2>3. \A v \in Renderers : Working(v)'
    BY <1>1, <1>3, <2>1 DEF IInv, Working
  <2> QED BY <1>1, <2>2, <2>3, Untouched
<1> QED BY <1>2, <1>3 DEF RenderFiles

\* The token of who completes is the report's, hence that of the last claim.
LEMMA CompleteIInv == ASSUME IInv, NEW w \in Renderers, Complete(w) PROVE IInv'
<1> DEFINE s == renderer[w].snapshot
           t == renderer[w].token
<1>0. /\ s \in Snapshots /\ t \in 1 .. claims[s] /\ <<s, t>> \in files
      /\ UNCHANGED <<claims, files, blind>>
  BY DEF Complete, IInv, Working
<1>1. CASE /\ report[s].status = "rendering" /\ report[s].token = t /\ artifacts[s] = 0
           /\ report' = [report EXCEPT ![s].status = "completed", ![s].token = 0, ![s].late = FALSE]
           /\ artifacts' = [artifacts EXCEPT ![s] = t]
           /\ renderer' = [renderer EXCEPT ![w] = Waiting]
  <2>1. /\ \A u \in Snapshots \ {s} : report'[u] = report[u] /\ artifacts'[u] = artifacts[u]
        /\ report'[s].status = "completed" /\ report'[s].token = 0
        /\ artifacts'[s] = t
    BY <1>0, <1>1 DEF IInv, Shaped, ReportShape
  <2>2. t = claims[s] /\ t \in Nat /\ t # 0
    BY <1>0, <1>1 DEF IInv, Tokened, Shaped
  <2>3. (report \in [Snapshots -> ReportShape])' /\ (artifacts \in [Snapshots -> Nat])'
    BY <1>0, <1>1, <2>2 DEF IInv, Shaped, ReportShape, Status
  <2>4. (renderer \in [Renderers -> RendererShape])' /\ \A v \in Renderers : Working(v)'
    BY <1>0, <1>1, Waits
  <2>5. \A u \in Snapshots : Tokened(u)' /\ Shown(u)'
    BY <1>0, <2>1, <2>2 DEF IInv, Tokened, Shown
  <2>6. OneInFlight'
    BY <1>0, <2>1 DEF IInv, OneInFlight
  <2> QED BY <1>0, <2>3, <2>4, <2>5, <2>6 DEF IInv, Shaped
<1>2. CASE renderer' = [renderer EXCEPT ![w].place = "failing"] /\ UNCHANGED <<report, artifacts>>
  <2>1. /\ \A v \in Renderers \ {w} : renderer'[v] = renderer[v]
        /\ renderer'[w].place = "failing" /\ renderer'[w].snapshot = s /\ renderer'[w].token = t
    BY <1>2 DEF IInv, Shaped, RendererShape
  <2>2. (renderer \in [Renderers -> RendererShape])'
    BY <1>2 DEF IInv, Shaped, RendererShape, Place
  <2>3. \A v \in Renderers : Working(v)'
    BY <1>0, <2>1 DEF IInv, Working
  <2> QED BY <1>0, <1>2, <2>2, <2>3, Untouched
<1> QED BY <1>1, <1>2 DEF Complete, OwnsSnapshot

LEMMA FailIInv == ASSUME IInv, NEW w \in Renderers, Fail(w) PROVE IInv'
<1>a. PICK s \in Snapshots : s = renderer[w].snapshot
  BY DEF Fail, IInv, Working
<1>0. /\ renderer' = [renderer EXCEPT ![w] = Waiting]
      /\ UNCHANGED <<claims, artifacts, files, blind>>
  BY DEF Fail
<1>1. (renderer \in [Renderers -> RendererShape])' /\ \A v \in Renderers : Working(v)'
  BY <1>0, Waits
<1>2. CASE UNCHANGED report
  BY <1>0, <1>1, <1>2, Untouched
<1>3. CASE /\ report[s].status = "rendering"
           /\ report' = [report EXCEPT ![s].status = "failed", ![s].token = 0, ![s].late = FALSE]
  <2>1. /\ \A u \in Snapshots \ {s} : report'[u] = report[u]
        /\ report'[s].status = "failed" /\ report'[s].token = 0
    BY <1>0, <1>3 DEF IInv, Shaped, ReportShape
  <2>2. (report \in [Snapshots -> ReportShape])'
    BY ZenonT(60), <1>0, <1>3 DEF IInv, Shaped, ReportShape, Status
  <2>3. \A u \in Snapshots : Tokened(u)' /\ Shown(u)'
    <3>1. \A u \in Snapshots \ {s} : Tokened(u)' /\ Shown(u)'
      BY <1>0, <2>1 DEF IInv, Tokened, Shown
    <3>2. Tokened(s)'
      BY <2>1 DEF Tokened
    <3>3. Shown(s)'
      BY <1>0, <1>3, <2>1 DEF IInv, Shown
    <3> QED BY <3>1, <3>2, <3>3
  <2>4. OneInFlight'
    BY <1>0, <2>1 DEF IInv, OneInFlight
  <2> QED BY <1>0, <1>1, <2>2, <2>3, <2>4 DEF IInv, Shaped
<1> QED BY <1>a, <1>2, <1>3 DEF Fail, OwnsSnapshot

LEMMA LeaseEndsIInv == ASSUME IInv, NEW s \in Snapshots, LeaseEnds(s) PROVE IInv'
<1>1. /\ report' = [report EXCEPT ![s].late = TRUE]
      /\ UNCHANGED <<claims, artifacts, files, renderer, blind>>
  BY DEF LeaseEnds
<1>2. \A t \in Snapshots : /\ report'[t].status = report[t].status
                           /\ report'[t].plan = report[t].plan /\ report'[t].token = report[t].token
  BY <1>1 DEF IInv, Shaped, ReportShape
<1>3. Shaped'
  BY <1>1 DEF IInv, Shaped, ReportShape
<1> QED BY <1>1, <1>2, <1>3 DEF IInv, OneInFlight, Tokened, Shown, Working

LEMMA ActiveNext == active \in Nat /\ [Next]_reportVars => (active \in Nat)'
<1> SUFFICES ASSUME active \in Nat, [Next]_reportVars, active' # active PROVE (active \in Nat)'
  OBVIOUS
<1>1. ASSUME NEW s \in Snapshots PROVE ~ (CreateSnapshot(s) \/ Dispatch(s) \/ LeaseEnds(s))
  BY DEF CreateSnapshot, Dispatch, LeaseEnds
<1>2. ASSUME NEW w \in Renderers PROVE ~ Work(w)
  BY DEF Work, ReadExpired, RequeueExpired, Take, Refuse, Claim, RenderFiles, Complete, Fail
<1>3. SwitchActive
  BY <1>1, <1>2 DEF Next, reportVars
<1> QED BY <1>3 DEF SwitchActive

LEMMA NextIInv == IInv /\ active \in Nat /\ [Next]_reportVars => IInv'
<1> SUFFICES ASSUME IInv, active \in Nat, [Next]_reportVars PROVE IInv'
  OBVIOUS
<1>1. ASSUME UNCHANGED <<report, claims, artifacts, blind, files, renderer>> PROVE IInv'
  BY <1>1, Untouched DEF IInv, Shaped, Working
<1>2. CASE UNCHANGED reportVars
  BY <1>1, <1>2 DEF reportVars
<1>3. ASSUME NEW s \in Snapshots, Dispatch(s) PROVE IInv'
  BY <1>1, <1>3 DEF Dispatch
<1>4. CASE SwitchActive
  BY <1>1, <1>4 DEF SwitchActive
<1>5. ASSUME NEW w \in Renderers, ReadExpired(w) PROVE IInv'
  <2>1. PICK stale \in SUBSET Snapshots :
           renderer' = [renderer EXCEPT ![w] = [Waiting EXCEPT !.place = "recovering", !.stale = stale]]
    BY <1>5 DEF ReadExpired
  <2>2. [Waiting EXCEPT !.place = "recovering", !.stale = stale] \in RendererShape
    BY DEF Waiting, RendererShape, Place
  <2>3. (renderer \in [Renderers -> RendererShape])'
    BY <2>1, <2>2 DEF IInv, Shaped
  <2>4. /\ \A v \in Renderers \ {w} : renderer'[v] = renderer[v]
        /\ renderer'[w].place = "recovering"
    BY <2>1 DEF IInv, Shaped, Waiting
  <2>5. UNCHANGED <<report, claims, artifacts, blind, files>>
    BY <1>5 DEF ReadExpired
  <2>6. \A v \in Renderers : Working(v)'
    BY <2>4, <2>5 DEF IInv, Working
  <2> QED BY <2>3, <2>5, <2>6, Untouched
<1>6. ASSUME NEW w \in Renderers, Refuse(w) PROVE IInv'
  BY <1>6, Waits, Untouched DEF Refuse
<1> QED
  BY <1>2, <1>3, <1>4, <1>5, <1>6, CreateIInv, RequeueIInv, TakeIInv, ClaimIInv, RenderIInv,
     CompleteIInv, FailIInv, LeaseEndsIInv DEF Next, Work

LEMMA Inductive == Spec => []IInv
<1>1. Init => active \in Nat
  BY DEF Init
<1> QED BY <1>1, InitIInv, ActiveNext, NextIInv, PTL DEF Spec

\* A completed report shows the stored files of the last execution that claimed it,
\* whichever workers outlasted their lease or died, and a plan has at most one report
\* in the making; both but for reports a recovery queued after they had settled.
THEOREM ReportsHonestHolds == Spec => []ReportsHonest
<1>1. ASSUME IInv PROVE ReportsHonest
  <2>1. ASSUME NEW p \in Plans PROVE Cardinality(InFlight(p) \ blind) <= 1
    <3>1. \A s, t \in InFlight(p) \ blind : s = t
      BY <1>1 DEF IInv, OneInFlight, InFlight
    <3>2. CASE InFlight(p) \ blind = {}
      BY <3>2, FS_EmptySet
    <3>3. ASSUME NEW s \in InFlight(p) \ blind PROVE Cardinality(InFlight(p) \ blind) <= 1
      <4>1. InFlight(p) \ blind = {s}
        BY <3>1, <3>3
      <4> QED BY <4>1, FS_Singleton
    <3> QED BY <3>2, <3>3
  <2> QED BY <1>1, <2>1 DEF IInv, Shown, ReportsHonest
<1> QED BY <1>1, Inductive, PTL

LEMMA ReportTypeInit == Init => TypeOK
  BY ReportAssumption DEF Init, TypeOK, Plans, Tokens, Report, Renderer, Status, Place, Waiting

\* Reports and workers keep their shapes when a field changes.
LEMMA ReportTypeStep == IInv /\ TypeOK /\ [Next]_reportVars => TypeOK'
<1> SUFFICES ASSUME IInv, TypeOK, [Next]_reportVars PROVE TypeOK'
  OBVIOUS
<1>1. Waiting \in Renderer
  BY ReportAssumption DEF Waiting, Renderer, Place, Tokens
<1>8. (\A t \in Snapshots : report[t] \in Report) /\ active \in 0..MaxActive /\ 0 \in Tokens
  BY ReportAssumption DEF TypeOK, Plans, Tokens
<1>2. ASSUME NEW s \in Snapshots, CreateSnapshot(s) PROVE TypeOK'
  <2>1. [report[s] EXCEPT !.status = "queued", !.plan = active] \in Report
    BY <1>8 DEF Report, Status
  <2>2. report' \in [Snapshots -> Report]
    BY <1>2, <2>1 DEF CreateSnapshot, TypeOK
  <2> QED BY <1>2, <2>2 DEF CreateSnapshot, TypeOK
<1>3. ASSUME NEW s \in Snapshots, Dispatch(s) PROVE TypeOK'
  <2>1. message' \in [Snapshots -> 0..MaxDeliveries]
    BY <1>3, ReportAssumption DEF Dispatch, TypeOK
  <2> QED BY <1>3, <2>1 DEF Dispatch, TypeOK
<1>4. ASSUME NEW s \in Snapshots, LeaseEnds(s) PROVE TypeOK'
  <2>1. [report[s] EXCEPT !.late = TRUE] \in Report
    BY DEF TypeOK, Report
  <2>2. report' \in [Snapshots -> Report]
    BY <1>4, <2>1 DEF LeaseEnds, TypeOK
  <2> QED BY <1>4, <2>2 DEF LeaseEnds, TypeOK
<1>5. CASE SwitchActive
  <2>1. active' \in Plans
    BY <1>5, ReportAssumption DEF SwitchActive, TypeOK, Plans
  <2> QED BY <1>5, <2>1 DEF SwitchActive, TypeOK
<1>6. ASSUME NEW w \in Renderers, Work(w) PROVE TypeOK'
  <2>1. renderer[w] \in Renderer /\ Working(w)
    BY DEF IInv, TypeOK
  <2> DEFINE s == renderer[w].snapshot
  <2>2. \A p \in Place : [renderer[w] EXCEPT !.place = p] \in Renderer
    BY <2>1 DEF Renderer
  <2>3. CASE ReadExpired(w)
    <3> DEFINE stale == {t \in Snapshots : report[t].status = "rendering" /\ report[t].late}
    <3>1. [Waiting EXCEPT !.place = "recovering", !.stale = stale] \in Renderer
      BY <1>1 DEF Renderer, Place
    <3>2. renderer' \in [Renderers -> Renderer]
      BY <2>3, <3>1 DEF ReadExpired, TypeOK
    <3>3. starts' \in 0..MaxStarts
      BY <2>3, ReportAssumption DEF ReadExpired, TypeOK
    <3> QED BY <2>3, <3>2, <3>3 DEF ReadExpired, TypeOK
  <2>4. CASE RequeueExpired(w)
    <3>1. renderer[w].stale \subseteq Snapshots
      BY <2>1 DEF Renderer
    <3>2. \A t \in Snapshots : [report[t] EXCEPT !.status = "queued", !.token = 0, !.late = FALSE] \in Report
      BY <1>8 DEF Report, Status
    <3>3. report' \in [Snapshots -> Report] /\ renderer' \in [Renderers -> Renderer]
      BY <1>1, <2>4, <3>2 DEF RequeueExpired, TypeOK
    <3> QED BY <2>4, <3>1, <3>3 DEF RequeueExpired, TypeOK
  <2>5. ASSUME NEW t \in Snapshots, Take(w, t) PROVE TypeOK'
    <3>1. [renderer[w] EXCEPT !.place = "claiming", !.snapshot = t] \in Renderer
      BY <2>1 DEF Renderer, Place
    <3>2. renderer' \in [Renderers -> Renderer]
      BY <2>5, <3>1 DEF Take, TypeOK
    <3>3. message' \in [Snapshots -> 0..MaxDeliveries]
      BY <2>5, ReportAssumption DEF Take, TypeOK
    <3> QED BY <2>5, <3>2, <3>3 DEF Take, TypeOK
  <2>6. CASE Refuse(w)
    BY <1>1, <2>6 DEF Refuse, TypeOK
  <2>7. CASE Claim(w)
    <3>1. CASE UNCHANGED <<claims, report>> /\ renderer' = [renderer EXCEPT ![w] = Waiting]
      BY <1>1, <2>7, <3>1 DEF Claim, TypeOK
    <3>2. CASE Claimable(s)
      <4>1. s \in Snapshots /\ claims[s] + 1 \in Tokens
        BY <2>1, <2>7, <3>2, ReportAssumption DEF Claim, Working, TypeOK, Tokens
      <4>2. [report[s] EXCEPT !.status = "rendering", !.late = FALSE, !.token = claims[s] + 1] \in Report
        BY <4>1 DEF TypeOK, Report, Status
      <4>3. [renderer[w] EXCEPT !.place = "rendering", !.token = claims[s] + 1] \in Renderer
        BY <2>1, <4>1 DEF Renderer, Place
      <4>4. report' \in [Snapshots -> Report] /\ claims' \in [Snapshots -> Tokens]
        BY <2>7, <3>2, <4>1, <4>2 DEF Claim, TypeOK
      <4>5. renderer' \in [Renderers -> Renderer]
        <5>1. CASE renderer' = [renderer EXCEPT ![w] = Waiting]
          BY <1>1, <5>1 DEF TypeOK
        <5>2. CASE renderer' = [renderer EXCEPT ![w].place = "rendering", ![w].token = claims[s] + 1]
          <6>1. renderer' = [renderer EXCEPT ![w] = [renderer[w] EXCEPT !.place = "rendering", !.token = claims[s] + 1]]
            BY <5>2
          <6> QED BY <4>3, <6>1 DEF TypeOK
        <5> QED BY <2>7, <3>2, <5>1, <5>2 DEF Claim
      <4> QED BY <2>7, <4>4, <4>5 DEF Claim, TypeOK
    <3> QED BY <2>7, <3>1, <3>2 DEF Claim
  <2>8. CASE RenderFiles(w)
    <3>1. <<s, renderer[w].token>> \in Snapshots \X Tokens
      BY <2>1, <2>8 DEF RenderFiles, Working, Renderer
    <3>2. renderer' \in [Renderers -> Renderer]
      BY <2>2, <2>8 DEF RenderFiles, TypeOK, Place
    <3> QED BY <2>8, <3>1, <3>2 DEF RenderFiles, TypeOK
  <2>9. CASE Complete(w)
    <3>1. s \in Snapshots /\ renderer[w].token \in Tokens
      BY <2>1, <2>9 DEF Complete, Working, Renderer
    <3>2. [report[s] EXCEPT !.status = "completed", !.token = 0, !.late = FALSE] \in Report
      BY <1>8, <3>1 DEF Report, Status
    <3>3. renderer' \in [Renderers -> Renderer]
      BY <1>1, <2>2, <2>9 DEF Complete, TypeOK, Place
    <3>4. /\ report' \in [Snapshots -> Report] /\ artifacts' \in [Snapshots -> Tokens]
          /\ message' \in [Snapshots -> 0..MaxDeliveries]
      <4>1. CASE UNCHANGED <<report, artifacts, message>>
        BY <4>1 DEF TypeOK
      <4>2. CASE OwnsSnapshot(s, renderer[w].token) /\ artifacts[s] = 0
        <5>1. report' = [report EXCEPT ![s] = [report[s] EXCEPT !.status = "completed", !.token = 0, !.late = FALSE]]
          BY <2>9, <4>2 DEF Complete
        <5>2. artifacts' = [artifacts EXCEPT ![s] = renderer[w].token] /\ message' = [message EXCEPT ![s] = 0]
          BY <2>9, <4>2 DEF Complete
        <5> QED BY <3>1, <3>2, <5>1, <5>2, ReportAssumption DEF TypeOK
      <4> QED BY <2>9, <4>1, <4>2 DEF Complete
    <3> QED BY <2>9, <3>3, <3>4 DEF Complete, TypeOK
  <2>10. CASE Fail(w)
    <3>1. s \in Snapshots
      BY <2>1, <2>10 DEF Fail, Working
    <3>2. [report[s] EXCEPT !.status = "failed", !.token = 0, !.late = FALSE] \in Report
      BY <1>8, <3>1 DEF Report, Status
    <3>3. report' \in [Snapshots -> Report] /\ renderer' \in [Renderers -> Renderer]
      BY <1>1, <2>10, <3>1, <3>2 DEF Fail, TypeOK
    <3> QED BY <2>10, <3>3 DEF Fail, TypeOK
  <2> QED BY <1>6, <2>3, <2>4, <2>5, <2>6, <2>7, <2>8, <2>9, <2>10 DEF Work
<1>7. CASE UNCHANGED reportVars
  BY <1>7 DEF reportVars, TypeOK
<1> QED BY <1>2, <1>3, <1>4, <1>5, <1>6, <1>7 DEF Next

-----------------------------------------------------------------------------
(***************************************************************************)
(* Skills.  One handler has a run that is running, what it stored is what  *)
(* the run will complete with, and an approval that ended stays ended: a   *)
(* handler of a run that had lapsed when it was claimed stops before it    *)
(* executes.                                                               *)
(***************************************************************************)
\* Counting means the same in the instance.
LEMMA SkillCardinality == ASSUME NEW X PROVE S!Cardinality(X) = Cardinality(X)
  BY DEF S!Cardinality, Cardinality

Handler == [run : Runs \cup {None}, place : S!Place \cup {"idle"}, scope : BOOLEAN, lapsed : BOOLEAN]
Session == [status : {"active", "archived", "deleted"}, readable : BOOLEAN, bound : BOOLEAN]

SkillShape ==
    /\ kind \in S!Kinds /\ skill \in [version : S!Versions, pin : S!Pin \cup {None}]
    /\ session \in Session
    /\ approval \in [Approvals -> S!Approval \cup {None}]
    /\ skillRun \in [Runs -> S!SkillRun \cup {None}]
    /\ messages \in [Runs -> Nat]
    /\ worker \in [Workers -> Handler]
    /\ \A w \in Workers : worker[w] = S!Idle \/ (worker[w].run \in Runs /\ worker[w].place \in S!Place)
    /\ candidates \in [Runs -> 0..1]
    /\ skillFaults \in 0..MaxFaults

Candidate == IF kind = "generate" THEN 1 ELSE 0

\* What a handler works on is running, unless the session is gone with its rows.
Handling(w) ==
    LET r == worker[w].run
    IN  worker[w].place # "idle" =>
            /\ session.status # "deleted" => skillRun[r] # None
            /\ skillRun[r] # None => skillRun[r].status = "running"
            /\ worker[w].place # "completing" => candidates[r] = 0
            /\ worker[w].place = "completing" /\ skillRun[r] # None => candidates[r] = Candidate
            /\ worker[w].place = "produced" => kind = "generate"

OneHandler ==
    \A v, w \in Workers : worker[v].place # "idle" /\ worker[v].run = worker[w].run => v = w

\* Candidates go with their rows, and a run that asked has an approval for good.
Recorded(r) ==
    /\ session.status = "deleted" => skillRun[r] = None
    /\ skillRun[r] = None => candidates[r] = 0
    /\ skillRun[r] # None =>
          /\ skillRun[r].status \in {"queued", "failed"} => candidates[r] = 0
          /\ skillRun[r].status = "completed" => candidates[r] = Candidate
          /\ S!Asks => /\ skillRun[r].approval \in Approvals
                       /\ approval[skillRun[r].approval] # None
                       /\ approval[skillRun[r].approval].status = "approved"

Expired(r) == skillRun[r] # None => approval[skillRun[r].approval].late

\* A handler of a run that had lapsed stops at the scope or at the approval.
Stops(w) ==
    worker[w].lapsed =>
        \/ worker[w].place = "failing"
        \/ worker[w].place = "claimed" /\ ~session.bound
        \/ worker[w].place = "resolved" /\ ~worker[w].scope
        \/ worker[w].place \in {"claimed", "resolved", "checked"} /\ S!Asks /\ Expired(worker[w].run)

SkillIInv ==
    /\ SkillShape /\ OneHandler
    /\ \A w \in Workers : Handling(w) /\ Stops(w)
    /\ \A r \in Runs : Recorded(r)

LEMMA SkillInit == S!Init => SkillIInv
<1> SUFFICES ASSUME S!Init PROVE SkillIInv
  OBVIOUS
<1>1. SkillShape
  BY SkillAssumption DEF S!Init, SkillShape, S!Versions, S!Idle, Handler, Session
<1>2. \A w \in Workers : Handling(w) /\ Stops(w)
  BY DEF S!Init, Handling, Stops, S!Idle
<1> QED BY <1>1, <1>2 DEF S!Init, SkillIInv, OneHandler, Recorded, S!Idle

LEMMA SkillSafe == SkillIInv => S!TypeOK /\ S!RunsOnce /\ S!LapsedNeverRuns
<1> SUFFICES ASSUME SkillIInv PROVE S!TypeOK /\ S!RunsOnce /\ S!LapsedNeverRuns
  OBVIOUS
<1>1. S!TypeOK
  BY DEF SkillIInv, SkillShape, Session, S!TypeOK
<1>2. S!LapsedNeverRuns
  BY DEF SkillIInv, Stops, S!LapsedNeverRuns
<1>3. ASSUME NEW r \in Runs, skillRun[r] # None
      PROVE  Cardinality(S!Working(r)) <= IF skillRun[r].status = "running" THEN 1 ELSE 0
  <2>1. \A w \in S!Working(r) : worker[w].place # "idle" /\ skillRun[r].status = "running"
    BY <1>3, SkillAssumption DEF S!Working, SkillIInv, SkillShape, Handling, S!Idle, S!Place
  <2>2. CASE S!Working(r) = {}
    BY <2>2, FS_EmptySet
  <2>3. CASE S!Working(r) # {}
    <3>1. PICK w \in Workers : w \in S!Working(r)
      BY <2>3 DEF S!Working
    <3>2. S!Working(r) = {w}
      BY <2>1, <3>1 DEF S!Working, SkillIInv, OneHandler
    <3>3. Cardinality({w}) = 1
      BY FS_Singleton
    <3> QED BY <2>1, <3>1, <3>2, <3>3
  <2> QED BY <2>2, <2>3
<1>4. S!RunsOnce
  BY <1>3, SkillCardinality DEF SkillIInv, Recorded, S!RunsOnce, Candidate
<1> QED BY <1>1, <1>2, <1>4

-----------------------------------------------------------------------------
\* Requests leave the handlers, their rows and the candidates as they are.
LEMMA RequestKeeps ==
  ASSUME SkillIInv, SkillShape', UNCHANGED <<kind, skillRun, worker, candidates>>,
         session.status = "deleted" <=> session'.status = "deleted",
         session'.bound => session.bound,
         \A a \in Approvals : approval[a] # None =>
             /\ approval'[a] # None
             /\ approval[a].status = "approved" => approval'[a].status = "approved"
             /\ approval[a].late => approval'[a].late
  PROVE  SkillIInv'
<1>1. \A w \in Workers : Handling(w)'
  BY DEF SkillIInv, Handling, Candidate
<1>2. \A r \in Runs : Recorded(r)'
  BY DEF SkillIInv, Recorded, Candidate, S!Asks
<1>3. ASSUME NEW r \in Runs, S!Asks, Expired(r) PROVE Expired(r)'
  BY <1>3 DEF SkillIInv, Recorded, Expired
<1>4. \A w \in Workers : worker[w].lapsed => worker[w].run \in Runs
  BY DEF SkillIInv, SkillShape, S!Idle
<1>5. \A w \in Workers : Stops(w)'
  BY <1>3, <1>4 DEF SkillIInv, Stops, S!Asks
<1> QED BY <1>1, <1>2, <1>5 DEF SkillIInv, OneHandler

\* A run is queued where there was no row.
LEMMA QueueKeeps ==
  ASSUME SkillIInv, NEW r \in Runs, NEW a \in Approvals \cup {None}, S!QueueRun(r, a),
         session.status = "active", skillRun[r] = None
  PROVE  SkillIInv'
<1>1. session' \in Session /\ session'.status = session.status /\ (session'.bound => session.bound)
  BY DEF S!QueueRun, S!Unbind, S!InScope, SkillIInv, SkillShape, Session
<1>2. CASE UNCHANGED <<skillRun, messages>>
  <2>1. SkillShape'
    BY <1>1, <1>2 DEF S!QueueRun, SkillIInv, SkillShape
  <2> QED BY <1>1, <1>2, <2>1, RequestKeeps DEF S!QueueRun
<1>3. CASE /\ S!Asks => a # None /\ S!Live(a)
           /\ skillRun' = [skillRun EXCEPT ![r] =
                 [status |-> "queued", version |-> skill.version, approval |-> a]]
           /\ messages' = [messages EXCEPT ![r] = 1]
  <2> DEFINE row == [status |-> "queued", version |-> skill.version, approval |-> a]
  <2>1. row \in S!SkillRun /\ row # None /\ row.status = "queued" /\ row.approval = a
    BY SkillAssumption DEF SkillIInv, SkillShape, S!SkillRun
  <2> HIDE DEF row
  <2>2. \A q \in Runs : skillRun'[q] = IF q = r THEN row ELSE skillRun[q]
    BY <1>3 DEF SkillIInv, SkillShape, row
  <2>3. UNCHANGED <<kind, skill, approval, worker, candidates, skillFaults>>
    BY DEF S!QueueRun
  <2>4. SkillShape'
    <3>1. skillRun' \in [Runs -> S!SkillRun \cup {None}]
      BY <1>3, <2>1 DEF SkillIInv, SkillShape, row
    <3>2. messages' \in [Runs -> Nat]
      BY <1>3 DEF SkillIInv, SkillShape
    <3> QED BY <1>1, <2>3, <3>1, <3>2 DEF SkillIInv, SkillShape
  <2>5. \A w \in Workers : worker[w].place # "idle" => worker[w].run \in Runs /\ worker[w].run # r
    BY DEF SkillIInv, SkillShape, S!Idle, Handling
  <2>6. \A w \in Workers : Handling(w)'
    BY <1>1, <2>2, <2>3, <2>5 DEF SkillIInv, Handling, Candidate
  <2>7. \A w \in Workers : Stops(w)'
    <3>1. \A w \in Workers : worker[w].lapsed => worker[w].place # "idle"
      BY DEF SkillIInv, SkillShape, S!Idle, S!Place
    <3> QED BY <1>1, <2>2, <2>3, <2>5, <3>1 DEF SkillIInv, Stops, Expired, S!Asks
  <2>8. ASSUME NEW q \in Runs PROVE Recorded(q)'
    BY <1>1, <1>3, <2>1, <2>2, <2>3 DEF SkillIInv, Recorded, Candidate, S!Asks, S!Live
  <2> QED BY <2>3, <2>4, <2>6, <2>7, <2>8 DEF SkillIInv, OneHandler
<1> QED BY <1>2, <1>3 DEF S!QueueRun

\* A handler goes on from a place to the next, and nothing is stored.
LEMMA MoveKeeps ==
  ASSUME SkillIInv, NEW w \in Workers, worker[w].place # "idle", NEW place \in S!Place,
         NEW scope \in BOOLEAN,
         worker' = [worker EXCEPT ![w].place = place, ![w].scope = scope],
         UNCHANGED <<kind, skill, approval, skillRun, messages, candidates, skillFaults>>,
         session' \in Session, session'.status = session.status, session'.bound => session.bound,
         worker[w].place # "completing",
         place = "completing" => kind # "generate", place = "produced" => kind = "generate",
         Stops(w)'
  PROVE  SkillIInv'
<1> DEFINE h == [worker[w] EXCEPT !.place = place, !.scope = scope]
<1>1. h \in Handler /\ h.run = worker[w].run /\ h.place = place /\ h.run \in Runs
  <2>1. worker[w] \in Handler /\ worker[w].run \in Runs
    BY DEF SkillIInv, SkillShape, S!Idle
  <2> QED BY <2>1 DEF Handler
<1>2. \A v \in Workers : worker'[v] = IF v = w THEN h ELSE worker[v]
  BY DEF SkillIInv, SkillShape
<1>3. worker' = [worker EXCEPT ![w] = h]
  BY DEF SkillIInv, SkillShape
<1> HIDE DEF h
<1>4. SkillShape'
  <2>1. worker' \in [Workers -> Handler]
    BY <1>1, <1>3 DEF SkillIInv, SkillShape
  <2>2. \A v \in Workers : worker'[v] = S!Idle \/ (worker'[v].run \in Runs /\ worker'[v].place \in S!Place)
    BY <1>1, <1>2 DEF SkillIInv, SkillShape
  <2> QED BY <2>1, <2>2 DEF SkillIInv, SkillShape
<1>5. OneHandler'
  BY <1>1, <1>2 DEF SkillIInv, OneHandler, S!Place
<1>6. ASSUME NEW v \in Workers PROVE Handling(v)'
  <2>1. CASE v = w
    <3>1. Handling(w)
      BY DEF SkillIInv
    <3> QED BY <1>1, <1>2, <2>1, <3>1 DEF Handling, Candidate
  <2>2. CASE v # w
    <3>1. Handling(v) /\ worker'[v] = worker[v]
      BY <1>2, <2>2 DEF SkillIInv
    <3> QED BY <3>1 DEF Handling, Candidate
  <2> QED BY <2>1, <2>2
<1>7. ASSUME NEW v \in Workers PROVE Stops(v)'
  <2>1. CASE v = w
    BY <2>1
  <2>2. CASE v # w
    <3>1. Stops(v) /\ worker'[v] = worker[v]
      BY <1>2, <2>2 DEF SkillIInv
    <3> QED BY <3>1 DEF Stops, Expired, S!Asks
  <2> QED BY <2>1, <2>2
<1>8. \A r \in Runs : Recorded(r)'
  BY DEF SkillIInv, Recorded, Candidate, S!Asks
<1> QED BY <1>4, <1>5, <1>6, <1>7, <1>8 DEF SkillIInv

LEMMA ClaimKeeps ==
  ASSUME SkillIInv, NEW w \in Workers, NEW r \in Runs, S!Claim(w, r)
  PROVE  SkillIInv'
<1>1. messages' \in [Runs -> Nat] /\ UNCHANGED <<kind, skill, session, approval, candidates, skillFaults>>
  BY DEF S!Claim, SkillIInv, SkillShape
<1>2. CASE UNCHANGED <<skillRun, worker>>
  <2>1. SkillShape'
    BY <1>1, <1>2 DEF SkillIInv, SkillShape
  <2> QED BY <1>1, <1>2, <2>1, RequestKeeps
<1>3. CASE skillRun[r] # None /\ skillRun[r].status = "queued"
  <2> DEFINE h == [run |-> r, place |-> "claimed", scope |-> FALSE,
                   lapsed |-> ~session.bound \/ (S!Asks /\ ~S!Live(skillRun[r].approval))]
             row == [skillRun[r] EXCEPT !.status = "running"]
  <2>1. /\ h \in Handler /\ h.run = r /\ h.place = "claimed"
        /\ h.lapsed = (~session.bound \/ (S!Asks /\ ~S!Live(skillRun[r].approval)))
    BY DEF Handler, SkillIInv, SkillShape, Session, S!Place
  <2>2. row \in S!SkillRun /\ row # None /\ row.status = "running" /\ row.approval = skillRun[r].approval
    BY <1>3, SkillAssumption DEF SkillIInv, SkillShape, S!SkillRun
  <2>3. worker' = [worker EXCEPT ![w] = h] /\ skillRun' = [skillRun EXCEPT ![r] = row]
    BY <1>3 DEF S!Claim
  <2> HIDE DEF h, row
  <2>4. \A v \in Workers : worker'[v] = IF v = w THEN h ELSE worker[v]
    BY <2>3 DEF SkillIInv, SkillShape
  <2>5. \A q \in Runs : skillRun'[q] = IF q = r THEN row ELSE skillRun[q]
    BY <2>3 DEF SkillIInv, SkillShape
  <2>6. SkillShape'
    <3>1. worker' \in [Workers -> Handler] /\ skillRun' \in [Runs -> S!SkillRun \cup {None}]
      BY <2>1, <2>2, <2>3 DEF SkillIInv, SkillShape
    <3>2. \A v \in Workers : worker'[v] = S!Idle \/ (worker'[v].run \in Runs /\ worker'[v].place \in S!Place)
      BY <2>1, <2>4 DEF SkillIInv, SkillShape, S!Place
    <3> QED BY <1>1, <3>1, <3>2 DEF SkillIInv, SkillShape
  <2>7. \A v \in Workers : worker[v].place # "idle" => worker[v].run \in Runs /\ worker[v].run # r
    BY <1>3 DEF SkillIInv, SkillShape, S!Idle, Handling
  <2>8. \A v \in Workers : worker[v].run # r
    BY <2>7, SkillAssumption DEF SkillIInv, SkillShape, S!Idle, S!Place
  <2>9. OneHandler'
    BY <2>1, <2>4, <2>8 DEF SkillIInv, OneHandler
  <2>10. session.status # "deleted" /\ candidates[r] = 0
    BY <1>3 DEF SkillIInv, Recorded
  <2>11. ASSUME NEW v \in Workers PROVE Handling(v)'
    BY <1>1, <2>1, <2>2, <2>4, <2>5, <2>7, <2>10 DEF SkillIInv, Handling, Candidate
  <2>12. ASSUME NEW v \in Workers PROVE Stops(v)'
    <3>1. CASE v = w
      <4>1. S!Asks => /\ approval[row.approval] # None
                      /\ approval[row.approval].status = "approved"
        BY <1>3, <2>2 DEF SkillIInv, Recorded
      <4> QED BY ZenonT(60), <1>1, <2>1, <2>2, <2>4, <2>5, <3>1, <4>1 DEF Stops, S!Live, Expired, S!Asks
    <3>2. CASE v # w
      <4>1. worker[v].lapsed => worker[v].place # "idle"
        BY DEF SkillIInv, SkillShape, S!Idle, S!Place
      <4> QED BY <1>1, <2>4, <2>5, <2>7, <3>2, <4>1 DEF SkillIInv, Stops, Expired, S!Asks
    <3> QED BY <3>1, <3>2
  <2>13. ASSUME NEW q \in Runs PROVE Recorded(q)'
    BY <1>1, <1>3, <2>2, <2>5, <2>10 DEF SkillIInv, Recorded, Candidate, S!Asks
  <2> QED BY <2>6, <2>9, <2>11, <2>12, <2>13 DEF SkillIInv
<1> QED BY <1>2, <1>3 DEF S!Claim

\* A handler ends: its run keeps its row or is settled with its candidate.
LEMMA EndKeeps ==
  ASSUME SkillIInv, NEW w \in Workers, worker[w].place # "idle",
         worker' = [worker EXCEPT ![w] = S!Idle],
         UNCHANGED <<kind, skill, session, approval, candidates>>,
         messages' \in [Runs -> Nat], skillFaults' \in 0..MaxFaults,
         \/ UNCHANGED skillRun
         \/ /\ skillRun[worker[w].run] # None
            /\ \E status \in {"completed", "failed"} :
                  /\ (status = "completed") <=> (worker[w].place = "completing")
                  /\ skillRun' = [skillRun EXCEPT ![worker[w].run].status = status]
  PROVE  SkillIInv'
<1>1. worker[w].run \in Runs /\ Handling(w)
  BY DEF SkillIInv, SkillShape, S!Idle
<1>2. \A v \in Workers : worker'[v] = IF v = w THEN S!Idle ELSE worker[v]
  BY DEF SkillIInv, SkillShape
<1>3. S!Idle \in Handler /\ S!Idle.place = "idle" /\ ~S!Idle.lapsed
  BY DEF S!Idle, Handler
<1>4. OneHandler'
  <2>1. \A v \in Workers : worker[v].place # "idle" => worker[v].run # S!Idle.run
    BY SkillAssumption DEF SkillIInv, SkillShape, S!Idle
  <2> QED BY <1>2, <1>3, <2>1 DEF SkillIInv, OneHandler
<1>5. \A v \in Workers : v # w /\ worker[v].place # "idle" =>
                            worker[v].run \in Runs /\ worker[v].run # worker[w].run
  BY DEF SkillIInv, SkillShape, S!Idle, OneHandler
<1>6. ASSUME NEW status \in {"completed", "failed"}, skillRun[worker[w].run] # None
      PROVE  LET row == [skillRun[worker[w].run] EXCEPT !.status = status]
             IN  row \in S!SkillRun /\ row # None /\ row.status = status
                 /\ row.approval = skillRun[worker[w].run].approval
  BY <1>1, <1>6, SkillAssumption DEF SkillIInv, SkillShape, S!SkillRun
<1>7. SkillShape'
  <2>1. worker' \in [Workers -> Handler]
    BY <1>3 DEF SkillIInv, SkillShape
  <2>2. skillRun' \in [Runs -> S!SkillRun \cup {None}]
    BY <1>1, <1>6 DEF SkillIInv, SkillShape
  <2> QED BY <1>2, <2>1, <2>2 DEF SkillIInv, SkillShape
<1>8. \A q \in Runs : q # worker[w].run => skillRun'[q] = skillRun[q]
  BY DEF SkillIInv, SkillShape
<1>9. ASSUME NEW v \in Workers PROVE Handling(v)' /\ Stops(v)'
  <2>1. CASE v = w
    BY <1>2, <1>3, <2>1 DEF Handling, Stops
  <2>2. CASE v # w
    <3>1. worker[v].lapsed => worker[v].place # "idle"
      BY DEF SkillIInv, SkillShape, S!Idle, S!Place
    <3> QED BY <1>2, <1>5, <1>8, <2>2, <3>1 DEF SkillIInv, Handling, Stops, Candidate, Expired,
       S!Asks
  <2> QED BY <2>1, <2>2
<1>10. ASSUME NEW q \in Runs PROVE Recorded(q)'
  <2>1. CASE q # worker[w].run \/ UNCHANGED skillRun
    BY <1>8, <2>1 DEF SkillIInv, Recorded, Candidate, S!Asks
  <2>2. CASE q = worker[w].run /\ ~UNCHANGED skillRun
    <3>1. PICK status \in {"completed", "failed"} :
             /\ skillRun[q] # None
             /\ (status = "completed") <=> (worker[w].place = "completing")
             /\ skillRun' = [skillRun EXCEPT ![q].status = status]
      BY <2>2
    <3>2. /\ skillRun'[q] # None /\ skillRun'[q].status = status
          /\ skillRun'[q].approval = skillRun[q].approval
      BY <1>1, <1>6, <2>2, <3>1 DEF SkillIInv, SkillShape
    <3>3. candidates[q] = IF status = "completed" THEN Candidate ELSE 0
      BY <1>1, <2>2, <3>1 DEF Handling
    <3> QED BY <2>2, <3>1, <3>2, <3>3 DEF SkillIInv, Recorded, Candidate, S!Asks
  <2> QED BY <2>1, <2>2
<1> QED BY <1>4, <1>7, <1>9, <1>10 DEF SkillIInv

LEMMA WorkerKeeps ==
  ASSUME SkillIInv, NEW w \in Workers, S!Work(w) \/ S!Crash(w)
  PROVE  SkillIInv'
<1>1. worker[w] \in Handler /\ Handling(w) /\ Stops(w)
  BY DEF SkillIInv, SkillShape
<1>2. session \in Session
  BY DEF SkillIInv, SkillShape
<1>3. ASSUME S!Resolve(w) PROVE SkillIInv'
  <2>1. CASE session.status = "active"
    <3>1. session' = S!Unbind /\ session' \in Session /\ session'.status = session.status
          /\ (session'.bound => session.bound) /\ (S!InScope => session.bound)
      BY <1>2, <1>3, <2>1 DEF S!Resolve, S!Unbind, S!InScope, Session
    <3>2. worker' = [worker EXCEPT ![w].place = "resolved", ![w].scope = S!InScope] /\ S!InScope \in BOOLEAN
      BY <1>2, <1>3, <2>1 DEF S!Resolve, S!InScope, Session
    <3>3. worker'[w].place = "resolved" /\ worker'[w].scope = S!InScope
          /\ worker'[w].run = worker[w].run /\ worker'[w].lapsed = worker[w].lapsed
      BY <1>1, <3>2 DEF SkillIInv, SkillShape, Handler
    <3>4. UNCHANGED <<kind, skill, approval, skillRun, messages, candidates, skillFaults>>
          /\ worker[w].place = "claimed"
      BY <1>3 DEF S!Resolve
    <3>5. Stops(w)'
      BY <1>1, <3>1, <3>3, <3>4 DEF Stops, Expired, S!Asks
    <3> QED BY <3>1, <3>2, <3>4, <3>5, MoveKeeps DEF S!Place
  <2>2. CASE session.status # "active"
    <3>1. worker' = [worker EXCEPT ![w].place = "failing", ![w].scope = worker[w].scope]
          /\ worker'[w].place = "failing"
      BY <1>1, <1>3, <2>2 DEF S!Resolve, S!Goes, SkillIInv, SkillShape, Handler
    <3>2. UNCHANGED <<kind, skill, session, approval, skillRun, messages, candidates, skillFaults>>
          /\ worker[w].place = "claimed" /\ worker[w].scope \in BOOLEAN
      BY <1>1, <1>3, <2>2 DEF S!Resolve, Handler
    <3>3. Stops(w)'
      BY <3>1 DEF Stops
    <3> QED BY <1>2, <3>1, <3>2, <3>3, MoveKeeps DEF S!Place
  <2> QED BY <2>1, <2>2
<1>4. ASSUME NEW place \in S!Place, S!Goes(w, place), worker[w].place \notin {"idle", "claimed", "completing"},
             UNCHANGED <<kind, skill, session, approval, skillRun, messages, candidates, skillFaults>>,
             place = "completing" => kind # "generate", place = "produced" => kind = "generate",
             \/ place = "failing"
             \/ place = "checked" /\ worker[w].place = "resolved" /\ worker[w].scope
             \/ place = "executing" /\ worker[w].place = "checked" /\ S!RunOf(w) # None
                /\ (S!Asks => S!matchingApproval(S!RunOf(w).approval))
             \/ worker[w].place = "executing"
      PROVE  SkillIInv'
  <2>1. worker' = [worker EXCEPT ![w].place = place, ![w].scope = worker[w].scope]
        /\ worker[w].scope \in BOOLEAN
        /\ worker'[w].place = place /\ worker'[w].scope = worker[w].scope
        /\ worker'[w].run = worker[w].run /\ worker'[w].lapsed = worker[w].lapsed
    BY <1>1, <1>4 DEF S!Goes, SkillIInv, SkillShape, Handler
  <2>2. Stops(w)'
    BY <1>1, <1>4, <2>1 DEF Stops, Expired, S!Asks, S!matchingApproval, S!Live, S!RunOf
  <2> QED BY <1>2, <1>4, <2>1, <2>2, MoveKeeps
<1>5. ASSUME S!CheckSkill(w) PROVE SkillIInv'
  <2>1. CASE S!Goes(w, "checked") /\ worker[w].scope
    BY <1>4, <1>5, <2>1 DEF S!CheckSkill, S!Place
  <2>2. CASE S!Goes(w, "failing")
    BY <1>4, <1>5, <2>2 DEF S!CheckSkill, S!Place
  <2> QED BY <1>5, <2>1, <2>2 DEF S!CheckSkill
<1>6. ASSUME S!CheckApproval(w) PROVE SkillIInv'
  <2>1. CASE S!Goes(w, "executing") /\ S!RunOf(w) # None /\ (S!Asks => S!matchingApproval(S!RunOf(w).approval))
    BY <1>4, <1>6, <2>1 DEF S!CheckApproval, S!Place
  <2>2. CASE S!Goes(w, "failing")
    BY <1>4, <1>6, <2>2 DEF S!CheckApproval, S!Place
  <2> QED BY <1>6, <2>1, <2>2 DEF S!CheckApproval
<1>7. ASSUME S!ExecuteSandbox(w) \/ S!LintSpaces(w) \/ S!Generate(w) PROVE SkillIInv'
  BY <1>4, <1>7 DEF S!ExecuteSandbox, S!LintSpaces, S!Generate, S!Executes, S!Place
<1>8. ASSUME S!PersistCandidate(w) PROVE SkillIInv'
  <2>1. CASE UNCHANGED candidates /\ S!Goes(w, "failing")
    BY <1>4, <1>8, <2>1 DEF S!PersistCandidate, S!Place
  <2>2. CASE S!RunOf(w) # None /\ candidates' = [candidates EXCEPT ![worker[w].run] = 1]
             /\ S!Goes(w, "completing")
    <3> DEFINE h == [worker[w] EXCEPT !.place = "completing"]
    <3>1. UNCHANGED <<kind, skill, session, approval, skillRun, messages, skillFaults>>
          /\ worker[w].place = "produced" /\ worker[w].run \in Runs
      BY <1>8 DEF S!PersistCandidate, SkillIInv, SkillShape, S!Idle
    <3>2. h \in Handler /\ h.place = "completing" /\ h.run = worker[w].run /\ h.lapsed = worker[w].lapsed
      BY <1>1 DEF Handler, S!Place
    <3>3. worker' = [worker EXCEPT ![w] = h]
      BY <1>1, <2>2 DEF S!Goes, SkillIInv, SkillShape
    <3> HIDE DEF h
    <3>4. \A v \in Workers : worker'[v] = IF v = w THEN h ELSE worker[v]
      BY <3>3 DEF SkillIInv, SkillShape
    <3>5. \A q \in Runs : candidates'[q] = IF q = worker[w].run THEN 1 ELSE candidates[q]
      BY <2>2, <3>1 DEF SkillIInv, SkillShape
    <3>6. SkillShape'
      <4>1. worker' \in [Workers -> Handler] /\ candidates' \in [Runs -> 0..1]
        BY <2>2, <3>1, <3>2, <3>3 DEF SkillIInv, SkillShape
      <4>2. \A v \in Workers : worker'[v] = S!Idle \/ (worker'[v].run \in Runs /\ worker'[v].place \in S!Place)
        BY <3>1, <3>2, <3>4 DEF SkillIInv, SkillShape, S!Place
      <4> QED BY <3>1, <4>1, <4>2 DEF SkillIInv, SkillShape
    <3>7. OneHandler'
      BY <3>1, <3>2, <3>4 DEF SkillIInv, OneHandler
    <3>8. skillRun[worker[w].run] # None /\ skillRun[worker[w].run].status = "running" /\ kind = "generate"
      BY <1>1, <2>2, <3>1 DEF Handling, S!RunOf
    <3>9. ASSUME NEW v \in Workers PROVE Handling(v)' /\ Stops(v)'
      <4>1. CASE v = w
        BY <1>1, <3>1, <3>2, <3>4, <3>5, <3>8, <4>1 DEF Handling, Stops, Candidate
      <4>2. CASE v # w
        <5>1. worker[v].place # "idle" => worker[v].run \in Runs /\ worker[v].run # worker[w].run
          BY <3>1, <4>2 DEF SkillIInv, SkillShape, OneHandler, S!Idle
        <5> QED BY <3>1, <3>4, <3>5, <4>2, <5>1 DEF SkillIInv, Handling, Stops, Candidate,
           Expired, S!Asks
      <4> QED BY <4>1, <4>2
    <3>10. ASSUME NEW q \in Runs PROVE Recorded(q)'
      BY <3>1, <3>5, <3>8 DEF SkillIInv, Recorded, Candidate, S!Asks
    <3> QED BY <3>6, <3>7, <3>9, <3>10 DEF SkillIInv
  <2> QED BY <1>8, <2>1, <2>2 DEF S!PersistCandidate
<1>9. ASSUME S!Finish(w) PROVE SkillIInv'
  <2>1. skillFaults' \in 0..MaxFaults /\ messages' \in [Runs -> Nat] /\ worker[w].place # "idle"
    BY <1>9 DEF S!Finish, SkillIInv, SkillShape
  <2>2. CASE UNCHANGED skillRun
    BY <1>9, <2>1, <2>2, EndKeeps DEF S!Finish
  <2>3. CASE ~UNCHANGED skillRun
    BY <1>9, <2>1, <2>3, EndKeeps DEF S!Finish, S!RunOf
  <2> QED BY <2>2, <2>3
<1>10. ASSUME S!Crash(w) PROVE SkillIInv'
  <2>1. worker[w].run \in Runs /\ worker[w].place # "idle"
    BY <1>10 DEF S!Crash, SkillIInv, SkillShape, S!Place
  <2>2. skillFaults' \in 0..MaxFaults /\ messages' \in [Runs -> Nat]
    BY <1>10, <2>1, SkillAssumption DEF S!Crash, SkillIInv, SkillShape
  <2> QED BY <1>10, <2>1, <2>2, EndKeeps DEF S!Crash
<1> QED BY <1>3, <1>5, <1>6, <1>7, <1>8, <1>9, <1>10, ClaimKeeps DEF S!Work

LEMMA SkillStep == SkillIInv /\ [S!Next]_(S!skillVars) => SkillIInv'
<1> SUFFICES ASSUME SkillIInv, [S!Next]_(S!skillVars) PROVE SkillIInv'
  OBVIOUS
<1>1. ASSUME UNCHANGED S!skillVars PROVE SkillIInv'
  <2>1. SkillShape'
    BY <1>1 DEF S!skillVars, SkillIInv, SkillShape
  <2> QED BY <1>1, <2>1, RequestKeeps DEF S!skillVars
<1>2. session' = S!Unbind => /\ session' \in Session /\ session'.status = session.status
                             /\ session'.bound => session.bound
  BY DEF S!Unbind, S!InScope, SkillIInv, SkillShape, Session
<1>3. ASSUME NEW a \in Approvals, S!RequestApproval(a) PROVE SkillIInv'
  <2>1. [status |-> "pending", late |-> FALSE, version |-> skill.version] \in S!Approval
    BY DEF SkillIInv, SkillShape, S!Approval
  <2>2. approval' \in [Approvals -> S!Approval \cup {None}]
    BY <1>3, <2>1 DEF S!RequestApproval, SkillIInv, SkillShape
  <2>3. SkillShape'
    BY <1>2, <1>3, <2>2 DEF S!RequestApproval, SkillIInv, SkillShape
  <2>4. \A b \in Approvals : approval[b] # None => approval'[b] = approval[b]
    BY <1>3 DEF S!RequestApproval, SkillIInv, SkillShape
  <2> QED BY <1>2, <1>3, <2>3, <2>4, RequestKeeps DEF S!RequestApproval
<1>4. ASSUME NEW a \in Approvals, S!Lapse(a) PROVE SkillIInv'
  <2> DEFINE row == [approval[a] EXCEPT !.late = TRUE]
  <2>1. row \in S!Approval /\ row # None /\ row.status = approval[a].status /\ row.late
    BY <1>4, SkillAssumption DEF S!Lapse, SkillIInv, SkillShape, S!Approval
  <2>2. approval' = [approval EXCEPT ![a] = row]
    BY <1>4 DEF S!Lapse
  <2> HIDE DEF row
  <2>3. SkillShape'
    BY <1>4, <2>1, <2>2 DEF S!Lapse, SkillIInv, SkillShape
  <2>4. \A b \in Approvals : approval'[b] = IF b = a THEN row ELSE approval[b]
    BY <2>2 DEF SkillIInv, SkillShape
  <2> QED BY <1>4, <2>1, <2>3, <2>4, RequestKeeps DEF S!Lapse
<1>5. ASSUME NEW a \in Approvals, NEW d \in {"approved", "rejected"}, S!Decide(a, d) PROVE SkillIInv'
  <2> DEFINE row == [approval[a] EXCEPT !.status = d]
  <2>1. row \in S!Approval /\ row # None /\ row.late = approval[a].late /\ approval[a].status = "pending"
    BY <1>5, SkillAssumption DEF S!Decide, SkillIInv, SkillShape, S!Approval
  <2>2. approval' = [approval EXCEPT ![a] = row]
    BY <1>5 DEF S!Decide
  <2> HIDE DEF row
  <2>3. SkillShape'
    BY <1>5, <2>1, <2>2 DEF S!Decide, SkillIInv, SkillShape
  <2>4. \A b \in Approvals : approval'[b] = IF b = a THEN row ELSE approval[b]
    BY <2>2 DEF SkillIInv, SkillShape
  <2> QED BY <1>5, <2>1, <2>3, <2>4, RequestKeeps DEF S!Decide
<1>6. ASSUME S!ListApprovals PROVE SkillIInv'
  <2>1. \A a \in Approvals :
           LET row == [approval[a] EXCEPT !.status = "expired"]
           IN  approval[a] # None => row \in S!Approval /\ row # None /\ row.late = approval[a].late
    BY SkillAssumption DEF SkillIInv, SkillShape, S!Approval
  <2>2. approval' \in [Approvals -> S!Approval \cup {None}]
    BY <1>6, <2>1 DEF S!ListApprovals, SkillIInv, SkillShape
  <2>3. SkillShape'
    BY <1>2, <1>6, <2>2 DEF S!ListApprovals, SkillIInv, SkillShape
  <2>4. \A a \in Approvals : approval[a] # None =>
             /\ approval'[a] # None
             /\ approval[a].status = "approved" => approval'[a].status = "approved"
             /\ approval[a].late => approval'[a].late
    BY <1>6, <2>1 DEF S!ListApprovals
  <2> QED BY <1>2, <1>6, <2>3, <2>4, RequestKeeps DEF S!ListApprovals
<1>7. ASSUME S!CleanupFailedGeneration PROVE SkillIInv'
  <2>1. session' = [session EXCEPT !.status = "deleted"] /\ session' \in Session
        /\ session'.status = "deleted" /\ session'.bound = session.bound
    BY <1>7 DEF S!CleanupFailedGeneration, SkillIInv, SkillShape, Session
  <2>2. /\ skillRun' = [r \in Runs |-> None] /\ candidates' = [r \in Runs |-> 0]
        /\ UNCHANGED <<kind, skill, approval, messages, worker>> /\ kind = "generate"
    BY <1>7 DEF S!CleanupFailedGeneration
  <2>3. skillFaults' \in 0..MaxFaults
    BY <1>7, SkillAssumption DEF S!CleanupFailedGeneration, SkillIInv, SkillShape
  <2>4. SkillShape'
    BY <2>1, <2>2, <2>3 DEF SkillIInv, SkillShape
  <2>5. \A w \in Workers : worker[w].place # "idle" => worker[w].run \in Runs
    BY DEF SkillIInv, SkillShape, S!Idle
  <2>6. \A w \in Workers : worker[w].lapsed => worker[w].place # "idle"
    BY DEF SkillIInv, SkillShape, S!Idle, S!Place
  <2>7. \A w \in Workers : Handling(w)'
    BY <2>1, <2>2, <2>5 DEF SkillIInv, Handling
  <2>8. \A w \in Workers : Stops(w)'
    BY <2>1, <2>2, <2>5, <2>6 DEF SkillIInv, Stops, Expired, S!Asks
  <2>9. \A r \in Runs : Recorded(r)'
    BY <2>2 DEF Recorded
  <2> QED BY <2>2, <2>4, <2>7, <2>8, <2>9 DEF SkillIInv, OneHandler
<1>8. ASSUME NEW r \in Runs, S!QueueGeneration(r) PROVE SkillIInv'
  BY <1>8, QueueKeeps DEF S!QueueGeneration
<1>9. ASSUME NEW r \in Runs, NEW a \in Approvals \cup {None}, S!Queue(r, a) PROVE SkillIInv'
  BY <1>9, QueueKeeps DEF S!Queue
<1>10. ASSUME NEW enabled \in BOOLEAN, S!SetSkillEnabled(enabled) PROVE SkillIInv'
  <2>1. SkillShape'
    BY <1>10 DEF S!SetSkillEnabled, SkillIInv, SkillShape, S!Pin
  <2> QED BY <1>10, <2>1, RequestKeeps DEF S!SetSkillEnabled
<1>11. ASSUME NEW r \in Runs, S!Redeliver(r) PROVE SkillIInv'
  <2>1. SkillShape'
    BY <1>11, SkillAssumption DEF S!Redeliver, SkillIInv, SkillShape
  <2> QED BY <1>11, <2>1, RequestKeeps DEF S!Redeliver
<1>12. ASSUME S!ChangeSession PROVE SkillIInv'
  <2>1. session' \in Session /\ session'.status # "deleted" /\ (session'.bound => session.bound)
    BY <1>12 DEF S!ChangeSession, SkillIInv, SkillShape, Session
  <2>2. SkillShape'
    BY <1>12, <2>1 DEF S!ChangeSession, SkillIInv, SkillShape
  <2> QED BY <1>12, <2>1, <2>2, RequestKeeps DEF S!ChangeSession
<1>13. ASSUME S!ReplaceSkill PROVE SkillIInv'
  <2>1. SkillShape'
    BY <1>13, SkillAssumption DEF S!ReplaceSkill, SkillIInv, SkillShape, S!Versions
  <2> QED BY <1>13, <2>1, RequestKeeps DEF S!ReplaceSkill
<1> QED BY <1>1, <1>3, <1>4, <1>5, <1>6, <1>7, <1>8, <1>9, <1>10, <1>11, <1>12, <1>13,
   WorkerKeeps DEF S!Next

-----------------------------------------------------------------------------
(***************************************************************************)
(* LearningPlans.  Confirmations hold disjoint rows, and whoever is alone  *)
(* has found every active plan; a confirmation that was overlapped says so *)
(* when it commits.                                                        *)
(***************************************************************************)
\* Counting means the same in the instance.
LEMMA PlanCardinality == ASSUME NEW X PROVE P!Cardinality(X) = Cardinality(X)
  BY DEF P!Cardinality, Cardinality

\* A request holds what its statements found, and nobody else holds it.
Confirmer(q) ==
    learner[q].op = "confirm" =>
        /\ plan[learner[q].plan] = "draft"
        /\ learner[q].old \subseteq P!ActivePlans /\ learner[q].archive \subseteq P!ActivePlans
        /\ learner[q].place = "archiving" => learner[q].old \subseteq learner[q].seen
        /\ learner[q].place = "archived" => learner[q].old \subseteq learner[q].archive

Apart == \A p, q \in Learners : p # q => P!Holds(p) \cap P!Holds(q) = {}

\* A confirmation that nobody overlapped has found all that is active.
Alone(q) ==
    learner[q].op = "confirm" /\ learner[q].alone =>
        /\ P!Confirmations = {q}
        /\ learner[q].place \in {"reading", "archiving"} => learner[q].seen = P!ActivePlans
        /\ learner[q].place # "reading" => learner[q].old = P!ActivePlans
        /\ learner[q].place = "archived" => learner[q].archive = P!ActivePlans

Recorder(q) == learner[q].op = "record" => plan[learner[q].plan] \in P!Confirmed

PlanIInv ==
    /\ P!TypeOK /\ Apart /\ P!OneActivePlan /\ P!PlannedOnce
    /\ \A v \in P!Versions : plan[v] = "none" => origin[v] = None
    /\ \A q \in Learners : Confirmer(q) /\ Alone(q) /\ Recorder(q)

LEMMA PlanInit == P!Init => PlanIInv
<1> SUFFICES ASSUME P!Init PROVE PlanIInv
  OBVIOUS
<1>1. P!TypeOK
  BY PlanAssumption DEF P!Init, P!TypeOK, P!PlanStatus, P!CourseStatus
<1>2. \A q \in Learners : learner[q].op = "none"
  BY DEF P!Init, P!NoRequest
<1>3. Apart
  BY <1>2 DEF Apart, P!Holds
<1>4. P!OneActivePlan
  <2>1. P!ActivePlans = {} /\ P!ActiveCourses = {}
    BY DEF P!Init, P!ActivePlans, P!ActiveCourses
  <2> QED BY <2>1, PlanCardinality, FS_EmptySet DEF P!Init, P!OneActivePlan, P!Confirmed
<1>5. P!PlannedOnce
  BY PlanAssumption DEF P!Init, P!PlannedOnce
<1> QED BY <1>1, <1>2, <1>3, <1>4, <1>5 DEF PlanIInv, P!Init, Confirmer, Alone, Recorder

-----------------------------------------------------------------------------
\* Fields of a request by its kind.
LEMMA PlanKinds ==
  ASSUME P!TypeOK, NEW q \in Learners
  PROVE  /\ learner[q].op \in {"confirm", "materialize", "record", "none"}
         /\ learner[q].op = "confirm" => learner[q] \in P!Confirming
         /\ learner[q].op = "materialize" => learner[q] \in P!Materializing
         /\ learner[q].op = "record" => learner[q] \in P!Recording
         /\ learner[q].op = "none" => learner[q] = P!NoRequest
  BY DEF P!TypeOK, P!Confirming, P!Materializing, P!Recording, P!NoRequest

\* A request that does not confirm comes or goes, and no plan changes.
LEMMA OthersRequest ==
  ASSUME PlanIInv, NEW q \in Learners,
         NEW r \in P!Materializing \cup P!Recording \cup {P!NoRequest},
         learner' = [learner EXCEPT ![q] = r], UNCHANGED <<plan, course, raced>>,
         r \in P!Recording => plan[r.plan] \in P!Confirmed
  PROVE  /\ learner' \in [Learners -> P!Confirming \cup P!Materializing \cup P!Recording \cup {P!NoRequest}]
         /\ Apart'
         /\ \A p \in Learners : Confirmer(p)' /\ Alone(p)' /\ Recorder(p)'
<1>1. r.op # "confirm" /\ (r.op = "record" => r \in P!Recording)
  BY DEF P!Materializing, P!Recording, P!NoRequest
<1>2. learner' \in [Learners -> P!Confirming \cup P!Materializing \cup P!Recording \cup {P!NoRequest}]
  BY DEF PlanIInv, P!TypeOK
<1>3. \A p \in Learners : learner'[p] = IF p = q THEN r ELSE learner[p]
  BY DEF PlanIInv, P!TypeOK
<1>4. Apart'
  BY <1>1, <1>3 DEF PlanIInv, Apart, P!Holds
<1>5. P!ActivePlans' = P!ActivePlans
  BY DEF P!ActivePlans
<1>6. ASSUME NEW p \in Learners PROVE Confirmer(p)' /\ Recorder(p)'
  BY <1>1, <1>3, <1>5, <1>6 DEF PlanIInv, Confirmer, Recorder
<1>7. ASSUME NEW p \in Learners PROVE Alone(p)'
  <2> SUFFICES ASSUME learner'[p].op = "confirm", learner'[p].alone PROVE Alone(p)'
    BY DEF Alone
  <2>1. p # q /\ learner'[p] = learner[p]
    BY <1>1, <1>3
  <2>2. P!Confirmations' = P!Confirmations
    BY <1>1, <1>3, <2>1 DEF P!Confirmations, PlanIInv, Alone
  <2> QED BY <1>5, <2>1, <2>2 DEF Alone, PlanIInv
<1> QED BY <1>2, <1>4, <1>6, <1>7

\* A draft is added, and no request changes what it confirms.
LEMMA NewDraft ==
  ASSUME PlanIInv, NEW v \in P!NextVersion, plan' = [plan EXCEPT ![v] = "draft"],
         UNCHANGED <<course, progress, raced>>
  PROVE  /\ v \in P!Versions /\ plan[v] = "none"
         /\ plan' \in [P!Versions -> P!PlanStatus]
         /\ P!ActivePlans' = P!ActivePlans
         /\ P!OneActivePlan'
         /\ \A u \in P!Versions : plan[u] \in P!Confirmed \/ plan[u] = "draft" => plan'[u] = plan[u]
<1>1. v \in P!Versions /\ plan[v] = "none"
  BY DEF P!NextVersion
<1>2. plan' \in [P!Versions -> P!PlanStatus]
  BY <1>1 DEF PlanIInv, P!TypeOK, P!PlanStatus
<1>3. \A u \in P!Versions : plan'[u] = IF u = v THEN "draft" ELSE plan[u]
  BY DEF PlanIInv, P!TypeOK
<1>4. P!ActivePlans' = P!ActivePlans
  BY <1>1, <1>3 DEF P!ActivePlans
<1>5. P!ActiveCourses' = P!ActiveCourses
  BY DEF P!ActiveCourses
<1>6. \A u \in P!Versions : plan'[u] \in P!Confirmed <=> plan[u] \in P!Confirmed
  BY <1>1, <1>3 DEF P!Confirmed
<1>7. P!OneActivePlan'
  BY <1>4, <1>5, <1>6 DEF PlanIInv, P!OneActivePlan, P!TypeOK
<1> QED BY <1>1, <1>2, <1>3, <1>4, <1>7 DEF P!Confirmed

\* A confirmation begins: those under way are alone no longer.
LEMMA BeginKeeps ==
  ASSUME PlanIInv, NEW q \in Learners, NEW v \in P!Versions, P!ConfirmBegin(q, v)
  PROVE  PlanIInv'
<1> DEFINE r == [op |-> "confirm", place |-> "reading", plan |-> v, seen |-> P!ActivePlans,
                 old |-> {}, archive |-> {}, alone |-> P!Confirmations = {}]
<1>1. r \in P!Confirming /\ r.op = "confirm" /\ r.place = "reading" /\ r.plan = v
      /\ r.seen = P!ActivePlans /\ r.old = {} /\ r.archive = {} /\ r.alone = (P!Confirmations = {})
  BY DEF P!Confirming, P!ActivePlans
<1>2. \A p \in Learners : learner'[p] = IF p = q THEN r
                                        ELSE IF p \in P!Confirmations
                                             THEN [learner[p] EXCEPT !.alone = FALSE]
                                             ELSE learner[p]
  BY DEF P!ConfirmBegin
<1> HIDE DEF r
<1>3. \A p \in P!Confirmations : [learner[p] EXCEPT !.alone = FALSE] \in P!Confirming
  BY PlanKinds DEF PlanIInv, P!Confirmations, P!Confirming
<1>4. P!TypeOK'
  <2>1. learner' \in [Learners -> P!Confirming \cup P!Materializing \cup P!Recording \cup {P!NoRequest}]
    BY <1>1, <1>2, <1>3 DEF P!ConfirmBegin, PlanIInv, P!TypeOK
  <2> QED BY <2>1 DEF P!ConfirmBegin, PlanIInv, P!TypeOK
<1>5. \A p \in Learners \ {q} :
          /\ learner'[p].op = learner[p].op
          /\ learner[p].op = "confirm" =>
                /\ learner'[p].place = learner[p].place /\ learner'[p].plan = learner[p].plan
                /\ learner'[p].seen = learner[p].seen /\ learner'[p].old = learner[p].old
                /\ learner'[p].archive = learner[p].archive /\ ~learner'[p].alone
          /\ learner[p].op # "confirm" => learner'[p] = learner[p]
  BY <1>2, PlanKinds DEF PlanIInv, P!Confirmations, P!Confirming
<1>6. P!ActivePlans' = P!ActivePlans /\ UNCHANGED <<plan, course, origin, planOf, progress, raced>>
  BY DEF P!ConfirmBegin, P!ActivePlans
<1>7. Apart'
  <2>1. \A p \in Learners \ {q} : P!Holds(p)' = P!Holds(p)
    BY <1>5 DEF P!Holds
  <2>2. P!Holds(q)' = {v}
    BY <1>1, <1>2 DEF P!Holds
  <2>3. \A p \in Learners \ {q} : v \notin P!Holds(p)
    BY DEF P!ConfirmBegin, P!HeldByOthers
  <2> QED BY <2>1, <2>2, <2>3 DEF Apart, PlanIInv
<1>8. \A p \in Learners : Confirmer(p)' /\ Recorder(p)'
  BY <1>1, <1>2, <1>5, <1>6 DEF PlanIInv, Confirmer, Recorder, P!ConfirmBegin
<1>9. \A p \in Learners : Alone(p)'
  <2>1. ASSUME P!Confirmations = {} PROVE P!Confirmations' = {q}
    <3>1. r.op = "confirm"
      BY <1>1
    <3>2. \A p \in Learners \ {q} : learner[p].op # "confirm"
      BY <2>1 DEF P!Confirmations
    <3>3. learner'[q].op = "confirm" /\ \A p \in Learners \ {q} : learner'[p].op # "confirm"
      BY <1>2, <1>5, <3>1, <3>2
    <3> QED BY <3>3 DEF P!Confirmations
  <2> QED BY <1>1, <1>2, <1>5, <1>6, <2>1 DEF Alone
<1>10. P!OneActivePlan' /\ P!PlannedOnce'
  BY <1>6 DEF PlanIInv, P!OneActivePlan, P!PlannedOnce, P!ActiveCourses
<1> QED BY <1>4, <1>6, <1>7, <1>8, <1>9, <1>10 DEF PlanIInv

\* A statement of a confirmation: it holds what it found, and no plan changes.
LEMMA StatementKeeps ==
  ASSUME PlanIInv, NEW q \in Learners, NEW r \in P!Confirming, learner[q].op = "confirm",
         learner' = [learner EXCEPT ![q] = r],
         UNCHANGED <<plan, course, origin, planOf, progress, sources, raced>>,
         r.plan = learner[q].plan, r.alone = learner[q].alone,
         (r.old \cup r.archive) \cap P!HeldByOthers(q) = {},
         r.old \subseteq P!ActivePlans, r.archive \subseteq P!ActivePlans,
         r.place = "archiving" => r.old \subseteq r.seen,
         r.place = "archived" => r.old \subseteq r.archive,
         r.alone => /\ r.place \in {"reading", "archiving"} => r.seen = P!ActivePlans
                    /\ r.place # "reading" => r.old = P!ActivePlans
                    /\ r.place = "archived" => r.archive = P!ActivePlans
  PROVE  PlanIInv'
<1>1. r.op = "confirm"
  BY DEF P!Confirming
<1>2. \A p \in Learners : learner'[p] = IF p = q THEN r ELSE learner[p]
  BY DEF PlanIInv, P!TypeOK
<1>3. P!TypeOK'
  BY DEF PlanIInv, P!TypeOK
<1>4. P!ActivePlans' = P!ActivePlans /\ P!Confirmations' = P!Confirmations
  BY <1>1, <1>2 DEF P!ActivePlans, P!Confirmations
<1>5. Apart'
  <2>1. \A p \in Learners \ {q} : P!Holds(p)' = P!Holds(p) /\ P!Holds(p) \subseteq P!HeldByOthers(q)
    BY <1>2 DEF P!Holds, P!HeldByOthers
  <2>2. P!Holds(q)' = {learner[q].plan} \cup r.old \cup r.archive
    BY <1>1, <1>2 DEF P!Holds
  <2>3. learner[q].plan \in P!Holds(q)
    BY DEF P!Holds
  <2> QED BY <2>1, <2>2, <2>3 DEF Apart, PlanIInv
<1>6. \A p \in Learners : Confirmer(p)' /\ Recorder(p)' /\ Alone(p)'
  BY <1>1, <1>2, <1>4 DEF PlanIInv, Confirmer, Recorder, Alone
<1>7. P!OneActivePlan' /\ P!PlannedOnce'
  BY DEF PlanIInv, P!OneActivePlan, P!PlannedOnce, P!ActiveCourses, P!ActivePlans
<1> QED BY <1>3, <1>5, <1>6, <1>7 DEF PlanIInv

LEMMA StatementsKeep ==
  ASSUME PlanIInv, NEW q \in Learners, P!ConfirmRead(q) \/ P!ConfirmArchive(q) \/ P!ConfirmArchived(q)
  PROVE  PlanIInv'
<1>1. learner[q] \in P!Confirming /\ learner[q].op = "confirm" /\ Confirmer(q) /\ Alone(q)
  BY PlanKinds DEF PlanIInv, P!ConfirmRead, P!ConfirmArchive, P!ConfirmArchived, P!At
<1>2. (learner[q].old \cup learner[q].archive) \cap P!HeldByOthers(q) = {}
  BY <1>1 DEF PlanIInv, Apart, P!HeldByOthers, P!Holds
<1>3. CASE P!ConfirmRead(q)
  <2> DEFINE r == [learner[q] EXCEPT !.place = "read", !.seen = {},
                                     !.old = learner[q].seen \cap P!ActivePlans]
  <2>1. r \in P!Confirming /\ r.place = "read" /\ r.old = learner[q].seen \cap P!ActivePlans
        /\ r.archive = learner[q].archive /\ r.plan = learner[q].plan /\ r.alone = learner[q].alone
    BY <1>1 DEF P!Confirming
  <2>2. learner' = [learner EXCEPT ![q] = r]
    BY <1>3 DEF P!ConfirmRead
  <2> HIDE DEF r
  <2>3. UNCHANGED <<plan, course, origin, planOf, progress, sources, raced>>
    BY <1>3 DEF P!ConfirmRead
  <2>4. /\ (r.old \cup r.archive) \cap P!HeldByOthers(q) = {}
        /\ r.old \subseteq P!ActivePlans /\ r.archive \subseteq P!ActivePlans
        /\ r.place = "archiving" => r.old \subseteq r.seen
        /\ r.place = "archived" => r.old \subseteq r.archive
    BY <1>1, <1>2, <1>3, <2>1 DEF P!ConfirmRead, P!At, Confirmer
  <2>5. r.alone => /\ r.place \in {"reading", "archiving"} => r.seen = P!ActivePlans
                   /\ r.place # "reading" => r.old = P!ActivePlans
                   /\ r.place = "archived" => r.archive = P!ActivePlans
    BY <1>1, <1>3, <2>1 DEF P!ConfirmRead, P!At, Alone
  <2> QED BY <1>1, <2>1, <2>2, <2>3, <2>4, <2>5, StatementKeeps
<1>4. CASE P!ConfirmArchive(q)
  <2> DEFINE r == [learner[q] EXCEPT !.place = "archiving", !.seen = P!ActivePlans]
  <2>1. r \in P!Confirming /\ r.place = "archiving" /\ r.seen = P!ActivePlans /\ r.old = learner[q].old
        /\ r.archive = learner[q].archive /\ r.plan = learner[q].plan /\ r.alone = learner[q].alone
    BY <1>1 DEF P!Confirming, P!ActivePlans
  <2>2. learner' = [learner EXCEPT ![q] = r]
    BY <1>4 DEF P!ConfirmArchive
  <2> HIDE DEF r
  <2>3. UNCHANGED <<plan, course, origin, planOf, progress, sources, raced>>
    BY <1>4 DEF P!ConfirmArchive
  <2>4. /\ (r.old \cup r.archive) \cap P!HeldByOthers(q) = {}
        /\ r.old \subseteq P!ActivePlans /\ r.archive \subseteq P!ActivePlans
        /\ r.place = "archiving" => r.old \subseteq r.seen
        /\ r.place = "archived" => r.old \subseteq r.archive
    BY <1>1, <1>2, <1>4, <2>1 DEF P!ConfirmArchive, P!At, Confirmer
  <2>5. r.alone => /\ r.place \in {"reading", "archiving"} => r.seen = P!ActivePlans
                   /\ r.place # "reading" => r.old = P!ActivePlans
                   /\ r.place = "archived" => r.archive = P!ActivePlans
    BY <1>1, <1>4, <2>1 DEF P!ConfirmArchive, P!At, Alone
  <2> QED BY <1>1, <2>1, <2>2, <2>3, <2>4, <2>5, StatementKeeps
<1>5. CASE P!ConfirmArchived(q)
  <2> DEFINE r == [learner[q] EXCEPT !.place = "archived", !.seen = {},
                                     !.archive = learner[q].seen \cap P!ActivePlans]
  <2>1. r \in P!Confirming /\ r.place = "archived" /\ r.archive = learner[q].seen \cap P!ActivePlans
        /\ r.old = learner[q].old /\ r.plan = learner[q].plan /\ r.alone = learner[q].alone
    BY <1>1 DEF P!Confirming
  <2>2. learner' = [learner EXCEPT ![q] = r]
    BY <1>5 DEF P!ConfirmArchived
  <2> HIDE DEF r
  <2>3. UNCHANGED <<plan, course, origin, planOf, progress, sources, raced>>
    BY <1>5 DEF P!ConfirmArchived
  <2>4. /\ (r.old \cup r.archive) \cap P!HeldByOthers(q) = {}
        /\ r.old \subseteq P!ActivePlans /\ r.archive \subseteq P!ActivePlans
        /\ r.place = "archiving" => r.old \subseteq r.seen
        /\ r.place = "archived" => r.old \subseteq r.archive
    BY <1>1, <1>2, <1>5, <2>1 DEF P!ConfirmArchived, P!At, Confirmer
  <2>5. r.alone => /\ r.place \in {"reading", "archiving"} => r.seen = P!ActivePlans
                   /\ r.place # "reading" => r.old = P!ActivePlans
                   /\ r.place = "archived" => r.archive = P!ActivePlans
    BY <1>1, <1>5, <2>1 DEF P!ConfirmArchived, P!At, Alone
  <2> QED BY <1>1, <2>1, <2>2, <2>3, <2>4, <2>5, StatementKeeps
<1> QED BY <1>3, <1>4, <1>5

\* The commit: what the confirmation holds is archived with its courses, and the
\* draft becomes active.  What others hold stays as they found it.
LEMMA CommitKeeps ==
  ASSUME PlanIInv, NEW q \in Learners, P!ConfirmCommit(q)
  PROVE  PlanIInv'
<1> DEFINE r == learner[q]
<1>1. r \in P!Confirming /\ r.op = "confirm" /\ r.place = "archived" /\ Confirmer(q) /\ Alone(q)
  BY PlanKinds DEF PlanIInv, P!ConfirmCommit, P!At
<1>2. /\ r.plan \in P!Versions /\ plan[r.plan] = "draft"
      /\ r.archive \subseteq P!ActivePlans /\ r.old \subseteq r.archive
      /\ r.plan \notin r.archive
  BY <1>1 DEF P!Confirming, Confirmer, P!ActivePlans
<1>3. /\ \A v \in P!Versions : plan'[v] = IF v = r.plan THEN "active"
                                          ELSE IF v \in r.archive THEN "archived" ELSE plan[v]
      /\ \A v \in P!Versions : course'[v] = IF v = r.plan THEN "active"
                                            ELSE IF v \in r.old THEN "archived" ELSE course[v]
  BY DEF P!ConfirmCommit, P!Activate
<1>4. \A p \in Learners : learner'[p] = IF p = q THEN P!NoRequest ELSE learner[p]
  BY DEF P!ConfirmCommit, P!Done, PlanIInv, P!TypeOK
<1>5. P!TypeOK'
  <2>1. plan' \in [P!Versions -> P!PlanStatus] /\ course' \in [P!Versions -> P!CourseStatus]
    BY DEF P!ConfirmCommit, P!Activate, PlanIInv, P!TypeOK, P!PlanStatus, P!CourseStatus
  <2>2. raced' \in BOOLEAN
    BY DEF P!ConfirmCommit, PlanIInv, P!TypeOK
  <2> QED BY <2>1, <2>2 DEF P!ConfirmCommit, P!Done, PlanIInv, P!TypeOK
<1>6. P!ActivePlans' = (P!ActivePlans \ r.archive) \cup {r.plan}
  BY <1>2, <1>3 DEF P!ActivePlans
<1>7. P!ActiveCourses' = (P!ActiveCourses \ r.old) \cup {r.plan}
  BY <1>2, <1>3 DEF P!ActiveCourses
<1>8. \A v \in P!Versions : plan[v] \in P!Confirmed => plan'[v] \in P!Confirmed
  BY <1>3 DEF P!Confirmed
<1>9. P!Holds(q) = {r.plan} \cup r.old \cup r.archive
  BY <1>1 DEF P!Holds
<1>10. \A p \in Learners \ {q} : P!Holds(p) \cap P!Holds(q) = {}
  BY DEF PlanIInv, Apart
<1>11. Apart'
  BY <1>4 DEF PlanIInv, Apart, P!Holds, P!NoRequest
<1>12. ASSUME NEW p \in Learners PROVE Confirmer(p)' /\ Recorder(p)'
  <2>1. CASE p = q
    BY <1>4, <2>1 DEF Confirmer, Recorder, P!NoRequest
  <2>2. CASE p # q
    <3>1. Recorder(p)'
      BY <1>4, <1>8, <2>2, PlanKinds DEF PlanIInv, Recorder, P!Recording
    <3>2. ASSUME learner[p].op = "confirm" PROVE Confirmer(p)'
      <4>1. learner[p].plan \in P!Versions /\ P!Holds(p) = {learner[p].plan} \cup learner[p].old \cup learner[p].archive
        BY <3>2, PlanKinds DEF PlanIInv, P!Holds, P!Confirming
      <4>2. P!Holds(p) \cap P!Holds(q) = {}
        BY <1>10, <2>2
      <4>3. plan'[learner[p].plan] = plan[learner[p].plan]
        BY <1>3, <1>9, <4>1, <4>2
      <4>4. learner[p].old \subseteq P!ActivePlans' /\ learner[p].archive \subseteq P!ActivePlans'
        BY <1>6, <1>9, <3>2, <4>1, <4>2 DEF PlanIInv, Confirmer
      <4> QED BY <1>4, <2>2, <3>2, <4>3, <4>4 DEF PlanIInv, Confirmer
    <3> QED BY <1>4, <2>2, <3>1, <3>2 DEF Confirmer
  <2> QED BY <2>1, <2>2
<1>13. \A p \in Learners : Alone(p)'
  BY <1>1, <1>4 DEF PlanIInv, Alone, P!Confirmations, P!NoRequest
<1>14. P!OneActivePlan'
  <2>1. \A v \in P!Versions : course'[v] # "none" <=> plan'[v] \in P!Confirmed
    BY <1>2, <1>3 DEF PlanIInv, P!OneActivePlan, P!Confirmed, P!ActivePlans
  <2>2. P!ActivePlans' \subseteq P!ActiveCourses'
    BY <1>2, <1>6, <1>7 DEF PlanIInv, P!OneActivePlan
  <2>3. \A v \in progress' : plan'[v] \in P!Confirmed
    BY <1>8 DEF P!ConfirmCommit, PlanIInv, P!OneActivePlan, P!TypeOK
  <2>4. ASSUME ~raced' PROVE Cardinality(P!ActivePlans') <= 1 /\ P!ActiveCourses' = P!ActivePlans'
    <3>1. ~raced /\ r.alone
      BY <2>4 DEF P!ConfirmCommit
    <3>2. r.archive = P!ActivePlans /\ r.old = P!ActivePlans /\ P!ActiveCourses = P!ActivePlans
      BY <1>1, <3>1 DEF PlanIInv, Alone, P!OneActivePlan
    <3>3. P!ActivePlans' = {r.plan} /\ P!ActiveCourses' = {r.plan}
      BY <1>6, <1>7, <3>2
    <3>4. Cardinality({r.plan}) = 1
      BY FS_Singleton
    <3> QED BY <3>3, <3>4
  <2> QED BY <2>1, <2>2, <2>3, <2>4, PlanCardinality DEF P!OneActivePlan
<1>15. P!PlannedOnce' /\ (\A v \in P!Versions : plan'[v] = "none" => origin'[v] = None)
  BY <1>3 DEF P!ConfirmCommit, PlanIInv, P!PlannedOnce
<1> QED BY <1>5, <1>11, <1>12, <1>13, <1>14, <1>15 DEF PlanIInv

LEMMA PlanStep == PlanIInv /\ [P!Next]_(P!planVars) => PlanIInv'
<1> SUFFICES ASSUME PlanIInv, [P!Next]_(P!planVars) PROVE PlanIInv'
  OBVIOUS
<1>1. ASSUME UNCHANGED P!planVars PROVE PlanIInv'
  BY <1>1 DEF P!planVars, PlanIInv, P!TypeOK, Apart, P!OneActivePlan, P!PlannedOnce, Confirmer,
     Alone, Recorder,
     P!Holds, P!ActivePlans, P!ActiveCourses, P!Confirmations
<1>2. ASSUME NEW q \in Learners, NEW c \in PlanCandidates, P!MaterializeRead(q, c) PROVE PlanIInv'
  <2>1. CASE UNCHANGED learner
    BY <1>2, <2>1 DEF P!MaterializeRead, PlanIInv, P!TypeOK, P!Readable, Apart, P!OneActivePlan,
       P!PlannedOnce, Confirmer, Alone,
       Recorder, P!Holds, P!ActivePlans, P!ActiveCourses, P!Confirmations
  <2>2. CASE learner' = [learner EXCEPT ![q] = [op |-> "materialize", candidate |-> c]]
    <3>1. [op |-> "materialize", candidate |-> c] \in P!Materializing \ P!Recording
      BY DEF P!Materializing, P!Recording
    <3>2. P!OneActivePlan' /\ P!PlannedOnce'
      BY <1>2 DEF P!MaterializeRead, PlanIInv, P!OneActivePlan, P!PlannedOnce, P!ActivePlans,
         P!ActiveCourses
    <3>3. sources' \in [readable : BOOLEAN, bound : BOOLEAN]
      BY <1>2 DEF P!MaterializeRead, PlanIInv, P!TypeOK, P!Readable
    <3> QED BY <1>2, <2>2, <3>1, <3>2, <3>3, OthersRequest DEF P!MaterializeRead, PlanIInv,
       P!TypeOK
  <2> QED BY <1>2, <2>1, <2>2 DEF P!MaterializeRead
<1>3. ASSUME NEW q \in Learners, P!MaterializeWrite(q) PROVE PlanIInv'
  <2> DEFINE c == learner[q].candidate
  <2>1. c \in PlanCandidates /\ learner' = [learner EXCEPT ![q] = P!NoRequest]
    BY <1>3, PlanKinds DEF P!MaterializeWrite, PlanIInv, P!Materializing, P!Done
  <2>2. CASE ~P!Claimed(c)
    <3>1. UNCHANGED <<plan, course, origin, planOf, progress, sources, raced>>
      BY <1>3, <2>2 DEF P!MaterializeWrite
    <3>2. P!OneActivePlan' /\ P!PlannedOnce'
      BY <3>1 DEF PlanIInv, P!OneActivePlan, P!PlannedOnce, P!ActivePlans, P!ActiveCourses
    <3>3. P!NoRequest \notin P!Recording
      BY DEF P!NoRequest, P!Recording
    <3> QED BY <2>1, <3>1, <3>2, <3>3, OthersRequest DEF PlanIInv, P!TypeOK
  <2>3. CASE P!Claimed(c)
    <3>1. PICK v \in P!NextVersion : /\ plan' = [plan EXCEPT ![v] = "draft"]
                                     /\ origin' = [origin EXCEPT ![v] = c]
                                     /\ planOf' = [planOf EXCEPT ![c] = v]
      BY <1>3, <2>3 DEF P!MaterializeWrite
    <3>2. UNCHANGED <<course, progress, sources, raced>>
      BY <1>3 DEF P!MaterializeWrite
    <3>3. /\ v \in P!Versions /\ plan[v] = "none"
          /\ plan' \in [P!Versions -> P!PlanStatus]
          /\ P!ActivePlans' = P!ActivePlans /\ P!OneActivePlan'
          /\ \A u \in P!Versions : plan[u] \in P!Confirmed \/ plan[u] = "draft" => plan'[u] = plan[u]
      BY <3>1, <3>2, NewDraft
    <3>4. \A p \in Learners : learner'[p] = IF p = q THEN P!NoRequest ELSE learner[p]
      BY <2>1 DEF PlanIInv, P!TypeOK
    <3>5. P!TypeOK'
      BY <2>1, <3>1, <3>2, <3>3 DEF PlanIInv, P!TypeOK
    <3>6. Apart'
      BY <3>4 DEF PlanIInv, Apart, P!Holds, P!NoRequest
    <3>7. \A p \in Learners : Confirmer(p)' /\ Recorder(p)'
      BY <3>3, <3>4, PlanKinds DEF PlanIInv, Confirmer, Recorder, P!NoRequest, P!Confirming,
         P!Recording
    <3>8. \A p \in Learners : Alone(p)'
      <4>1. P!Confirmations' = P!Confirmations
        BY <1>3, <3>4 DEF P!Confirmations, P!NoRequest, P!MaterializeWrite
      <4> QED BY <3>3, <3>4, <4>1 DEF PlanIInv, Alone, P!NoRequest
    <3>9. P!PlannedOnce'
      <4>1. origin[v] = None /\ planOf[c] = None
        BY <2>3, <3>3 DEF PlanIInv, P!Claimed
      <4>2. \A u \in P!Versions : origin'[u] = IF u = v THEN c ELSE origin[u]
        BY <3>1 DEF PlanIInv, P!TypeOK
      <4>3. \A d \in PlanCandidates : planOf'[d] = IF d = c THEN v ELSE planOf[d]
        BY <3>1 DEF PlanIInv, P!TypeOK
      <4> QED BY <2>1, <3>3, <4>1, <4>2, <4>3, PlanAssumption DEF PlanIInv, P!PlannedOnce
    <3>10. \A u \in P!Versions : plan'[u] = "none" => origin'[u] = None
      BY <3>1, <3>3 DEF PlanIInv, P!TypeOK
    <3> QED BY <3>3, <3>5, <3>6, <3>7, <3>8, <3>9, <3>10 DEF PlanIInv
  <2> QED BY <2>2, <2>3
<1>4. ASSUME NEW q \in Learners, P!RecordRead(q) PROVE PlanIInv'
  <2>1. PICK v \in P!ActivePlans : learner' = [learner EXCEPT ![q] = [op |-> "record", plan |-> v]]
    BY <1>4 DEF P!RecordRead
  <2> DEFINE r == [op |-> "record", plan |-> v]
  <2>2. r \in P!Recording /\ plan[r.plan] \in P!Confirmed
    BY DEF P!Recording, P!ActivePlans, P!Confirmed
  <2>3. P!OneActivePlan' /\ P!PlannedOnce'
    BY <1>4 DEF P!RecordRead, PlanIInv, P!OneActivePlan, P!PlannedOnce, P!ActivePlans,
       P!ActiveCourses
  <2> HIDE DEF r
  <2>4. learner' = [learner EXCEPT ![q] = r]
    BY <2>1 DEF r
  <2> QED BY <1>4, <2>2, <2>3, <2>4, OthersRequest DEF P!RecordRead, PlanIInv, P!TypeOK
<1>5. ASSUME NEW q \in Learners, P!RecordWrite(q) PROVE PlanIInv'
  <2>1. learner[q].plan \in P!Versions /\ plan[learner[q].plan] \in P!Confirmed
    BY <1>5, PlanKinds DEF P!RecordWrite, PlanIInv, Recorder, P!Recording
  <2>2. P!OneActivePlan' /\ P!PlannedOnce' /\ progress' \subseteq P!Versions
    BY <1>5, <2>1 DEF P!RecordWrite, PlanIInv, P!TypeOK, P!OneActivePlan, P!PlannedOnce,
       P!ActivePlans, P!ActiveCourses
  <2>3. P!NoRequest \notin P!Recording
    BY DEF P!NoRequest, P!Recording
  <2> QED BY <1>5, <2>2, <2>3, OthersRequest DEF P!RecordWrite, P!Done, PlanIInv, P!TypeOK
<1>6. ASSUME NEW q \in Learners, P!Abort(q) PROVE PlanIInv'
  <2>1. P!OneActivePlan' /\ P!PlannedOnce'
    BY <1>6 DEF P!Abort, PlanIInv, P!OneActivePlan, P!PlannedOnce, P!ActivePlans, P!ActiveCourses
  <2>2. P!NoRequest \notin P!Recording
    BY DEF P!NoRequest, P!Recording
  <2> QED BY <1>6, <2>1, <2>2, OthersRequest DEF P!Abort, P!Done, PlanIInv, P!TypeOK
<1>7. ASSUME NEW v \in P!Versions, P!CreateDraft(v) PROVE PlanIInv'
  <2>1. /\ v \in P!Versions /\ plan[v] = "none"
        /\ plan' \in [P!Versions -> P!PlanStatus]
        /\ P!ActivePlans' = P!ActivePlans /\ P!OneActivePlan'
        /\ \A u \in P!Versions : plan[u] \in P!Confirmed \/ plan[u] = "draft" => plan'[u] = plan[u]
    BY <1>7, NewDraft DEF P!CreateDraft
  <2>2. UNCHANGED <<course, origin, planOf, progress, sources, learner, raced>>
    BY <1>7 DEF P!CreateDraft
  <2>3. P!TypeOK'
    BY <2>1, <2>2 DEF PlanIInv, P!TypeOK
  <2>7. Apart' /\ P!PlannedOnce'
    BY <2>2 DEF PlanIInv, Apart, P!Holds, P!PlannedOnce
  <2>4. \A p \in Learners : Confirmer(p)' /\ Recorder(p)'
    BY <2>1, <2>2, PlanKinds DEF PlanIInv, Confirmer, Recorder, P!Confirming, P!Recording
  <2>5. \A p \in Learners : Alone(p)'
    BY <2>1, <2>2 DEF PlanIInv, Alone, P!Confirmations
  <2>6. \A u \in P!Versions : plan'[u] = "none" => origin'[u] = None
    BY <1>7, <2>2 DEF P!CreateDraft, PlanIInv, P!TypeOK
  <2> QED BY <2>1, <2>3, <2>4, <2>5, <2>6, <2>7 DEF PlanIInv
<1>8. ASSUME P!ChangeSources PROVE PlanIInv'
  <2>1. P!TypeOK'
    BY <1>8 DEF P!ChangeSources, PlanIInv, P!TypeOK
  <2>2. Apart' /\ P!OneActivePlan' /\ P!PlannedOnce'
    BY <1>8 DEF P!ChangeSources, PlanIInv, Apart, P!OneActivePlan, P!PlannedOnce, P!Holds,
       P!ActivePlans, P!ActiveCourses
  <2>3. \A p \in Learners : Confirmer(p)' /\ Alone(p)' /\ Recorder(p)'
    BY <1>8 DEF P!ChangeSources, PlanIInv, Confirmer, Alone, Recorder, P!ActivePlans,
       P!Confirmations
  <2> QED BY <1>8, <2>1, <2>2, <2>3 DEF P!ChangeSources, PlanIInv
<1> QED BY <1>1, <1>2, <1>3, <1>4, <1>5, <1>6, <1>7, <1>8, BeginKeeps, StatementsKeep, CommitKeeps
        DEF P!Next, P!Request

-----------------------------------------------------------------------------
(***************************************************************************)
(* Assessments.  What a request read before its transaction either cannot  *)
(* change, or is compared again by the statement that depends on it.       *)
(***************************************************************************)
\* Numbered sets only are made from candidates, and named by them.
Composed == A!ComposedOnce /\ \A s \in Sets : set[s] = None => madeFrom[s] = None

Events == {"started", "submitted"}

\* What a request found stays so until it writes.
Submitter(q) ==
    student[q].op = "submit" => A!AllAnswered(student[q].set)
Answerer(q) ==
    student[q].op = "answer" => exam[student[q].paper[1]] \in {"active", "submitted"}
Logger(q) ==
    student[q].op \in Events =>
        /\ logged[student[q].set][student[q].op] = 0
        /\ exam[student[q].set] = "submitted"
           \/ (student[q].op = "started" /\ exam[student[q].set] = "active")
Reviewer(q) ==
    student[q].op = "review" =>
        A!Stored(student[q].attempt) /\ A!QuestionOf(student[q].attempt) \notin Objective

\* An event is logged by the one request that made the change.
OneLogger ==
    \A p, q \in Students :
        student[p].op \in Events /\ student[q].op = student[p].op
        /\ student[q].set = student[p].set => p = q

Standing(q) == Submitter(q) /\ Answerer(q) /\ Logger(q) /\ Reviewer(q)

ExamIInv ==
    /\ A!TypeOK /\ Composed /\ A!SealedAssessment /\ A!GradedOnce /\ OneLogger
    /\ \A q \in Students : Standing(q)

LEMMA ExamInit == A!Init => ExamIInv
<1> SUFFICES ASSUME A!Init PROVE ExamIInv
  OBVIOUS
<1>1. A!TypeOK
  BY ExamAssumption DEF A!Init, A!TypeOK, A!Courses, A!ExamStatus, A!Logged
<1>2. Composed
  BY ExamAssumption DEF A!Init, Composed, A!ComposedOnce
<1>3. A!SealedAssessment
  BY DEF A!Init, A!SealedAssessment, A!Logged
<1>4. A!GradedOnce
  BY ExamAssumption DEF A!Init, A!GradedOnce, A!Stored, A!Attempts
<1>5. \A q \in Students : student[q].op = "none"
  BY DEF A!Init, A!NoRequest
<1> QED BY <1>1, <1>2, <1>3, <1>4, <1>5
        DEF ExamIInv, OneLogger, Standing, Submitter, Answerer, Logger, Reviewer, Events

-----------------------------------------------------------------------------
\* Fields of a request by its kind.
LEMMA RequestKinds ==
  ASSUME NEW r \in A!Request \cup {A!NoRequest}
  PROVE  /\ r.op \in {"practice", "materialize"} => r.course \in A!Courses
         /\ r.op = "materialize" => r.candidate \in SetCandidates
         /\ r.op \in {"create", "start", "submit", "started", "submitted"} => r.set \in Sets
         /\ r.op \in {"answer", "try"} => r.paper \in A!Papers
         /\ r.op = "review" => r.attempt \in A!Attempts
  BY DEF A!Request, A!NoRequest, A!Logged

\* One request changes, and what the others found stays so.
LEMMA StudentsKeep ==
  ASSUME ExamIInv, NEW q \in Students, NEW r \in A!Request \cup {A!NoRequest},
         student' = [student EXCEPT ![q] = r],
         \A s \in Sets : A!AllAnswered(s) => A!AllAnswered(s)',
         \A s \in Sets : exam[s] \in {"active", "submitted"} =>
                             exam'[s] \in {"active", "submitted"},
         \A s \in Sets : exam[s] = "submitted" => exam'[s] = "submitted",
         \A s \in Sets, e \in Events :
            logged'[s][e] = logged[s][e] \/ (student[q].op = e /\ student[q].set = s),
         \A a \in A!Attempts : A!Stored(a) => A!Stored(a)' /\ A!QuestionOf(a)' = A!QuestionOf(a),
         r.op \in Events => \A p \in Students \ {q} :
                               student[p].op = r.op => student[p].set # r.set,
         Standing(q)'
  PROVE  OneLogger' /\ (\A p \in Students : Standing(p)') /\ student' \in [Students -> A!Request \cup {A!NoRequest}]
<1>1. \A p \in Students : student'[p] = IF p = q THEN r ELSE student[p]
  BY DEF ExamIInv, A!TypeOK
<1>2. OneLogger'
  BY <1>1 DEF ExamIInv, OneLogger
<1>3. ASSUME NEW p \in Students, p # q PROVE Standing(p)'
  <2>1. student'[p] = student[p] /\ student[p] \in A!Request \cup {A!NoRequest} /\ Standing(p)
    BY <1>1, <1>3 DEF ExamIInv, A!TypeOK
  <2>2. Submitter(p)'
    BY <2>1, RequestKinds DEF Standing, Submitter
  <2>3. Answerer(p)'
    BY <2>1, RequestKinds DEF Standing, Answerer, A!Papers
  <2>4. Logger(p)'
    <3> SUFFICES ASSUME student[p].op \in Events PROVE Logger(p)'
      BY <2>1 DEF Logger
    <3>1. student[p].set \in Sets
      BY <2>1, RequestKinds DEF Events
    <3>2. ~(student[q].op = student[p].op /\ student[q].set = student[p].set)
      BY <1>3 DEF ExamIInv, OneLogger
    <3>3. logged'[student[p].set][student[p].op] = logged[student[p].set][student[p].op]
      BY <3>1, <3>2
    <3>4. /\ logged[student[p].set][student[p].op] = 0
          /\ exam[student[p].set] = "submitted"
             \/ (student[p].op = "started" /\ exam[student[p].set] = "active")
      BY <2>1 DEF Standing, Logger
    <3>5. exam'[student[p].set] = "submitted"
          \/ (student[p].op = "started" /\ exam'[student[p].set] = "active")
      BY <3>1, <3>4
    <3> QED BY <2>1, <3>3, <3>4, <3>5 DEF Logger
  <2>5. Reviewer(p)'
    BY <2>1, RequestKinds DEF Standing, Reviewer
  <2> QED BY <2>2, <2>3, <2>4, <2>5 DEF Standing
<1> QED BY <1>2, <1>3 DEF ExamIInv, A!TypeOK

\* A request that reads what it needs, or ends, changes nothing else.
LEMMA ReadKeeps ==
  ASSUME ExamIInv, NEW q \in Students, NEW r \in A!Request \cup {A!NoRequest},
         student' = [student EXCEPT ![q] = r],
         UNCHANGED <<current, A!practiceVars, A!examOnly, A!attemptVars>>,
         r.op \notin Events, Standing(q)'
  PROVE  ExamIInv'
<1> USE DEF A!practiceVars, A!examOnly, A!attemptVars
<1>1. OneLogger' /\ (\A p \in Students : Standing(p)') /\ student' \in [Students -> A!Request \cup {A!NoRequest}]
  BY StudentsKeep DEF A!AllAnswered, A!Stored, A!QuestionOf
<1>2. A!TypeOK'
  BY <1>1 DEF ExamIInv, A!TypeOK
<1>3. Composed' /\ A!SealedAssessment' /\ A!GradedOnce'
  BY DEF ExamIInv, Composed, A!ComposedOnce, A!SealedAssessment, A!GradedOnce, A!Stored,
     A!QuestionOf
<1> QED BY <1>1, <1>2, <1>3 DEF ExamIInv

\* Practice sets are added.
LEMMA PracticeKeeps ==
  ASSUME ExamIInv, NEW q \in Students, A!Done(q), Composed',
         set' \in [Sets -> A!Courses \cup {None}],
         madeFrom' \in [Sets -> SetCandidates \cup {None}],
         setOf' \in [SetCandidates -> Sets \cup {None}],
         UNCHANGED <<current, A!examOnly, A!attemptVars>>
  PROVE  ExamIInv'
<1> USE DEF A!examOnly, A!attemptVars
<1>1. student' = [student EXCEPT ![q] = A!NoRequest] /\ A!NoRequest.op = "none" /\ student'[q] = A!NoRequest
  BY DEF A!Done, A!Becomes, A!NoRequest, ExamIInv, A!TypeOK
<1>2. Standing(q)'
  BY <1>1 DEF Standing, Submitter, Answerer, Logger, Reviewer, Events
<1>3. OneLogger' /\ (\A p \in Students : Standing(p)') /\ student' \in [Students -> A!Request \cup {A!NoRequest}]
  BY <1>1, <1>2, StudentsKeep DEF A!AllAnswered, A!Stored, A!QuestionOf, Events
<1>4. A!TypeOK'
  BY <1>3 DEF ExamIInv, A!TypeOK
<1>5. A!SealedAssessment' /\ A!GradedOnce'
  BY DEF ExamIInv, A!SealedAssessment, A!GradedOnce, A!Stored, A!QuestionOf
<1> QED BY <1>3, <1>4, <1>5 DEF ExamIInv

\* The status of an assessment, or the count of an event, goes on.
LEMMA ExamKeeps ==
  ASSUME ExamIInv, NEW q \in Students, NEW r \in A!Request \cup {A!NoRequest},
         student' = [student EXCEPT ![q] = r],
         exam' \in [Sets -> A!ExamStatus], logged' \in [Sets -> [A!Logged -> Nat]],
         A!SealedAssessment',
         \A s \in Sets : exam[s] \in {"active", "submitted"} =>
                             exam'[s] \in {"active", "submitted"},
         \A s \in Sets : exam[s] = "submitted" => exam'[s] = "submitted",
         \A s \in Sets, e \in Events :
            logged'[s][e] = logged[s][e] \/ (student[q].op = e /\ student[q].set = s),
         r.op \in Events => \A p \in Students \ {q} :
                               student[p].op = r.op => student[p].set # r.set,
         Standing(q)',
         UNCHANGED <<current, A!practiceVars, A!attemptVars>>
  PROVE  ExamIInv'
<1> USE DEF A!practiceVars, A!attemptVars
<1>1. OneLogger' /\ (\A p \in Students : Standing(p)') /\ student' \in [Students -> A!Request \cup {A!NoRequest}]
  BY StudentsKeep DEF A!AllAnswered, A!Stored, A!QuestionOf
<1>2. A!TypeOK'
  BY <1>1 DEF ExamIInv, A!TypeOK
<1>3. Composed' /\ A!GradedOnce'
  BY DEF ExamIInv, Composed, A!ComposedOnce, A!GradedOnce, A!Stored, A!QuestionOf
<1> QED BY <1>1, <1>2, <1>3 DEF ExamIInv

\* An attempt is stored with its grade by rule, or a grade is added by hand.
LEMMA AttemptKeeps ==
  ASSUME ExamIInv, NEW q \in Students, A!Done(q),
         try' \in [Tries -> A!Papers \cup {None}], answered' \subseteq A!Papers,
         grade' \in [A!Attempts -> A!Grade \cup {None}], mastery' \in [A!Attempts -> BOOLEAN \cup {None}],
         answered \subseteq answered', \A t \in Tries : try[t] # None => try'[t] = try[t],
         \A p \in answered' \ answered : exam[p[1]] \in {"active", "submitted"},
         A!GradedOnce', UNCHANGED <<current, A!practiceVars, A!examOnly>>
  PROVE  ExamIInv'
<1> USE DEF A!examOnly, A!practiceVars
<1>1. student' = [student EXCEPT ![q] = A!NoRequest] /\ A!NoRequest.op = "none" /\ student'[q] = A!NoRequest
  BY DEF A!Done, A!Becomes, A!NoRequest, ExamIInv, A!TypeOK
<1>2. Standing(q)'
  BY <1>1 DEF Standing, Submitter, Answerer, Logger, Reviewer, Events
<1>3. OneLogger' /\ (\A p \in Students : Standing(p)') /\ student' \in [Students -> A!Request \cup {A!NoRequest}]
  <2>1. \A s \in Sets : A!AllAnswered(s) => A!AllAnswered(s)'
    BY DEF A!AllAnswered
  <2>2. \A a \in A!Attempts : A!Stored(a) => A!Stored(a)' /\ A!QuestionOf(a)' = A!QuestionOf(a)
    BY ExamAssumption DEF A!Stored, A!QuestionOf
  <2> QED BY <1>1, <1>2, <2>1, <2>2, StudentsKeep DEF Events
<1>4. A!TypeOK'
  BY <1>3 DEF ExamIInv, A!TypeOK
<1>5. Composed'
  BY DEF ExamIInv, Composed, A!ComposedOnce
<1>6. A!SealedAssessment'
  BY DEF ExamIInv, A!SealedAssessment, A!Papers
<1> QED BY <1>3, <1>4, <1>5, <1>6 DEF ExamIInv

\* A question that is answered or tried is graded at once, by its rule or not yet.
LEMMA GradedByRule ==
  ASSUME ExamIInv, NEW a \in A!Attempts, NEW k, ~A!Stored(a), A!Stored(a)', A!QuestionOf(a)' = k,
         A!GradeByRule(a, k),
         \A b \in A!Attempts \ {a} : /\ A!Stored(b)' <=> A!Stored(b)
                                     /\ A!Stored(b) => A!QuestionOf(b)' = A!QuestionOf(b)
  PROVE  /\ grade' \in [A!Attempts -> A!Grade \cup {None}] /\ mastery' \in [A!Attempts -> BOOLEAN \cup {None}]
         /\ A!GradedOnce'
<1>1. grade[a] = None /\ mastery[a] = None
  BY DEF ExamIInv, A!GradedOnce
<1>2. ASSUME NEW b \in A!Attempts, grade'[b] = grade[b], mastery'[b] = mastery[b], b # a
      PROVE  /\ mastery'[b] = (IF grade'[b] = None THEN None ELSE grade'[b].correct)
             /\ A!Stored(b)' /\ A!QuestionOf(b)' \in Objective => grade'[b] # None /\ grade'[b].by = "rule"
             /\ grade'[b] # None => A!Stored(b)' /\ (grade'[b].by = "human" => A!QuestionOf(b)' \notin Objective)
  BY <1>2 DEF ExamIInv, A!GradedOnce
<1>3. CASE k \in Objective
  <2>1. PICK right \in BOOLEAN : /\ grade' = [grade EXCEPT ![a] = [by |-> "rule", correct |-> right]]
                                 /\ mastery' = [mastery EXCEPT ![a] = right]
    BY <1>3 DEF A!GradeByRule
  <2> DEFINE g == [by |-> "rule", correct |-> right]
  <2>2. g \in A!Grade /\ g # None /\ g.by = "rule" /\ g.correct = right
    BY ExamAssumption DEF A!Grade
  <2> HIDE DEF g
  <2>3. \A b \in A!Attempts : /\ grade'[b] = IF b = a THEN g ELSE grade[b]
                              /\ mastery'[b] = IF b = a THEN right ELSE mastery[b]
    BY <2>1 DEF ExamIInv, A!TypeOK, g
  <2>4. grade' \in [A!Attempts -> A!Grade \cup {None}] /\ mastery' \in [A!Attempts -> BOOLEAN \cup {None}]
    BY <2>1, <2>2 DEF ExamIInv, A!TypeOK, g
  <2> QED BY <1>2, <2>2, <2>3, <2>4 DEF A!GradedOnce
<1>4. CASE k \notin Objective
  <2>1. UNCHANGED <<grade, mastery>>
    BY <1>4 DEF A!GradeByRule
  <2> QED BY <1>1, <1>2, <1>4, <2>1 DEF A!GradedOnce, ExamIInv, A!TypeOK
<1> QED BY <1>3, <1>4

LEMMA ReadsKeep ==
  ASSUME ExamIInv, NEW q \in Students,
         A!ReadCourse(q) \/ A!ReadExam(q) \/ A!ReadSubmission(q) \/ A!ReadQuestion(q) \/ A!ReadReview(q) \/ A!Abandon(q)
  PROVE  ExamIInv'
<1>1. UNCHANGED <<current, A!practiceVars, A!examOnly, A!attemptVars>>
  BY DEF A!ReadCourse, A!ReadExam, A!ReadSubmission, A!ReadQuestion, A!ReadReview, A!Abandon
<1>2. ASSUME NEW r \in A!Request \cup {A!NoRequest}, student' = [student EXCEPT ![q] = r], r.op \notin Events,
             r.op = "submit" => A!AllAnswered(r.set),
             r.op = "answer" => exam[r.paper[1]] \in {"active", "submitted"},
             r.op = "review" => A!Stored(r.attempt) /\ A!QuestionOf(r.attempt) \notin Objective
      PROVE  ExamIInv'
  <2>1. student'[q] = r
    BY <1>2 DEF ExamIInv, A!TypeOK
  <2>2. Standing(q)'
    BY <1>1, <1>2, <2>1 DEF Standing, Submitter, Answerer, Logger, Reviewer, A!AllAnswered,
       A!Stored, A!QuestionOf,
       A!examOnly, A!attemptVars
  <2> QED BY <1>1, <1>2, <2>2, ReadKeeps
<1>3. ASSUME A!ReadCourse(q) PROVE ExamIInv'
  <2>1. current \in A!Courses
    BY DEF ExamIInv, A!TypeOK
  <2>2. CASE A!Asks(q, [op |-> "practice", course |-> current])
    <3> DEFINE r == [op |-> "practice", course |-> current]
    <3>1. r \in A!Request /\ r.op = "practice"
      BY <2>1 DEF A!Request
    <3>2. student' = [student EXCEPT ![q] = r]
      BY <2>2 DEF A!Asks
    <3> HIDE DEF r
    <3> QED BY <1>2, <3>1, <3>2 DEF Events
  <2>3. ASSUME NEW c \in SetCandidates, A!Asks(q, [op |-> "materialize", course |-> current, candidate |-> c])
        PROVE  ExamIInv'
    <3> DEFINE r == [op |-> "materialize", course |-> current, candidate |-> c]
    <3>1. r \in A!Request /\ r.op = "materialize"
      BY <2>1 DEF A!Request
    <3>2. student' = [student EXCEPT ![q] = r]
      BY <2>3 DEF A!Asks
    <3> HIDE DEF r
    <3> QED BY <1>2, <3>1, <3>2 DEF Events
  <2> QED BY <1>3, <2>2, <2>3 DEF A!ReadCourse
<1>4. ASSUME NEW s \in Sets, NEW op \in {"create", "start", "submit"}, A!Asks(q, [op |-> op, set |-> s]),
             op = "submit" => A!AllAnswered(s)
      PROVE  ExamIInv'
  <2> DEFINE r == [op |-> op, set |-> s]
  <2>1. r \in A!Request /\ r.op = op /\ r.set = s
    BY DEF A!Request
  <2>2. student' = [student EXCEPT ![q] = r]
    BY <1>4 DEF A!Asks
  <2> HIDE DEF r
  <2> QED BY <1>2, <1>4, <2>1, <2>2 DEF Events
<1>5. ASSUME NEW p \in A!Papers, NEW op \in {"answer", "try"}, A!Asks(q, [op |-> op, paper |-> p]),
             op = "answer" => exam[p[1]] = "active"
      PROVE  ExamIInv'
  <2> DEFINE r == [op |-> op, paper |-> p]
  <2>1. r \in A!Request /\ r.op = op /\ r.paper = p
    BY DEF A!Request
  <2>2. student' = [student EXCEPT ![q] = r]
    BY <1>5 DEF A!Asks
  <2> HIDE DEF r
  <2> QED BY <1>2, <1>5, <2>1, <2>2 DEF Events
<1>6. ASSUME A!ReadExam(q) PROVE ExamIInv'
  <2>1. PICK s \in Sets :
          \/ A!Asks(q, [op |-> "create", set |-> s]) \/ A!Asks(q, [op |-> "start", set |-> s])
          \/ \E k \in Questions : exam[s] = "active" /\ A!Asks(q, [op |-> "answer", paper |-> <<s, k>>])
    BY <1>6 DEF A!ReadExam
  <2>2. ASSUME NEW k \in Questions, exam[s] = "active", A!Asks(q, [op |-> "answer", paper |-> <<s, k>>])
        PROVE  ExamIInv'
    <3>1. <<s, k>> \in A!Papers /\ <<s, k>>[1] = s
      BY DEF A!Papers
    <3> QED BY <1>5, <2>2, <3>1
  <2> QED BY <1>4, <2>1, <2>2
<1>7. ASSUME A!ReadSubmission(q) PROVE ExamIInv'
  BY <1>4, <1>7 DEF A!ReadSubmission
<1>8. ASSUME A!ReadQuestion(q) PROVE ExamIInv'
  BY <1>5, <1>8 DEF A!ReadQuestion
<1>9. ASSUME A!ReadReview(q) PROVE ExamIInv'
  <2>1. PICK a \in A!Attempts : /\ A!Stored(a) /\ A!QuestionOf(a) \notin Objective
                                /\ A!Asks(q, [op |-> "review", attempt |-> a])
    BY <1>9 DEF A!ReadReview
  <2> DEFINE r == [op |-> "review", attempt |-> a]
  <2>2. r \in A!Request /\ r.op = "review" /\ r.attempt = a
    BY DEF A!Request
  <2>3. student' = [student EXCEPT ![q] = r]
    BY <2>1 DEF A!Asks
  <2> HIDE DEF r
  <2> QED BY <1>2, <2>1, <2>2, <2>3 DEF Events
<1>10. ASSUME A!Abandon(q) PROVE ExamIInv'
  <2>1. student' = [student EXCEPT ![q] = A!NoRequest] /\ A!NoRequest.op = "none"
    BY <1>10 DEF A!Abandon, A!Done, A!Becomes, A!NoRequest
  <2> QED BY <1>2, <2>1 DEF Events
<1> QED BY <1>3, <1>6, <1>7, <1>8, <1>9, <1>10

LEMMA PracticesKeep ==
  ASSUME ExamIInv, NEW q \in Students, A!CreatePracticeSet(q) \/ A!MaterializeSet(q)
  PROVE  ExamIInv'
<1>1. student[q].course \in A!Courses /\ student[q].course # None
  BY RequestKinds, ExamAssumption DEF A!CreatePracticeSet, A!MaterializeSet, ExamIInv, A!TypeOK
<1>2. CASE A!CreatePracticeSet(q)
  <2>1. PICK s \in Sets : set[s] = None /\ set' = [set EXCEPT ![s] = student[q].course]
    BY <1>2 DEF A!CreatePracticeSet
  <2>2. Composed' /\ set' \in [Sets -> A!Courses \cup {None}]
    BY <1>1, <1>2, <2>1 DEF A!CreatePracticeSet, ExamIInv, A!TypeOK, Composed, A!ComposedOnce
  <2> QED BY <1>2, <2>2, PracticeKeeps DEF A!CreatePracticeSet, ExamIInv, A!TypeOK
<1>3. CASE A!MaterializeSet(q)
  <2> DEFINE c == student[q].candidate
  <2>1. c \in SetCandidates
    BY <1>3, RequestKinds DEF A!MaterializeSet, ExamIInv, A!TypeOK
  <2>2. CASE ~A!Unclaimed(c)
    <3>1. UNCHANGED A!practiceVars
      BY <1>3, <2>2 DEF A!MaterializeSet
    <3> QED BY <1>3, <3>1, PracticeKeeps DEF A!MaterializeSet, A!practiceVars, ExamIInv,
       A!TypeOK, Composed, A!ComposedOnce
  <2>3. CASE A!Unclaimed(c)
    <3>1. PICK s \in Sets : /\ set[s] = None
                            /\ set' = [set EXCEPT ![s] = student[q].course]
                            /\ madeFrom' = [madeFrom EXCEPT ![s] = c]
                            /\ setOf' = [setOf EXCEPT ![c] = s]
      BY <1>3, <2>3 DEF A!MaterializeSet
    <3>2. madeFrom[s] = None /\ setOf[c] = None
      BY <2>3, <3>1 DEF A!Unclaimed, ExamIInv, Composed
    <3>3. /\ set' \in [Sets -> A!Courses \cup {None}]
          /\ madeFrom' \in [Sets -> SetCandidates \cup {None}]
          /\ setOf' \in [SetCandidates -> Sets \cup {None}]
      BY <1>1, <2>1, <3>1 DEF ExamIInv, A!TypeOK
    <3>4. \A t \in Sets : /\ set'[t] = IF t = s THEN student[q].course ELSE set[t]
                          /\ madeFrom'[t] = IF t = s THEN c ELSE madeFrom[t]
      BY <3>1 DEF ExamIInv, A!TypeOK
    <3>5. \A d \in SetCandidates : setOf'[d] = IF d = c THEN s ELSE setOf[d]
      BY <3>1 DEF ExamIInv, A!TypeOK
    <3>6. A!ComposedOnce'
      BY <2>1, <3>2, <3>4, <3>5, ExamAssumption DEF ExamIInv, Composed, A!ComposedOnce
    <3>7. Composed'
      BY <1>1, <3>4, <3>6 DEF ExamIInv, Composed
    <3> QED BY <1>3, <3>3, <3>7, PracticeKeeps DEF A!MaterializeSet
  <2> QED BY <2>2, <2>3
<1> QED BY <1>2, <1>3

LEMMA ExamsKeep ==
  ASSUME ExamIInv, NEW q \in Students, A!CreateExam(q) \/ A!StartExam(q) \/ A!SubmitExam(q) \/ A!LogEvent(q)
  PROVE  ExamIInv'
<1> DEFINE s == student[q].set
<1>1. s \in Sets /\ student[q] \in A!Request \cup {A!NoRequest} /\ Standing(q)
  BY RequestKinds DEF A!CreateExam, A!StartExam, A!SubmitExam, A!LogEvent, A!Logged, ExamIInv,
     A!TypeOK
<1>2. A!NoRequest.op = "none" /\ UNCHANGED <<current, A!practiceVars, A!attemptVars>>
  BY DEF A!NoRequest, A!CreateExam, A!StartExam, A!SubmitExam, A!LogEvent
<1>3. ASSUME NEW r \in A!Request \cup {A!NoRequest}, student' = [student EXCEPT ![q] = r], r.op = "none"
      PROVE  Standing(q)' /\ (r.op \in Events => \A p \in Students \ {q} :
                               student[p].op = r.op => student[p].set # r.set)
  <2>1. student'[q] = r
    BY <1>3 DEF ExamIInv, A!TypeOK
  <2> QED BY <1>3, <2>1 DEF Standing, Submitter, Answerer, Logger, Reviewer, Events
<1>4. ASSUME UNCHANGED A!examOnly, A!Done(q) PROVE ExamIInv'
  BY <1>2, <1>3, <1>4, ReadKeeps DEF A!Done, A!Becomes, Events
<1>5. CASE A!CreateExam(q)
  <2>1. \A t \in Sets : exam'[t] = IF t = s /\ exam[s] = "none" THEN "draft" ELSE exam[t]
    BY <1>5 DEF A!CreateExam, ExamIInv, A!TypeOK
  <2>2. exam' \in [Sets -> A!ExamStatus] /\ UNCHANGED logged
    BY <1>5 DEF A!CreateExam, ExamIInv, A!TypeOK, A!ExamStatus
  <2>3. A!SealedAssessment'
    BY <1>2, <2>1, <2>2 DEF ExamIInv, A!SealedAssessment, A!attemptVars
  <2>4. logged' \in [Sets -> [A!Logged -> Nat]]
    BY <2>2 DEF ExamIInv, A!TypeOK
  <2> QED BY <1>2, <1>3, <1>5, <2>1, <2>2, <2>3, <2>4, ExamKeeps DEF A!CreateExam, A!Done,
     A!Becomes, Events
<1>6. ASSUME NEW from \in {"draft", "active"}, NEW to \in {"active", "submitted"},
             NEW e \in Events, exam[s] = from, exam' = [exam EXCEPT ![s] = to],
             A!Becomes(q, [op |-> e, set |-> s]), UNCHANGED logged,
             student[q].op \in {"start", "submit"},
             from = "draft" => to = "active" /\ e = "started",
             from = "active" => to = "submitted" /\ e = "submitted" /\ A!AllAnswered(s)
      PROVE  ExamIInv'
  <2> DEFINE r == [op |-> e, set |-> s]
  <2>1. r \in A!Request /\ r.op = e /\ r.set = s
    BY <1>1 DEF A!Request, Events, A!Logged
  <2>2. student' = [student EXCEPT ![q] = r] /\ student'[q] = r
    BY <1>6 DEF A!Becomes, ExamIInv, A!TypeOK
  <2> HIDE DEF r
  <2>3. \A t \in Sets : exam'[t] = IF t = s THEN to ELSE exam[t]
    BY <1>6 DEF ExamIInv, A!TypeOK
  <2>4. exam' \in [Sets -> A!ExamStatus] /\ logged' \in [Sets -> [A!Logged -> Nat]]
    BY <1>6 DEF ExamIInv, A!TypeOK, A!ExamStatus
  <2>5. logged[s][e] \in Nat /\ logged[s][e] <= 1 /\ logged[s][e] # 1
    BY <1>1, <1>6 DEF ExamIInv, A!TypeOK, A!SealedAssessment, A!Logged, Events
  <2>6. logged[s][e] = 0
    BY <2>5
  <2>7. A!SealedAssessment'
    BY <1>1, <1>2, <1>6, <2>3 DEF ExamIInv, A!SealedAssessment, A!AllAnswered, A!attemptVars
  <2>8. Standing(q)'
    <3>1. r.op \notin {"submit", "answer", "review"}
      BY <2>1 DEF Events
    <3>2. logged'[s][e] = 0 /\ exam'[s] = to
      BY <1>1, <1>6, <2>3, <2>6
    <3>3. Logger(q)'
      BY <1>6, <2>1, <2>2, <3>2 DEF Logger, Events
    <3> QED BY <2>2, <3>1, <3>3 DEF Standing, Submitter, Answerer, Reviewer
  <2>9. \A p \in Students \ {q} : student[p].op = e => student[p].set # s
    BY <1>6 DEF ExamIInv, Standing, Logger, Events
  <2> QED BY <1>2, <1>6, <2>1, <2>2, <2>3, <2>4, <2>7, <2>8, <2>9, ExamKeeps
<1>7. CASE A!StartExam(q)
  <2>1. CASE A!StillIn(s, "draft")
    BY <1>6, <1>7, <2>1 DEF A!StartExam, A!StillIn, Events
  <2>2. CASE ~A!StillIn(s, "draft")
    BY <1>4, <1>7, <2>2 DEF A!StartExam, A!examOnly
  <2> QED BY <2>1, <2>2
<1>8. CASE A!SubmitExam(q)
  <2>1. CASE A!StillIn(s, "active")
    BY <1>1, <1>6, <1>8, <2>1 DEF A!SubmitExam, A!StillIn, Events, Standing, Submitter
  <2>2. CASE ~A!StillIn(s, "active")
    BY <1>4, <1>8, <2>2 DEF A!SubmitExam, A!examOnly
  <2> QED BY <2>1, <2>2
<1>9. CASE A!LogEvent(q)
  <2> DEFINE e == student[q].op
  <2>1. e \in Events /\ logged[s][e] = 0
        /\ (exam[s] = "submitted" \/ (e = "started" /\ exam[s] = "active"))
    BY <1>1, <1>9 DEF A!LogEvent, A!Logged, Events, Standing, Logger
  <2>2. logged' = [logged EXCEPT ![s][e] = @ + 1] /\ UNCHANGED exam
    BY <1>9 DEF A!LogEvent
  <2>3. \A t \in Sets, f \in Events : logged'[t][f] = IF t = s /\ f = e THEN 1 ELSE logged[t][f]
    BY <1>1, <2>1, <2>2 DEF ExamIInv, A!TypeOK, Events, A!Logged
  <2>4. logged' \in [Sets -> [A!Logged -> Nat]]
    BY <1>1, <2>1, <2>2 DEF ExamIInv, A!TypeOK, Events, A!Logged
  <2>5. A!SealedAssessment'
    BY <1>1, <1>2, <2>1, <2>2, <2>3 DEF ExamIInv, A!SealedAssessment, A!attemptVars, A!Logged,
       Events
  <2>6. student' = [student EXCEPT ![q] = A!NoRequest] /\ exam' \in [Sets -> A!ExamStatus]
    BY <1>9, <2>2 DEF A!LogEvent, A!Done, A!Becomes, ExamIInv, A!TypeOK
  <2>7. \A t \in Sets, f \in Events : logged'[t][f] = logged[t][f] \/ (student[q].op = f /\ student[q].set = t)
    BY <2>3
  <2> QED BY <1>2, <1>3, <2>2, <2>4, <2>5, <2>6, <2>7, ExamKeeps DEF Events
<1> QED BY <1>5, <1>7, <1>8, <1>9

LEMMA AttemptsKeep ==
  ASSUME ExamIInv, NEW q \in Students, A!Answer(q) \/ A!TryQuestion(q) \/ A!Review(q)
  PROVE  ExamIInv'
<1>1. student[q] \in A!Request \cup {A!NoRequest} /\ Standing(q) /\ A!Done(q)
      /\ UNCHANGED <<current, A!practiceVars, A!examOnly>>
  BY DEF A!Answer, A!TryQuestion, A!Review, ExamIInv, A!TypeOK
<1>2. ASSUME UNCHANGED A!attemptVars PROVE ExamIInv'
  BY <1>1, <1>2, AttemptKeeps DEF A!attemptVars, ExamIInv, A!TypeOK, A!GradedOnce, A!Stored,
     A!QuestionOf
<1>3. CASE A!Answer(q)
  <2>1. PICK p \in A!Papers : p = student[q].paper
    BY <1>1, <1>3, RequestKinds DEF A!Answer
  <2>4. p \in A!Attempts /\ p \notin Tries /\ exam[p[1]] \in {"active", "submitted"}
    BY <1>1, <1>3, <2>1, ExamAssumption DEF A!Answer, A!Attempts, Standing, Answerer
  <2>2. CASE p \in answered
    BY <1>2, <1>3, <2>1, <2>2 DEF A!Answer
  <2>3. CASE p \notin answered
    <3>1. answered' = answered \cup {p} /\ A!GradeByRule(p, p[2]) /\ UNCHANGED try
      BY <1>3, <2>1, <2>3 DEF A!Answer
    <3>2. ~A!Stored(p) /\ A!Stored(p)' /\ A!QuestionOf(p)' = p[2]
      BY <2>3, <2>4, <3>1 DEF A!Stored, A!QuestionOf
    <3>3. \A b \in A!Attempts \ {p} : (A!Stored(b)' <=> A!Stored(b)) /\ A!QuestionOf(b)' = A!QuestionOf(b)
      BY <3>1 DEF A!Stored, A!QuestionOf
    <3>4. /\ grade' \in [A!Attempts -> A!Grade \cup {None}] /\ mastery' \in [A!Attempts -> BOOLEAN \cup {None}]
          /\ A!GradedOnce'
      BY <2>4, <3>1, <3>2, <3>3, GradedByRule
    <3> QED BY <1>1, <2>4, <3>1, <3>4, AttemptKeeps DEF ExamIInv, A!TypeOK
  <2> QED BY <2>2, <2>3
<1>4. CASE A!TryQuestion(q)
  <2> DEFINE p == student[q].paper
  <2>1. p \in A!Papers /\ p # None
    BY <1>1, <1>4, RequestKinds, ExamAssumption DEF A!TryQuestion
  <2>2. PICK t \in Tries : try[t] = None /\ try' = [try EXCEPT ![t] = p] /\ A!GradeByRule(t, p[2])
    BY <1>4 DEF A!TryQuestion
  <2>3. UNCHANGED answered
    BY <1>4 DEF A!TryQuestion
  <2>4. \A u \in Tries : try'[u] = IF u = t THEN p ELSE try[u]
    BY <2>2 DEF ExamIInv, A!TypeOK
  <2>5. t \in A!Attempts /\ ~A!Stored(t) /\ A!Stored(t)' /\ A!QuestionOf(t)' = p[2]
    BY <2>1, <2>2, <2>4 DEF A!Stored, A!QuestionOf, A!Attempts
  <2>6. \A b \in A!Attempts \ {t} : (A!Stored(b)' <=> A!Stored(b)) /\ A!QuestionOf(b)' = A!QuestionOf(b)
    BY <2>3, <2>4 DEF A!Stored, A!QuestionOf
  <2>7. /\ grade' \in [A!Attempts -> A!Grade \cup {None}] /\ mastery' \in [A!Attempts -> BOOLEAN \cup {None}]
        /\ A!GradedOnce'
    BY <2>2, <2>5, <2>6, GradedByRule
  <2>8. try' \in [Tries -> A!Papers \cup {None}]
    BY <2>1, <2>2 DEF ExamIInv, A!TypeOK
  <2> QED BY <1>1, <2>2, <2>3, <2>4, <2>7, <2>8, AttemptKeeps DEF ExamIInv, A!TypeOK
<1>5. CASE A!Review(q)
  <2> DEFINE a == student[q].attempt
  <2>1. a \in A!Attempts /\ A!Stored(a) /\ A!QuestionOf(a) \notin Objective
    BY <1>1, <1>5, RequestKinds DEF A!Review, Standing, Reviewer
  <2>2. UNCHANGED <<try, answered>>
    BY <1>5 DEF A!Review
  <2>3. CASE ~A!NotGraded(a)
    BY <1>2, <1>5, <2>2, <2>3 DEF A!Review, A!attemptVars
  <2>4. CASE A!NotGraded(a)
    <3>1. PICK right \in BOOLEAN :
             /\ grade' = [grade EXCEPT ![a] = [by |-> "human", correct |-> right]]
             /\ mastery' = [mastery EXCEPT ![a] = IF @ = None THEN right ELSE @]
      BY <1>5, <2>4 DEF A!Review
    <3> DEFINE g == [by |-> "human", correct |-> right]
    <3>2. g \in A!Grade /\ g # None /\ g.by = "human" /\ g.correct = right
      BY ExamAssumption DEF A!Grade
    <3> HIDE DEF g
    <3>3. mastery[a] = None
      BY <2>1, <2>4 DEF A!NotGraded, ExamIInv, A!GradedOnce
    <3>4. /\ grade' \in [A!Attempts -> A!Grade \cup {None}] /\ mastery' \in [A!Attempts -> BOOLEAN \cup {None}]
          /\ \A b \in A!Attempts : /\ grade'[b] = IF b = a THEN g ELSE grade[b]
                                   /\ mastery'[b] = IF b = a THEN right ELSE mastery[b]
      BY <2>1, <3>1, <3>2, <3>3 DEF ExamIInv, A!TypeOK, g
    <3>5. \A b \in A!Attempts : A!Stored(b)' = A!Stored(b) /\ A!QuestionOf(b)' = A!QuestionOf(b)
      BY <2>2 DEF A!Stored, A!QuestionOf
    <3>6. A!GradedOnce'
      BY <2>1, <3>2, <3>4, <3>5 DEF ExamIInv, A!GradedOnce
    <3> QED BY <1>1, <2>2, <3>4, <3>6, AttemptKeeps DEF ExamIInv, A!TypeOK
  <2> QED BY <2>3, <2>4
<1> QED BY <1>3, <1>4, <1>5

LEMMA ExamStep == ExamIInv /\ [A!Next]_(A!examVars) => ExamIInv'
<1> SUFFICES ASSUME ExamIInv, [A!Next]_(A!examVars) PROVE ExamIInv'
  OBVIOUS
<1>1. ASSUME UNCHANGED <<A!practiceVars, A!examOnly, A!attemptVars, student>>, current' \in A!Courses PROVE ExamIInv'
  <2> USE DEF A!practiceVars, A!examOnly, A!attemptVars
  <2>1. A!TypeOK' /\ Composed'
    BY <1>1 DEF ExamIInv, A!TypeOK, Composed, A!ComposedOnce
  <2>2. A!SealedAssessment' /\ A!GradedOnce' /\ OneLogger'
    BY <1>1 DEF ExamIInv, A!SealedAssessment, A!GradedOnce, OneLogger, A!Stored, A!QuestionOf
  <2>3. \A q \in Students : Standing(q)'
    BY <1>1 DEF ExamIInv, Standing, Submitter, Answerer, Logger, Reviewer, A!AllAnswered,
       A!Stored, A!QuestionOf
  <2> QED BY <2>1, <2>2, <2>3 DEF ExamIInv
<1>2. CASE UNCHANGED A!examVars
  BY <1>1, <1>2 DEF A!examVars, A!practiceVars, A!examOnly, A!attemptVars, ExamIInv, A!TypeOK
<1>3. CASE A!SwitchPlan
  <2>1. current' \in A!Courses
    BY <1>3, ExamAssumption DEF A!SwitchPlan, ExamIInv, A!TypeOK, A!Courses
  <2> QED BY <1>1, <1>3, <2>1 DEF A!SwitchPlan
<1> QED BY <1>2, <1>3, ReadsKeep, PracticesKeep, ExamsKeep, AttemptsKeep DEF A!Next, A!Handle

-----------------------------------------------------------------------------
(***************************************************************************)
(* The four together.                                                      *)
(***************************************************************************)
LearningInv ==
    /\ part \in {"skills", "plans", "assessments", "reports"}
    /\ part = "skills" => SkillIInv
    /\ part = "plans" => PlanIInv
    /\ part = "assessments" => ExamIInv
    /\ part = "reports" => IInv /\ TypeOK

LEMMA LearningInductive == LearningSpec => []LearningInv
<1> DEFINE allVars == <<skillVars, planVars, examVars, reportVars, part>>
<1>1. LearningInit => LearningInv
  BY InitIInv, ReportTypeInit, SkillInit, PlanInit, ExamInit DEF LearningInit, LearningInv
<1>2. LearningInv /\ [LearningNext]_allVars => LearningInv'
  <2> SUFFICES ASSUME LearningInv, [LearningNext]_allVars PROVE LearningInv'
    OBVIOUS
  <2>1. part' = part
    BY DEF LearningNext
  <2>2. CASE part = "skills"
    <3>1. [S!Next]_(S!skillVars)
      BY <2>2 DEF LearningNext, skillVars, S!skillVars
    <3> QED BY <2>1, <2>2, <3>1, SkillStep DEF LearningInv
  <2>3. CASE part = "plans"
    <3>1. [P!Next]_(P!planVars)
      BY <2>3 DEF LearningNext, planVars, P!planVars
    <3> QED BY <2>1, <2>3, <3>1, PlanStep DEF LearningInv
  <2>4. CASE part = "assessments"
    <3>1. [A!Next]_(A!examVars)
      BY <2>4 DEF LearningNext, examVars, A!examVars
    <3> QED BY <2>1, <2>4, <3>1, ExamStep DEF LearningInv
  <2>5. CASE part = "reports"
    <3>1. [Next]_reportVars /\ active \in Nat
      BY <2>5 DEF LearningNext, LearningInv, TypeOK, Plans
    <3> QED BY <2>1, <2>5, <3>1, NextIInv, ReportTypeStep DEF LearningInv
  <2> QED BY <2>2, <2>3, <2>4, <2>5 DEF LearningInv
<1> QED BY <1>1, <1>2, PTL DEF LearningSpec

\* Every variable of the four services keeps to its type, for any number of
\* requests, workers, rows and faults.
THEOREM LearningTyped == LearningSpec => []LearningTypeOK
<1>1. LearningInv => LearningTypeOK
  BY SkillSafe DEF LearningInv, LearningTypeOK, PlanIInv, ExamIInv
<1> QED BY <1>1, LearningInductive, PTL

\* A skill run is executed once, by one handler, however often its message comes;
\* one whose scope or approval had ended when it was claimed never is
\* (dynamic-skill-execution.ts, builtin-skill-execution.ts).
THEOREM SkillRunsHold == LearningSpec => []SkillRunsKept
<1>1. LearningInv => SkillRunsKept
  BY SkillSafe DEF LearningInv, SkillRunsKept
<1> QED BY <1>1, LearningInductive, PTL

\* Unless two confirmations overlap, one plan and one course are active; and courses
\* and progress belong to confirmed plans (learning-plans.ts confirmLearningPlan).
THEOREM OneActivePlanHolds == LearningSpec => []OneActivePlan
<1>1. LearningInv => OneActivePlan
  BY DEF LearningInv, OneActivePlan, PlanIInv
<1> QED BY <1>1, LearningInductive, PTL

\* A candidate becomes at most one plan or one practice set, the one it names,
\* however many requests materialize it at once.
THEOREM MaterializedOnceHolds == LearningSpec => []MaterializedOnce
<1>1. LearningInv => MaterializedOnce
  BY DEF LearningInv, MaterializedOnce, PlanIInv, ExamIInv, Composed
<1> QED BY <1>1, LearningInductive, PTL

\* A submitted assessment is completely answered and its events are logged once; an
\* attempt has one grade, of the right kind, and the mastery that follows from it.
THEOREM AssessmentHolds == LearningSpec => []AssessmentKept
<1>1. LearningInv => AssessmentKept
  BY DEF LearningInv, AssessmentKept, ExamIInv
<1> QED BY <1>1, LearningInductive, PTL
=============================================================================
