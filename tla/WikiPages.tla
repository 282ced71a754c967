------------------------------- MODULE WikiPages -------------------------------
(***************************************************************************)
(* The pages of one knowledge space, their reviews, change proposals and   *)
(* conflicts.  The calls exclude each other by the publication lease       *)
(* (WikiPublication), and the swap of the wiki directory is one step; what *)
(* a call writes under reviews/ before and after the swap are steps of     *)
(* their own, between which the process may die or the call may fail.  A   *)
(* publication can fail after the swap too, when the old directory cannot  *)
(* be removed: the pages are out, and the call goes no further.            *)
(*                                                                         *)
(* A compilation of a resource version yields drafts, in the order of its  *)
(* sections: the identity of a page comes from its section, the FILE it is *)
(* written to from its position (buildPageDrafts).  "content" stands for   *)
(* all that semanticPageDigest covers, sources included.                   *)
(***************************************************************************)
EXTENDS Naturals, Sequences, FiniteSets

CONSTANTS
    Pages,         \* page ids
    Contents,
    Compilations,  \* what the parsers can make of the resource version: see below
    MaxCompiled,   \* bound on compilations
    MaxConflicts,  \* bound on declared conflicts
    MaxFailures,   \* bound on failures
    Failures       \* out of {"crash", "io"}

Draft == [id : Pages, content : Contents]

ASSUME CompilationsAssumption ==
    \A c \in Compilations :
        /\ c \in Seq(Draft)
        /\ \A i, j \in DOMAIN c : c[i].id = c[j].id => i = j
ASSUME PagesBounds == MaxCompiled \in Nat /\ MaxConflicts \in Nat /\ MaxFailures \in Nat

VARIABLES
    file,          \* wiki/topics/<name>-<i>.md
    proposal,      \* reviews/pages/<page>/proposals/*, by page, base and candidate
    conflict,      \* reviews/conflicts/*
    revisions,     \* reviews/pages/<page>/revisions/*
    compiled,      \* compilations so far
    call,          \* the call that holds the lease
    failures

pagesVars == <<file, proposal, conflict, revisions, compiled, call, failures>>

Files       == 1 .. 1 + Cardinality(Pages)
ConflictIds == 1 .. MaxConflicts
Change      == [page : Pages, base : Contents, candidate : Contents]

PageStatus     == {"draft", "reviewed", "conflicted", "deprecated"}
ProposalStatus == {"none", "pending", "accepted", "rejected", "stale"}
ConflictStatus == {"open", "parallel", "resolved"}

NoPage     == [status |-> "none"]
Page       == [id : Pages, content : Contents, status : PageStatus, conflicts : SUBSET ConflictIds]
NoConflict == [status |-> "none"]
Withdrawn  == [status |-> "withdrawn"]
Conflict   == [left : Pages, right : Pages, status : ConflictStatus]
Idle       == [kind |-> "idle", todo |-> <<>>]

PagesInit ==
    /\ file = [f \in Files |-> NoPage]
    /\ proposal = [c \in Change |-> "none"]
    /\ conflict = [k \in ConflictIds |-> NoConflict]
    /\ revisions = {}
    /\ compiled = 0
    /\ call = Idle
    /\ failures = 0

(* findWikiPageFile.                                                        *)
Holds(wiki, p, f) == wiki[f] # NoPage /\ wiki[f].id = p
Exists(wiki, p)   == \E f \in Files : Holds(wiki, p, f)
FileOf(wiki, p)   == CHOOSE f \in Files : Holds(wiki, p, f)
PageOf(wiki, p)   == wiki[FileOf(wiki, p)]

(* Mutant: duplicate ids are not an issue.                                  *)
NoLint(wiki) == TRUE

(* lintWikiDirectory: DUPLICATE_ID.                                         *)
Lint(wiki) ==
    \A f, g \in Files :
        wiki[f] # NoPage /\ wiki[g] # NoPage /\ wiki[f].id = wiki[g].id => f = g

Fails(f) == f \in Failures /\ failures < MaxFailures /\ failures' = failures + 1

(* The steps a call has left, in the order the code takes them.             *)
Goes(kind, todo) == call' = [kind |-> kind, todo |-> todo]
Next1(step) == call.todo # <<>> /\ Head(call.todo).step = step
Arg         == Head(call.todo)
Done1       == call' = IF Len(call.todo) = 1 THEN Idle ELSE [call EXCEPT !.todo = Tail(@)]

-------------------------------------------------------------------------------
(* compileWiki.                                                             *)

Locked(page) == page.status \in {"reviewed", "conflicted"}

(* The staging directory after the first i drafts.                          *)
Staged(drafts) ==
    LET S[i \in 0 .. Len(drafts)] ==
            IF i = 0 THEN file
            ELSE IF Exists(S[i-1], drafts[i].id) /\ Locked(PageOf(S[i-1], drafts[i].id))
                 THEN S[i-1]
                 ELSE [S[i-1] EXCEPT ![i] =
                         [id |-> drafts[i].id, content |-> drafts[i].content,
                          status |-> "draft", conflicts |-> {}]]
    IN  S

(* The drafts that met a lock, and those among them that become proposals.  *)
Met(drafts, i) ==
    LET before == Staged(drafts)[i-1]
    IN  Exists(before, drafts[i].id) /\ Locked(PageOf(before, drafts[i].id))

LockedChanges(drafts) ==
    {[page |-> drafts[i].id,
      base |-> PageOf(Staged(drafts)[i-1], drafts[i].id).content,
      candidate |-> drafts[i].content] :
        i \in {j \in DOMAIN drafts :
                 Met(drafts, j) /\ PageOf(Staged(drafts)[j-1], drafts[j].id).status = "reviewed"}}

Compile(drafts) ==
    /\ call = Idle
    /\ compiled < MaxCompiled /\ compiled' = compiled + 1
    /\ LET staging == Staged(drafts)[Len(drafts)]
       IN  /\ Lint(staging)
           /\ file' = staging
           /\ Goes("compile", <<[step |-> "propose", changes |-> LockedChanges(drafts)]>>)
    /\ UNCHANGED <<proposal, conflict, revisions, failures>>

(* createWikiPageChangeProposal: one proposal for a base and a candidate,   *)
(* whatever has become of it.                                               *)
Propose ==
    /\ Next1("propose")
    /\ proposal' = [c \in Change |->
                      IF c \in Arg.changes /\ c.base # c.candidate /\ proposal[c] = "none"
                      THEN "pending" ELSE proposal[c]]
    /\ Done1
    /\ UNCHANGED <<file, conflict, revisions, failures, compiled>>

-------------------------------------------------------------------------------
(* reviewWikiPage.                                                          *)

SetPage(wiki, p, content, status) ==
    [wiki EXCEPT ![FileOf(wiki, p)] = [@ EXCEPT !.content = content, !.status = status]]

Approve(p) ==
    /\ call = Idle
    /\ Exists(file, p) /\ PageOf(file, p).status = "draft"
    /\ file' = SetPage(file, p, PageOf(file, p).content, "reviewed")
    /\ Goes("review", <<[step |-> "snapshot", page |-> p, content |-> PageOf(file, p).content]>>)
    /\ UNCHANGED <<proposal, conflict, revisions, failures, compiled>>

Reopen(p) ==
    /\ call = Idle
    /\ Exists(file, p) /\ PageOf(file, p).status = "reviewed"
    /\ file' = SetPage(file, p, PageOf(file, p).content, "draft")
    /\ UNCHANGED <<proposal, conflict, revisions, call, failures, compiled>>

(* saveWikiPageRevision.                                                    *)
Snapshot ==
    /\ Next1("snapshot")
    /\ revisions' = revisions \cup {<<Arg.page, Arg.content>>}
    /\ Done1
    /\ UNCHANGED <<file, proposal, conflict, failures, compiled>>

-------------------------------------------------------------------------------
(* decideWikiPageProposal.                                                  *)

ToResolve(c, status) == [step |-> "resolve", change |-> c, status |-> status]

(* Mutant: the base is not compared with the current page.                  *)
AcceptAnyBase(c) ==
    /\ call = Idle
    /\ proposal[c] = "pending" /\ Exists(file, c.page)
    /\ file' = SetPage(file, c.page, c.candidate, "reviewed")
    /\ Goes("proposal", <<[step |-> "snapshot", page |-> c.page, content |-> c.base],
                          [step |-> "snapshot", page |-> c.page, content |-> c.candidate],
                          ToResolve(c, "accepted")>>)
    /\ UNCHANGED <<proposal, conflict, revisions, failures, compiled>>

(* Mutant: the decision is written before the revisions.                    *)
AcceptResolvesFirst(c) ==
    /\ call = Idle
    /\ proposal[c] = "pending" /\ Exists(file, c.page)
    /\ PageOf(file, c.page).content = c.base
    /\ file' = SetPage(file, c.page, c.candidate, "reviewed")
    /\ Goes("proposal", <<ToResolve(c, "accepted"),
                          [step |-> "snapshot", page |-> c.page, content |-> c.base],
                          [step |-> "snapshot", page |-> c.page, content |-> c.candidate]>>)
    /\ UNCHANGED <<proposal, conflict, revisions, failures, compiled>>

(* The candidate is published as reviewed, whatever the page's status: the  *)
(* digest does not cover it.  The candidate's frontmatter has no conflicts. *)
Accept(c) ==
    /\ call = Idle
    /\ proposal[c] = "pending" /\ Exists(file, c.page)
    /\ PageOf(file, c.page).content = c.base
    /\ file' = [file EXCEPT ![FileOf(file, c.page)] =
                  [id |-> c.page, content |-> c.candidate, status |-> "reviewed", conflicts |-> {}]]
    /\ Goes("proposal", <<[step |-> "snapshot", page |-> c.page, content |-> c.base],
                          [step |-> "snapshot", page |-> c.page, content |-> c.candidate],
                          ToResolve(c, "accepted")>>)
    /\ UNCHANGED <<proposal, conflict, revisions, failures, compiled>>

Reject(c) ==
    /\ call = Idle
    /\ proposal[c] = "pending" /\ Exists(file, c.page)
    /\ PageOf(file, c.page).content = c.base
    /\ proposal' = [proposal EXCEPT ![c] = "rejected"]
    /\ UNCHANGED <<file, conflict, revisions, call, failures, compiled>>

MarkStale(c) ==
    /\ call = Idle
    /\ proposal[c] = "pending" /\ Exists(file, c.page)
    /\ PageOf(file, c.page).content # c.base
    /\ proposal' = [proposal EXCEPT ![c] = "stale"]
    /\ UNCHANGED <<file, conflict, revisions, call, failures, compiled>>

(* writeProposalManifest.                                                   *)
ResolveProposal ==
    /\ Next1("resolve")
    /\ proposal' = [proposal EXCEPT ![Arg.change] = Arg.status]
    /\ Done1
    /\ UNCHANGED <<file, conflict, revisions, failures, compiled>>

-------------------------------------------------------------------------------
(* declareWikiConflict, decideWikiConflict.                                 *)

Unresolved(k) == conflict[k].status \in {"open", "parallel"}
Between(k, p, q) == {conflict[k].left, conflict[k].right} = {p, q}

(* The directory of the conflict is there before its pages are published.   *)
Declare(k, p, q) ==
    /\ call = Idle
    /\ conflict[k] = NoConflict
    /\ p # q /\ Exists(file, p) /\ Exists(file, q)
    /\ ~\E j \in ConflictIds : Unresolved(j) /\ Between(j, p, q)
    /\ conflict' = [conflict EXCEPT ![k] = [left |-> p, right |-> q, status |-> "open"]]
    /\ Goes("conflict", <<[step |-> "dispute", conflict |-> k]>>)
    /\ UNCHANGED <<file, proposal, revisions, failures, compiled>>

(* The pages of the conflict as publishConflictPages leaves them.           *)
InConflict(k) ==
    [f \in Files |->
        IF Holds(file, conflict[k].left, f) \/ Holds(file, conflict[k].right, f)
        THEN [file[f] EXCEPT !.status = "conflicted", !.conflicts = @ \cup {k}]
        ELSE file[f]]

(* publishConflictPages; whenever it fails the conflict's directory is      *)
(* removed again, also when the pages are out and only the old wiki could   *)
(* not be removed.  An id that pages name is not drawn again.               *)
Dispute ==
    /\ Next1("dispute")
    /\ LET k == Arg.conflict
       IN  \/ file' = InConflict(k) /\ UNCHANGED <<conflict, failures>>
           \/ /\ Fails("io")
              /\ \/ conflict' = [conflict EXCEPT ![k] = NoConflict] /\ UNCHANGED file
                 \/ conflict' = [conflict EXCEPT ![k] = Withdrawn] /\ file' = InConflict(k)
    /\ Done1
    /\ UNCHANGED <<proposal, revisions, compiled>>

InDispute(k) ==
    /\ Unresolved(k)
    /\ \A p \in {conflict[k].left, conflict[k].right} :
         Exists(file, p) /\ PageOf(file, p).status = "conflicted"

ToSettle(k, status) == [step |-> "settle", conflict |-> k, status |-> status]

(* Mutant: the losing page is forgotten.                                    *)
SelectWinnerOnly(k, winner, loser) ==
    /\ call = Idle
    /\ InDispute(k) /\ Between(k, winner, loser) /\ winner # loser
    /\ file' = [f \in Files |->
                  IF Holds(file, winner, f) THEN [file[f] EXCEPT !.status = "reviewed"]
                  ELSE file[f]]
    /\ Goes("conflict", <<ToSettle(k, "resolved")>>)
    /\ UNCHANGED <<proposal, conflict, revisions, failures, compiled>>

(* select_left, select_right: the pages are published, then the manifest.   *)
Select(k, winner, loser) ==
    /\ call = Idle
    /\ InDispute(k) /\ Between(k, winner, loser) /\ winner # loser
    /\ file' = [f \in Files |->
                  IF Holds(file, winner, f) THEN [file[f] EXCEPT !.status = "reviewed"]
                  ELSE IF Holds(file, loser, f) THEN [file[f] EXCEPT !.status = "deprecated"]
                  ELSE file[f]]
    /\ Goes("conflict", <<ToSettle(k, "resolved")>>)
    /\ UNCHANGED <<proposal, conflict, revisions, failures, compiled>>

KeepParallel(k) ==
    /\ call = Idle
    /\ InDispute(k)
    /\ conflict' = [conflict EXCEPT ![k].status = "parallel"]
    /\ UNCHANGED <<file, proposal, revisions, call, failures, compiled>>

(* writeWikiConflictManifest.                                               *)
SettleConflict ==
    /\ Next1("settle")
    /\ conflict' = [conflict EXCEPT ![Arg.conflict].status = Arg.status]
    /\ Done1
    /\ UNCHANGED <<file, proposal, revisions, failures, compiled>>

-------------------------------------------------------------------------------
(* The process dies, or the step that is next fails and the call with it;   *)
(* this is also the publication that fails after the swap.                  *)
Interrupt ==
    /\ call # Idle
    /\ Fails("crash") \/ Fails("io")
    /\ call' = Idle
    /\ UNCHANGED <<file, proposal, conflict, revisions, compiled>>

PagesNext ==
    \/ \E drafts \in Compilations : Compile(drafts)
    \/ \E p \in Pages : Approve(p) \/ Reopen(p)
    \/ \E c \in Change : Accept(c) \/ Reject(c) \/ MarkStale(c)
    \/ \E k \in ConflictIds :
         \/ KeepParallel(k)
         \/ \E p, q \in Pages : Declare(k, p, q) \/ Select(k, p, q)
    \/ Propose \/ Snapshot \/ ResolveProposal \/ Dispute \/ SettleConflict
    \/ Interrupt

PagesSpec == PagesInit /\ [][PagesNext]_pagesVars

-------------------------------------------------------------------------------
(* Types, and that no page is published twice: a compilation that leaves an *)
(* earlier copy of a page behind at another position must fail.             *)
PagesTypeOK ==
    /\ file \in [Files -> Page \cup {NoPage}]
    /\ \A f, g \in Files : file[f] # NoPage /\ file[g] # NoPage /\ f # g => file[f].id # file[g].id
    /\ proposal \in [Change -> ProposalStatus]
    /\ conflict \in [ConflictIds -> Conflict \cup {NoConflict, Withdrawn}]
    /\ revisions \subseteq Pages \X Contents
    /\ failures \in 0 .. MaxFailures /\ compiled \in 0 .. MaxCompiled

(* The page still says what it said, wherever its file now is.              *)
TextStays(p) == Exists(file', p) /\ PageOf(file', p).content = PageOf(file, p).content

(* Its text gave way to a candidate that was pending for exactly that text. *)
TextProposed(p) ==
    /\ Exists(file', p)
    /\ proposal[[page |-> p, base |-> PageOf(file, p).content,
                 candidate |-> PageOf(file', p).content]] = "pending"

(* A compilation wrote the draft of another page over its file.             *)
Overwritten(p) ==
    /\ call'.kind = "compile"
    /\ file'[FileOf(file, p)].id # p

IsLocked(p) == Exists(file, p) /\ Locked(PageOf(file, p))

(* What the review lock promises: while a page is reviewed or in dispute,   *)
(* its text changes only to a candidate a person accepts for it.            *)
LockKept == [][\A p \in Pages : IsLocked(p) => TextStays(p) \/ TextProposed(p)]_pagesVars

(* The lock as the code keeps it, followed by page and not by file: neither *)
(* a compilation nor a late acceptance changes what a locked page says but  *)
(* through its proposal, EXCEPT that a compilation of other sections writes *)
(* another page's draft over its file without looking what is in it.  The   *)
(* page is then gone, or a draft elsewhere.                                 *)
LockedByProposal ==
    [][\A p \in Pages : IsLocked(p) => TextStays(p) \/ TextProposed(p) \/ Overwritten(p)]_pagesVars

(* A page in dispute is named by a conflict someone can still decide: no    *)
(* crash between the pages and the manifest leaves a page locked with no    *)
(* open conflict to it.  The exception is a conflict of the page that was   *)
(* withdrawn when its pages were already out.                               *)
DisputedIsNamed ==
    \A f \in Files :
        file[f] # NoPage /\ file[f].status = "conflicted" =>
            \E k \in file[f].conflicts :
                \/ Unresolved(k) /\ file[f].id \in {conflict[k].left, conflict[k].right}
                \/ conflict[k] = Withdrawn

(* A proposal is on record as accepted only with the page before and after  *)
(* it among the revisions, wherever the acceptance is interrupted.          *)
AcceptedOnRecord ==
    \A c \in Change :
        proposal[c] = "accepted" =>
            {<<c.page, c.base>>, <<c.page, c.candidate>>} \subseteq revisions

===============================================================================
