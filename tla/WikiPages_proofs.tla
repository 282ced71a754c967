---------------------------- MODULE WikiPages_proofs ----------------------------
(***************************************************************************)
(* Proofs about WikiPages for any pages, compilations, conflicts and       *)
(* failures.  The calls exclude each other, so the invariant says what the *)
(* steps that a call has left rely on: a proposal that is still to be      *)
(* resolved has the revisions before it on disk, a conflict that is still  *)
(* to be published is named by no page, one that is still to be settled    *)
(* has no page in dispute.                                                 *)
(***************************************************************************)
EXTENDS WikiPages, NaturalsInduction, WellFoundedInduction, TLAPS

Shaped ==
    /\ file \in [Files -> Page \cup {NoPage}]
    /\ proposal \in [Change -> ProposalStatus]
    /\ conflict \in [ConflictIds -> Conflict \cup {NoConflict, Withdrawn}]
    /\ revisions \subseteq Pages \X Contents
    /\ failures \in 0 .. MaxFailures /\ compiled \in 0 .. MaxCompiled

Saves(p, text) == [step |-> "snapshot", page |-> p, content |-> text]
Before(c) == <<c.page, c.base>>
After(c) == <<c.page, c.candidate>>

\* A page names conflicts that were declared, and an id is on one page.
Named == \A f \in Files : file[f] # NoPage => \A k \in file[f].conflicts : conflict[k] # NoConflict

Proposing ==
    \E changes \in SUBSET Change :
        call = [kind |-> "compile", todo |-> <<[step |-> "propose", changes |-> changes]>>]

Reviewing ==
    \E p \in Pages, text \in Contents : call = [kind |-> "review", todo |-> <<Saves(p, text)>>]

Accepting ==
    \E c \in Change :
        \/ call = [kind |-> "proposal",
                   todo |-> <<Saves(c.page, c.base), Saves(c.page, c.candidate), ToResolve(c, "accepted")>>]
        \/ /\ call = [kind |-> "proposal",
                      todo |-> <<Saves(c.page, c.candidate), ToResolve(c, "accepted")>>]
           /\ Before(c) \in revisions
        \/ /\ call = [kind |-> "proposal", todo |-> <<ToResolve(c, "accepted")>>]
           /\ {Before(c), After(c)} \subseteq revisions

Disputing ==
    \E k \in ConflictIds :
        /\ call = [kind |-> "conflict", todo |-> <<[step |-> "dispute", conflict |-> k]>>]
        /\ Unresolved(k)
        /\ \A f \in Files : file[f] # NoPage => k \notin file[f].conflicts

Settling ==
    \E k \in ConflictIds :
        /\ call = [kind |-> "conflict", todo |-> <<ToSettle(k, "resolved")>>]
        /\ Unresolved(k)
        /\ \A f \in Files :
              file[f] # NoPage /\ file[f].id \in {conflict[k].left, conflict[k].right}
              => file[f].status # "conflicted"

Calling == call = Idle \/ Proposing \/ Reviewing \/ Accepting \/ Disputing \/ Settling

IInv == Shaped /\ Lint(file) /\ Named /\ Calling /\ DisputedIsNamed /\ AcceptedOnRecord

LEMMA InitIInv == PagesInit => IInv
  BY PagesBounds
     DEF PagesInit, IInv, Shaped, Lint, Named, Calling, DisputedIsNamed, AcceptedOnRecord, ProposalStatus

-------------------------------------------------------------------------------
(***************************************************************************)
(* The staging directory of a compilation.                                 *)
(***************************************************************************)
\* What holds at zero and goes on to the next holds up to n.
LEMMA UpTo ==
  ASSUME NEW n \in Nat, NEW S, 0 \in S, \A i \in 1 .. n : i - 1 \in S => i \in S
  PROVE  0 .. n \subseteq S
<1> DEFINE Left == (0 .. n) \ S
<1> SUFFICES ASSUME Left # {} PROVE FALSE
  OBVIOUS
<1>1. Left \subseteq Nat
  OBVIOUS
<1>2. PICK b \in Left : \A c \in Left : ~ (c < b)
  <2>1. \E b \in Left : \A c \in Left : ~ (<<c, b>> \in OpToRel(<, Nat))
    BY <1>1, NatLessThanWellFounded, WFMin
  <2> QED BY <1>1, <2>1 DEF OpToRel
<1>3. b \in 1 .. n /\ b - 1 \in 0 .. n /\ b - 1 < b
  BY <1>1
<1>4. b - 1 \in S
  BY <1>2, <1>3
<1> QED BY <1>3, <1>4

NewPage(draft) ==
    [id |-> draft.id, content |-> draft.content, status |-> "draft", conflicts |-> {}]

\* The directory after one draft more.
Written(wiki, drafts, i) ==
    IF Exists(wiki, drafts[i].id) /\ Locked(PageOf(wiki, drafts[i].id))
    THEN wiki ELSE [wiki EXCEPT ![i] = NewPage(drafts[i])]

LEMMA StagedUnfolds ==
  ASSUME NEW drafts \in Seq(Draft)
  PROVE  Staged(drafts) = [i \in 0 .. Len(drafts) |->
             IF i = 0 THEN file ELSE Written(Staged(drafts)[i-1], drafts, i)]
<1> DEFINE n == Len(drafts)
           Unfolds(g, m) == g = [i \in 0 .. m |->
                                   IF i = 0 THEN file ELSE Written(g[i-1], drafts, i)]
           Good == {m \in 0 .. n : \E g : Unfolds(g, m)}
<1>1. n \in Nat
  OBVIOUS
<1>2. Staged(drafts) = CHOOSE S : S = [i \in 0 .. n |->
                           IF i = 0 THEN file ELSE Written(S[i-1], drafts, i)]
  BY DEF Staged, Written, NewPage
<1>3. 0 \in Good
  <2> DEFINE g == [i \in 0 .. 0 |-> file]
  <2>1. g = [i \in 0 .. 0 |-> IF i = 0 THEN file ELSE Written(g[i-1], drafts, i)]
    OBVIOUS
  <2>2. \E f : Unfolds(f, 0)
    BY <2>1
  <2> HIDE DEF Unfolds
  <2> QED BY <1>1, <2>2
<1>4. ASSUME NEW m \in 1 .. n, m - 1 \in Good PROVE m \in Good
  <2>1. PICK g : g = [i \in 0 .. m - 1 |-> IF i = 0 THEN file ELSE Written(g[i-1], drafts, i)]
    BY <1>4
  <2> DEFINE h == [i \in 0 .. m |-> IF i = m THEN Written(g[m-1], drafts, m) ELSE g[i]]
  <2>2. ASSUME NEW i \in 0 .. m
        PROVE  h[i] = IF i = 0 THEN file ELSE Written(h[i-1], drafts, i)
    <3>1. CASE i = m
      <4>1. m - 1 \in 0 .. m /\ m - 1 # m
        OBVIOUS
      <4>2. h[m-1] = g[m-1] /\ h[m] = Written(g[m-1], drafts, m)
        BY <4>1
      <4> QED BY <3>1, <4>2
    <3>2. CASE i # m
      <4>1. i \in 0 .. m - 1 /\ h[i] = g[i]
        BY <3>2
      <4>2. i # 0 => i - 1 \in 0 .. m /\ i - 1 # m /\ h[i-1] = g[i-1]
        BY <4>1
      <4>3. g[i] = IF i = 0 THEN file ELSE Written(g[i-1], drafts, i)
        BY <2>1, <4>1
      <4> QED BY <4>1, <4>2, <4>3
    <3> QED BY <3>1, <3>2
  <2>3. h = [i \in 0 .. m |-> IF i = 0 THEN file ELSE Written(h[i-1], drafts, i)]
    <3> HIDE DEF h
    <3>1. h = [i \in 0 .. m |-> h[i]]
      BY DEF h
    <3> QED BY <2>2, <3>1
  <2>4. \E f : Unfolds(f, m)
    BY <2>3
  <2> HIDE DEF Unfolds
  <2> QED BY <1>1, <2>4
<1>5. n \in Good
  <2> HIDE DEF Good
  <2>1. 0 .. n \subseteq Good
    BY <1>1, <1>3, <1>4, UpTo
  <2> QED BY <1>1, <2>1
<1> QED BY <1>2, <1>5

\* Each file of the staging directory is the published one or a draft, and no draft
\* replaces a page of the same id that is reviewed or in dispute.
LEMMA StagedKeeps ==
  ASSUME NEW drafts \in Compilations, Shaped, Lint(file), NEW i \in 0 .. Len(drafts)
  PROVE  LET wiki == Staged(drafts)[i]
         IN  /\ wiki \in [Files -> Page \cup {NoPage}]
             /\ \A f \in Files :
                  \/ wiki[f] = file[f]
                  \/ /\ f \in 1 .. i /\ wiki[f] = NewPage(drafts[f])
                     /\ ~ (file[f] # NoPage /\ file[f].id = drafts[f].id /\ Locked(file[f]))
<1> DEFINE n == Len(drafts)
           S == Staged(drafts)
           Kept(m, f) == \/ S[m][f] = file[f]
                         \/ /\ f \in 1 .. m /\ S[m][f] = NewPage(drafts[f])
                            /\ ~ (file[f] # NoPage /\ file[f].id = drafts[f].id /\ Locked(file[f]))
           Good == {m \in 0 .. n : S[m] \in [Files -> Page \cup {NoPage}] /\ \A f \in Files : Kept(m, f)}
<1>1. drafts \in Seq(Draft) /\ n \in Nat /\ DOMAIN drafts = 1 .. n
  BY CompilationsAssumption
<1>2. \A j, k \in 1 .. n : drafts[j].id = drafts[k].id => j = k
  BY <1>1, CompilationsAssumption
<1>3. S = [m \in 0 .. n |-> IF m = 0 THEN file ELSE Written(S[m-1], drafts, m)]
  BY <1>1, StagedUnfolds
<1> HIDE DEF S
<1>4. 0 \in Good
  <2>1. S[0] = file
    BY <1>1, <1>3
  <2> QED BY <1>1, <2>1 DEF Shaped
<1>5. ASSUME NEW m \in 1 .. n, m - 1 \in Good PROVE m \in Good
  <2> DEFINE wiki == S[m-1]
             d == drafts[m]
  <2>1. S[m] = Written(wiki, drafts, m)
    BY <1>1, <1>3
  <2>2. wiki \in [Files -> Page \cup {NoPage}] /\ \A f \in Files : Kept(m - 1, f)
    BY <1>5
  <2>3. CASE S[m] = wiki
    BY <1>1, <2>2, <2>3
  <2>4. CASE /\ S[m] = [wiki EXCEPT ![m] = NewPage(d)]
             /\ ~ (Exists(wiki, d.id) /\ Locked(PageOf(wiki, d.id)))
    <3>1. NewPage(d) \in Page
      <4>1. drafts[m] \in Draft
        BY <1>1
      <4> QED BY <4>1 DEF NewPage, Page, Draft, PageStatus
    <3>2. S[m] \in [Files -> Page \cup {NoPage}]
      BY <2>2, <2>4, <3>1
    <3>3. ASSUME NEW f \in Files, f # m PROVE Kept(m, f)
      BY <2>2, <2>4, <3>3
    <3>4. ASSUME m \in Files PROVE Kept(m, m)
      <4>1. S[m][m] = NewPage(d)
        BY <2>2, <2>4, <3>4
      <4>2. ASSUME file[m] # NoPage, file[m].id = d.id, Locked(file[m]) PROVE FALSE
        <5>1. wiki[m] = file[m]
          BY <2>2, <3>4
        <5>2. Holds(wiki, d.id, m)
          BY <4>2, <5>1 DEF Holds
        <5>3. Holds(wiki, d.id, FileOf(wiki, d.id)) /\ FileOf(wiki, d.id) \in Files
          BY <3>4, <5>2 DEF FileOf
        <5>4. ASSUME NEW g \in Files, Holds(wiki, d.id, g) PROVE g = m
          <6>1. CASE wiki[g] = file[g]
            BY <3>4, <4>2, <5>4, <6>1 DEF Holds, Lint
          <6>2. CASE g \in 1 .. m - 1 /\ wiki[g] = NewPage(drafts[g])
            <7>1. drafts[g].id = d.id /\ g \in 1 .. n
              BY <1>1, <5>4, <6>2 DEF Holds, NewPage
            <7> QED BY <1>2, <7>1
          <6> QED BY <2>2, <6>1, <6>2
        <5>5. PageOf(wiki, d.id) = file[m] /\ Exists(wiki, d.id)
          BY <3>4, <5>1, <5>2, <5>3, <5>4 DEF PageOf, Exists
        <5> QED BY <2>4, <4>2, <5>5
      <4> QED BY <4>1, <4>2
    <3> QED BY <3>2, <3>3, <3>4
  <2> QED BY <2>1, <2>3, <2>4 DEF Written
<1>6. 0 .. n \subseteq Good
  <2> HIDE DEF Good
  <2> QED BY <1>1, <1>4, <1>5, UpTo
<1> QED BY <1>6 DEF S

-------------------------------------------------------------------------------
(***************************************************************************)
(* What a call has left, and the page of an id.                            *)
(***************************************************************************)
LEMMA FileOfHolds ==
  ASSUME NEW wiki, NEW p, Exists(wiki, p)
  PROVE  FileOf(wiki, p) \in Files /\ Holds(wiki, p, FileOf(wiki, p))
BY DEF Exists, FileOf

LEMMA AtPropose ==
  ASSUME Calling, Next1("propose")
  PROVE  Arg.changes \in SUBSET Change /\ (Done1 <=> call' = Idle)
BY DEF Calling, Next1, Arg, Done1, Idle, Proposing, Reviewing, Accepting, Disputing, Settling,
       Saves, ToResolve, ToSettle

LEMMA AtDispute ==
  ASSUME Calling, Next1("dispute")
  PROVE  /\ Arg.conflict \in ConflictIds /\ Unresolved(Arg.conflict)
         /\ \A f \in Files : file[f] # NoPage => Arg.conflict \notin file[f].conflicts
         /\ Done1 <=> call' = Idle
BY DEF Calling, Next1, Arg, Done1, Idle, Proposing, Reviewing, Accepting, Disputing, Settling,
       Saves, ToResolve, ToSettle

LEMMA AtSettle ==
  ASSUME Calling, Next1("settle")
  PROVE  /\ Arg.conflict \in ConflictIds /\ Unresolved(Arg.conflict) /\ Arg.status = "resolved"
         /\ \A f \in Files :
              file[f] # NoPage /\ file[f].id \in {conflict[Arg.conflict].left, conflict[Arg.conflict].right}
              => file[f].status # "conflicted"
         /\ Done1 <=> call' = Idle
<1>1. Settling
  BY DEF Calling, Next1, Idle, Proposing, Reviewing, Accepting, Disputing, Saves, ToResolve
<1>2. PICK k \in ConflictIds :
         /\ call = [kind |-> "conflict", todo |-> <<ToSettle(k, "resolved")>>]
         /\ Unresolved(k)
         /\ \A f \in Files :
               file[f] # NoPage /\ file[f].id \in {conflict[k].left, conflict[k].right}
               => file[f].status # "conflicted"
  BY <1>1 DEF Settling
<1>3. Arg = ToSettle(k, "resolved") /\ Len(call.todo) = 1
  BY <1>2 DEF Arg
<1>4. Arg.conflict = k /\ Arg.status = "resolved"
  BY <1>3 DEF ToSettle
<1>5. Done1 <=> call' = Idle
  BY <1>3 DEF Done1
<1> QED BY <1>2, <1>4, <1>5

LEMMA AtResolve ==
  ASSUME Calling, Next1("resolve")
  PROVE  /\ Arg.change \in Change /\ Arg.status = "accepted"
         /\ {Before(Arg.change), After(Arg.change)} \subseteq revisions
         /\ Done1 <=> call' = Idle
BY DEF Calling, Next1, Arg, Done1, Idle, Proposing, Reviewing, Accepting, Disputing, Settling,
       Saves, ToResolve, ToSettle

LEMMA AtSnapshot ==
  ASSUME Calling, Snapshot
  PROVE  /\ Arg.page \in Pages /\ Arg.content \in Contents
         /\ Calling'
<1>1. Next1("snapshot") /\ revisions' = revisions \cup {<<Arg.page, Arg.content>>} /\ Done1
  BY DEF Snapshot
<1>2. CASE Reviewing
  <2>1. PICK p \in Pages, text \in Contents : call = [kind |-> "review", todo |-> <<Saves(p, text)>>]
    BY <1>2 DEF Reviewing
  <2>2. Arg.page = p /\ Arg.content = text /\ call' = Idle
    BY <1>1, <2>1 DEF Arg, Done1, Saves
  <2> QED BY <2>2 DEF Calling
<1>3. CASE Accepting
  <2>1. PICK c \in Change :
        \/ call = [kind |-> "proposal",
                   todo |-> <<Saves(c.page, c.base), Saves(c.page, c.candidate), ToResolve(c, "accepted")>>]
        \/ /\ call = [kind |-> "proposal",
                      todo |-> <<Saves(c.page, c.candidate), ToResolve(c, "accepted")>>]
           /\ Before(c) \in revisions
        \/ /\ call = [kind |-> "proposal", todo |-> <<ToResolve(c, "accepted")>>]
           /\ {Before(c), After(c)} \subseteq revisions
    BY <1>3 DEF Accepting
  <2>2. c.page \in Pages /\ c.base \in Contents /\ c.candidate \in Contents
    BY DEF Change
  <2>3. CASE call = [kind |-> "proposal",
                   todo |-> <<Saves(c.page, c.base), Saves(c.page, c.candidate), ToResolve(c, "accepted")>>]
    <3>1. /\ Arg.page = c.page /\ Arg.content = c.base
          /\ call' = [kind |-> "proposal",
                      todo |-> <<Saves(c.page, c.candidate), ToResolve(c, "accepted")>>]
      BY <1>1, <2>3 DEF Arg, Done1, Saves
    <3>2. Before(c) \in revisions'
      BY <1>1, <3>1 DEF Before
    <3>3. Accepting'
      BY <3>1, <3>2 DEF Accepting, Before, After, Saves, ToResolve
    <3> QED BY <2>2, <3>1, <3>3 DEF Calling
  <2>4. CASE /\ call = [kind |-> "proposal",
                        todo |-> <<Saves(c.page, c.candidate), ToResolve(c, "accepted")>>]
             /\ Before(c) \in revisions
    <3>1. /\ Arg.page = c.page /\ Arg.content = c.candidate
          /\ call' = [kind |-> "proposal", todo |-> <<ToResolve(c, "accepted")>>]
      BY <1>1, <2>4 DEF Arg, Done1, Saves
    <3>2. {Before(c), After(c)} \subseteq revisions'
      BY <1>1, <2>4, <3>1 DEF Before, After
    <3>3. Accepting'
      BY <3>1, <3>2 DEF Accepting, Before, After, Saves, ToResolve
    <3> QED BY <2>2, <3>1, <3>3 DEF Calling
  <2>5. CASE call = [kind |-> "proposal", todo |-> <<ToResolve(c, "accepted")>>]
    BY <1>1, <2>5 DEF Next1, ToResolve
  <2> QED BY <2>1, <2>3, <2>4, <2>5
<1> QED
  BY <1>1, <1>2, <1>3
     DEF Calling, Next1, Idle, Proposing, Disputing, Settling, ToSettle

-------------------------------------------------------------------------------
(***************************************************************************)
(* One lemma for each step.                                                *)
(***************************************************************************)
LEMMA CompileKeeps ==
  ASSUME IInv, NEW drafts \in Compilations, Compile(drafts)
  PROVE  IInv'
<1> DEFINE n == Len(drafts)
           S == Staged(drafts)
<1>1. drafts \in Seq(Draft) /\ n \in Nat /\ DOMAIN drafts = 1 .. n
  BY CompilationsAssumption
<1>2. /\ compiled < MaxCompiled /\ compiled' = compiled + 1
      /\ Lint(S[n]) /\ file' = S[n]
      /\ call' = [kind |-> "compile",
                  todo |-> <<[step |-> "propose", changes |-> LockedChanges(drafts)]>>]
      /\ UNCHANGED <<proposal, conflict, revisions, failures>>
  BY DEF Compile, Goes
<1>3. ASSUME NEW i \in 0 .. n
      PROVE  /\ S[i] \in [Files -> Page \cup {NoPage}]
             /\ \A f \in Files :
                  \/ S[i][f] = file[f]
                  \/ f \in 1 .. i /\ S[i][f] = NewPage(drafts[f])
  <2>1. Shaped /\ Lint(file) /\ i \in 0 .. Len(drafts)
    BY DEF IInv
  <2> HIDE DEF n, S
  <2> QED BY <2>1, StagedKeeps DEF S
<1> HIDE DEF S
<1>4. /\ file' \in [Files -> Page \cup {NoPage}]
      /\ \A f \in Files : file'[f] = file[f] \/ file'[f] = NewPage(drafts[f])
  BY <1>1, <1>2, <1>3
<1>5. LockedChanges(drafts) \in SUBSET Change
  <2>1. ASSUME NEW j \in DOMAIN drafts, Met(drafts, j)
        PROVE  [page |-> drafts[j].id, base |-> PageOf(S[j-1], drafts[j].id).content,
                candidate |-> drafts[j].content] \in Change
    <3>1. j - 1 \in 0 .. n /\ drafts[j] \in Draft
      BY <1>1
    <3>2. S[j-1] \in [Files -> Page \cup {NoPage}]
      BY <1>3, <3>1
    <3>3. Exists(S[j-1], drafts[j].id)
      BY <2>1 DEF Met, S
    <3>4. PageOf(S[j-1], drafts[j].id) \in Page
      BY <3>2, <3>3, FileOfHolds DEF PageOf, Holds
    <3> QED BY <3>1, <3>4 DEF Draft, Page, Change
  <2> QED BY <2>1 DEF LockedChanges, S
<1>6. Shaped'
  BY <1>2, <1>4, PagesBounds DEF IInv, Shaped
<1>7. Lint(file)'
  BY <1>2 DEF Lint
<1>8. Named'
  <2>1. ASSUME NEW f \in Files, file'[f] # NoPage, NEW k \in file'[f].conflicts
        PROVE  conflict[k] # NoConflict
    <3>1. file'[f] = file[f]
      BY <1>4, <2>1 DEF NewPage
    <3> QED BY <2>1, <3>1 DEF IInv, Named
  <2> QED BY <1>2, <2>1 DEF Named
<1>9. Calling'
  BY <1>2, <1>5 DEF Calling, Proposing
<1>10. DisputedIsNamed'
  <2>1. ASSUME NEW f \in Files, file'[f] # NoPage, file'[f].status = "conflicted"
        PROVE  file'[f] = file[f]
    BY <1>4, <2>1 DEF NewPage
  <2> QED BY <1>2, <2>1 DEF IInv, DisputedIsNamed, Unresolved
<1>11. AcceptedOnRecord'
  BY <1>2 DEF IInv, AcceptedOnRecord
<1> QED BY <1>6, <1>7, <1>8, <1>9, <1>10, <1>11 DEF IInv

LEMMA ProposeKeeps ==
  ASSUME IInv, Propose
  PROVE  IInv'
<1>1. Arg.changes \in SUBSET Change /\ call' = Idle
  BY AtPropose DEF IInv, Propose
<1>2. /\ proposal' = [c \in Change |->
                      IF c \in Arg.changes /\ c.base # c.candidate /\ proposal[c] = "none"
                      THEN "pending" ELSE proposal[c]]
      /\ UNCHANGED <<file, conflict, revisions, failures, compiled>>
  BY DEF Propose
<1>3. Shaped'
  BY <1>2 DEF IInv, Shaped, ProposalStatus
<1>4. AcceptedOnRecord'
  BY <1>2 DEF IInv, AcceptedOnRecord
<1> QED
  BY <1>1, <1>2, <1>3, <1>4 DEF IInv, Lint, Named, Calling, DisputedIsNamed, Unresolved

LEMMA SnapshotKeeps ==
  ASSUME IInv, Snapshot
  PROVE  IInv'
<1>1. Arg.page \in Pages /\ Arg.content \in Contents /\ Calling'
  BY AtSnapshot DEF IInv
<1>2. /\ revisions' = revisions \cup {<<Arg.page, Arg.content>>}
      /\ UNCHANGED <<file, proposal, conflict, failures, compiled>>
  BY DEF Snapshot
<1>3. Shaped'
  BY <1>1, <1>2 DEF IInv, Shaped
<1>4. AcceptedOnRecord'
  BY <1>2 DEF IInv, AcceptedOnRecord
<1> QED BY <1>1, <1>2, <1>3, <1>4 DEF IInv, Lint, Named, DisputedIsNamed, Unresolved

\* A page's text or status, but not to conflicted, and not the id, is set.
LEMMA SettingKeeps ==
  ASSUME IInv, NEW p \in Pages, NEW page \in Page, Exists(file, p), page.id = p,
         page.status # "conflicted", page.conflicts \subseteq PageOf(file, p).conflicts,
         file' = [file EXCEPT ![FileOf(file, p)] = page],
         UNCHANGED <<proposal, conflict, revisions, failures, compiled>>
  PROVE  Shaped' /\ Lint(file)' /\ Named' /\ DisputedIsNamed' /\ AcceptedOnRecord'
<1> DEFINE g == FileOf(file, p)
<1>1. g \in Files /\ file[g] # NoPage /\ file[g].id = p
  BY FileOfHolds DEF Holds
<1>2. file' \in [Files -> Page \cup {NoPage}] /\ file'[g] = page
      /\ \A f \in Files : f # g => file'[f] = file[f]
  BY <1>1 DEF IInv, Shaped
<1>3. page.conflicts \subseteq file[g].conflicts
  BY DEF PageOf
<1> HIDE DEF g
<1>4. Shaped'
  BY <1>2 DEF IInv, Shaped
<1>5. Lint(file)'
  BY <1>1, <1>2 DEF IInv, Lint
<1>6. Named'
  BY <1>1, <1>2, <1>3 DEF IInv, Named
<1>7. DisputedIsNamed'
  BY <1>1, <1>2 DEF IInv, DisputedIsNamed, Unresolved
<1>8. AcceptedOnRecord'
  BY DEF IInv, AcceptedOnRecord
<1> QED BY <1>4, <1>5, <1>6, <1>7, <1>8

\* What SetPage makes of a page.
LEMMA SetPageIs ==
  ASSUME IInv, NEW p \in Pages, Exists(file, p), NEW text \in Contents,
         NEW status \in PageStatus
  PROVE  \E page \in Page :
           /\ SetPage(file, p, text, status) = [file EXCEPT ![FileOf(file, p)] = page]
           /\ page.id = p /\ page.status = status /\ page.content = text
           /\ page.conflicts = PageOf(file, p).conflicts
<1> DEFINE g == FileOf(file, p)
           page == [file[g] EXCEPT !.content = text, !.status = status]
<1>1. g \in Files /\ file[g] # NoPage /\ file[g].id = p
  BY FileOfHolds DEF Holds
<1>2. file[g] \in Page
  BY <1>1 DEF IInv, Shaped
<1>3. SetPage(file, p, text, status) = [file EXCEPT ![g] = page]
  BY DEF SetPage
<1>4. page \in Page /\ page.id = p /\ page.status = status /\ page.content = text
      /\ page.conflicts = file[g].conflicts
  BY <1>1, <1>2 DEF Page
<1> HIDE DEF page
<1> QED BY <1>3, <1>4 DEF PageOf

LEMMA ApproveKeeps ==
  ASSUME IInv, NEW p \in Pages, Approve(p)
  PROVE  IInv'
<1> DEFINE text == PageOf(file, p).content
<1>1. Exists(file, p) /\ file' = SetPage(file, p, text, "reviewed")
      /\ call' = [kind |-> "review", todo |-> <<Saves(p, text)>>]
      /\ UNCHANGED <<proposal, conflict, revisions, failures, compiled>>
  BY DEF Approve, Goes, Saves
<1>2. text \in Contents
  BY <1>1, FileOfHolds DEF IInv, Shaped, PageOf, Holds, Page
<1> HIDE DEF text
<1>3. PICK page \in Page :
           /\ SetPage(file, p, text, "reviewed") = [file EXCEPT ![FileOf(file, p)] = page]
           /\ page.id = p /\ page.status = "reviewed" /\ page.content = text
           /\ page.conflicts = PageOf(file, p).conflicts
  BY <1>1, <1>2, SetPageIs DEF PageStatus
<1>4. Shaped' /\ Lint(file)' /\ Named' /\ DisputedIsNamed' /\ AcceptedOnRecord'
  <2>1. page.status # "conflicted" /\ page.conflicts \subseteq PageOf(file, p).conflicts
    BY <1>3
  <2>2. file' = [file EXCEPT ![FileOf(file, p)] = page]
    BY <1>1, <1>3
  <2> QED BY <1>1, <1>3, <2>1, <2>2, SettingKeeps
<1>5. Calling'
  BY <1>1, <1>2 DEF Calling, Reviewing
<1> QED BY <1>4, <1>5 DEF IInv

LEMMA ReopenKeeps ==
  ASSUME IInv, NEW p \in Pages, Reopen(p)
  PROVE  IInv'
<1> DEFINE text == PageOf(file, p).content
<1>1. Exists(file, p) /\ file' = SetPage(file, p, text, "draft") /\ call = Idle /\ call' = call
      /\ UNCHANGED <<proposal, conflict, revisions, failures, compiled>>
  BY DEF Reopen
<1>2. text \in Contents
  BY <1>1, FileOfHolds DEF IInv, Shaped, PageOf, Holds, Page
<1> HIDE DEF text
<1>3. PICK page \in Page :
           /\ SetPage(file, p, text, "draft") = [file EXCEPT ![FileOf(file, p)] = page]
           /\ page.id = p /\ page.status = "draft" /\ page.content = text
           /\ page.conflicts = PageOf(file, p).conflicts
  BY <1>1, <1>2, SetPageIs DEF PageStatus
<1>4. Shaped' /\ Lint(file)' /\ Named' /\ DisputedIsNamed' /\ AcceptedOnRecord'
  <2>1. page.status # "conflicted" /\ page.conflicts \subseteq PageOf(file, p).conflicts
    BY <1>3
  <2>2. file' = [file EXCEPT ![FileOf(file, p)] = page]
    BY <1>1, <1>3
  <2> QED BY <1>1, <1>3, <2>1, <2>2, SettingKeeps
<1>5. Calling'
  BY <1>1 DEF Calling
<1> QED BY <1>4, <1>5 DEF IInv

LEMMA AcceptKeeps ==
  ASSUME IInv, NEW c \in Change, Accept(c)
  PROVE  IInv'
<1> DEFINE page == [id |-> c.page, content |-> c.candidate, status |-> "reviewed", conflicts |-> {}]
<1>1. Exists(file, c.page) /\ file' = [file EXCEPT ![FileOf(file, c.page)] = page]
      /\ call' = [kind |-> "proposal",
                  todo |-> <<Saves(c.page, c.base), Saves(c.page, c.candidate), ToResolve(c, "accepted")>>]
      /\ UNCHANGED <<proposal, conflict, revisions, failures, compiled>>
  BY DEF Accept, Goes, Saves
<1>2. c.page \in Pages /\ c.candidate \in Contents
  BY DEF Change
<1>3. page \in Page /\ page.id = c.page /\ page.status # "conflicted" /\ page.conflicts = {}
  BY <1>2 DEF Page, PageStatus
<1> HIDE DEF page
<1>4. Shaped' /\ Lint(file)' /\ Named' /\ DisputedIsNamed' /\ AcceptedOnRecord'
  <2>1. page.conflicts \subseteq PageOf(file, c.page).conflicts
    BY <1>3
  <2> QED BY <1>1, <1>2, <1>3, <2>1, SettingKeeps
<1>5. Calling'
  BY <1>1 DEF Calling, Accepting
<1> QED BY <1>4, <1>5 DEF IInv

LEMMA DecideKeeps ==
  ASSUME IInv, NEW c \in Change, Reject(c) \/ MarkStale(c)
  PROVE  IInv'
<1>1. PICK status \in {"rejected", "stale"} : proposal' = [proposal EXCEPT ![c] = status]
  BY DEF Reject, MarkStale
<1>2. UNCHANGED <<file, conflict, revisions, call, failures, compiled>> /\ call = Idle
  BY DEF Reject, MarkStale
<1>3. Shaped'
  BY <1>1, <1>2 DEF IInv, Shaped, ProposalStatus
<1>4. AcceptedOnRecord'
  BY <1>1, <1>2 DEF IInv, AcceptedOnRecord, Shaped
<1> QED BY <1>2, <1>3, <1>4 DEF IInv, Lint, Named, Calling, DisputedIsNamed, Unresolved

LEMMA ResolveKeeps ==
  ASSUME IInv, ResolveProposal
  PROVE  IInv'
<1>1. /\ Arg.change \in Change /\ Arg.status = "accepted" /\ call' = Idle
      /\ {Before(Arg.change), After(Arg.change)} \subseteq revisions
  BY AtResolve DEF IInv, ResolveProposal
<1>2. /\ proposal' = [proposal EXCEPT ![Arg.change] = "accepted"]
      /\ UNCHANGED <<file, conflict, revisions, failures, compiled>>
  BY <1>1 DEF ResolveProposal
<1>3. Shaped'
  BY <1>1, <1>2 DEF IInv, Shaped, ProposalStatus
<1>4. AcceptedOnRecord'
  BY <1>1, <1>2 DEF IInv, AcceptedOnRecord, Shaped, Before, After
<1> QED BY <1>1, <1>2, <1>3, <1>4 DEF IInv, Lint, Named, Calling, DisputedIsNamed, Unresolved

LEMMA DeclareKeeps ==
  ASSUME IInv, NEW k \in ConflictIds, NEW p \in Pages, NEW q \in Pages, Declare(k, p, q)
  PROVE  IInv'
<1>1. /\ conflict[k] = NoConflict
      /\ conflict' = [conflict EXCEPT ![k] = [left |-> p, right |-> q, status |-> "open"]]
      /\ call' = [kind |-> "conflict", todo |-> <<[step |-> "dispute", conflict |-> k]>>]
      /\ UNCHANGED <<file, proposal, revisions, failures, compiled>>
  BY DEF Declare, Goes
<1>2. conflict' \in [ConflictIds -> Conflict \cup {NoConflict, Withdrawn}] /\ Unresolved(k)'
      /\ \A j \in ConflictIds : j # k => conflict'[j] = conflict[j]
  BY <1>1 DEF IInv, Shaped, Conflict, ConflictStatus, Unresolved
<1>3. \A f \in Files : file[f] # NoPage => k \notin file[f].conflicts
  BY <1>1 DEF IInv, Named
<1>4. Shaped'
  BY <1>1, <1>2 DEF IInv, Shaped
<1>5. \A f \in Files : file[f] # NoPage => file[f].conflicts \subseteq ConflictIds
  BY DEF IInv, Shaped, Page
<1>6. Named'
  BY <1>1, <1>2, <1>3, <1>5 DEF IInv, Named
<1>7. Calling'
  BY <1>1, <1>2, <1>3 DEF Calling, Disputing
<1>8. DisputedIsNamed'
  BY <1>1, <1>2, <1>3, <1>5 DEF IInv, DisputedIsNamed, Unresolved
<1> QED BY <1>1, <1>4, <1>6, <1>7, <1>8 DEF IInv, Lint, AcceptedOnRecord

LEMMA PutInDispute ==
  ASSUME NEW P \in Page, NEW k \in ConflictIds, NEW Q,
         Q = [P EXCEPT !.status = "conflicted", !.conflicts = @ \cup {k}]
  PROVE  Q \in Page /\ Q.id = P.id /\ Q.conflicts = P.conflicts \cup {k}
<1>1. /\ P.id \in Pages /\ P.content \in Contents /\ P.conflicts \in SUBSET ConflictIds
      /\ P = [id |-> P.id, content |-> P.content, status |-> P.status, conflicts |-> P.conflicts]
  BY DEF Page
<1>2. Q = [id |-> P.id, content |-> P.content, status |-> "conflicted",
           conflicts |-> P.conflicts \cup {k}]
  BY <1>1
<1>3. /\ Q.id = P.id /\ Q.content = P.content /\ Q.status = "conflicted"
      /\ Q.conflicts = P.conflicts \cup {k}
  BY <1>2
<1>4. Q \in Page
  BY <1>1, <1>2 DEF Page, PageStatus
<1> QED BY <1>3, <1>4

\* The pages as publishConflictPages leaves them: none is new, none loses a conflict.
LEMMA InConflictKeeps ==
  ASSUME IInv, NEW k \in ConflictIds, file' = InConflict(k)
  PROVE  /\ file' \in [Files -> Page \cup {NoPage}]
         /\ Lint(file)'
         /\ \A f \in Files :
               \/ file'[f] = file[f]
               \/ /\ file[f] # NoPage /\ file'[f].id = file[f].id
                  /\ file'[f].conflicts = file[f].conflicts \cup {k}
                  /\ file[f].id \in {conflict[k].left, conflict[k].right}
<1>1. \A f \in Files : file[f] # NoPage => file[f] \in Page
  BY DEF IInv, Shaped
<1>2. ASSUME NEW f \in Files
      PROVE  \/ file'[f] = file[f]
             \/ /\ file[f] # NoPage /\ file'[f] \in Page /\ file'[f].id = file[f].id
                /\ file'[f].conflicts = file[f].conflicts \cup {k}
                /\ file[f].id \in {conflict[k].left, conflict[k].right}
  <2>1. CASE Holds(file, conflict[k].left, f) \/ Holds(file, conflict[k].right, f)
    <3>1. file[f] \in Page /\ file[f] # NoPage
          /\ file[f].id \in {conflict[k].left, conflict[k].right}
      BY <1>1, <2>1 DEF Holds
    <3>2. file'[f] = [file[f] EXCEPT !.status = "conflicted", !.conflicts = @ \cup {k}]
      BY <2>1 DEF InConflict
    <3>3. file'[f] \in Page /\ file'[f].id = file[f].id
          /\ file'[f].conflicts = file[f].conflicts \cup {k}
      BY <3>1, <3>2, PutInDispute
    <3> QED BY <3>1, <3>3
  <2>2. CASE ~ (Holds(file, conflict[k].left, f) \/ Holds(file, conflict[k].right, f))
    BY <2>2 DEF InConflict
  <2> QED BY <2>1, <2>2
<1>3. file' = [f \in Files |-> file'[f]]
  BY DEF InConflict
<1>4. \A f \in Files : file'[f] \in Page \cup {NoPage}
  BY <1>2 DEF IInv, Shaped
<1>5. \A f \in Files : file'[f] # NoPage => file[f] # NoPage /\ file'[f].id = file[f].id
  BY <1>2
<1>6. Lint(file)'
  BY <1>5 DEF IInv, Lint
<1> QED BY <1>2, <1>3, <1>4, <1>6

LEMMA DisputeKeeps ==
  ASSUME IInv, Dispute
  PROVE  IInv'
<1> DEFINE k == Arg.conflict
<1>1. /\ k \in ConflictIds /\ Unresolved(k) /\ call' = Idle
      /\ \A f \in Files : file[f] # NoPage => k \notin file[f].conflicts
  BY AtDispute DEF IInv, Dispute
<1>2. UNCHANGED <<proposal, revisions, compiled>>
  BY DEF Dispute
<1>3. Calling'
  BY <1>1 DEF Calling
<1>4. \A f \in Files : file[f] # NoPage => file[f] \in Page /\ file[f].conflicts \subseteq ConflictIds
  BY DEF IInv, Shaped, Page
<1>5. \/ file' = InConflict(k) /\ UNCHANGED <<conflict, failures>>
      \/ /\ Fails("io")
         /\ \/ conflict' = [conflict EXCEPT ![k] = NoConflict] /\ UNCHANGED file
            \/ conflict' = [conflict EXCEPT ![k] = Withdrawn] /\ file' = InConflict(k)
  BY DEF Dispute
<1> HIDE DEF k
<1>6. failures' \in 0 .. MaxFailures
  BY <1>5, PagesBounds DEF IInv, Shaped, Fails
<1>7. conflict' \in [ConflictIds -> Conflict \cup {NoConflict, Withdrawn}]
      /\ \A j \in ConflictIds : j # k => conflict'[j] = conflict[j]
  BY <1>1, <1>5 DEF IInv, Shaped
\* The pages are not published, and the conflict is gone.
<1>8. CASE conflict' = [conflict EXCEPT ![k] = NoConflict] /\ UNCHANGED file
  <2>1. Shaped'
    BY <1>2, <1>6, <1>7, <1>8 DEF IInv, Shaped
  <2>2. Named'
    BY <1>1, <1>4, <1>7, <1>8 DEF IInv, Named
  <2>3. DisputedIsNamed'
    BY <1>1, <1>4, <1>7, <1>8 DEF IInv, DisputedIsNamed, Unresolved
  <2> QED BY <1>2, <1>3, <1>8, <2>1, <2>2, <2>3 DEF IInv, Lint, AcceptedOnRecord
\* They are published.
<1>9. CASE file' = InConflict(k)
  <2>1. /\ file' \in [Files -> Page \cup {NoPage}] /\ Lint(file)'
        /\ \A f \in Files :
              \/ file'[f] = file[f]
              \/ /\ file[f] # NoPage /\ file'[f].id = file[f].id
                 /\ file'[f].conflicts = file[f].conflicts \cup {k}
                 /\ file[f].id \in {conflict[k].left, conflict[k].right}
    BY <1>1, <1>9, InConflictKeeps
  <2>2. ASSUME UNCHANGED <<conflict, failures>> PROVE IInv'
    <3>1. conflict[k] # NoConflict
      BY <1>1 DEF Unresolved, NoConflict
    <3>2. Shaped'
      BY <1>2, <1>6, <1>7, <2>1 DEF IInv, Shaped
    <3>3. Named'
      BY <2>1, <2>2, <3>1 DEF IInv, Named
    <3>4. DisputedIsNamed'
      <4>1. ASSUME NEW f \in Files, file'[f] # NoPage, file'[f].status = "conflicted"
            PROVE  \E j \in file'[f].conflicts :
                      \/ Unresolved(j) /\ file'[f].id \in {conflict[j].left, conflict[j].right}
                      \/ conflict[j] = Withdrawn
        BY <1>1, <2>1, <4>1 DEF IInv, DisputedIsNamed
      <4>2. \A j : Unresolved(j)' <=> Unresolved(j)
        BY <2>2 DEF Unresolved
      <4> QED BY <2>2, <4>1, <4>2 DEF DisputedIsNamed
    <3> QED BY <1>2, <1>3, <2>1, <3>2, <3>3, <3>4 DEF IInv, AcceptedOnRecord
  <2>3. ASSUME conflict' = [conflict EXCEPT ![k] = Withdrawn] PROVE IInv'
    <3>1. conflict'[k] = Withdrawn /\ Withdrawn # NoConflict
      BY <1>1, <2>3 DEF IInv, Shaped, Withdrawn, NoConflict
    <3>2. Shaped'
      BY <1>2, <1>6, <1>7, <2>1 DEF IInv, Shaped
    <3>3. Named'
      BY <1>4, <1>7, <2>1, <3>1 DEF IInv, Named
    <3>4. DisputedIsNamed'
      <4>1. ASSUME NEW f \in Files, file'[f] # NoPage, file'[f].status = "conflicted"
            PROVE  \E j \in file'[f].conflicts :
                      \/ Unresolved(j)' /\ file'[f].id \in {conflict'[j].left, conflict'[j].right}
                      \/ conflict'[j] = Withdrawn
        <5>1. CASE file'[f] = file[f]
          <6>1. PICK j \in file[f].conflicts :
                  \/ Unresolved(j) /\ file[f].id \in {conflict[j].left, conflict[j].right}
                  \/ conflict[j] = Withdrawn
            BY <4>1, <5>1 DEF IInv, DisputedIsNamed
          <6>2. j \in ConflictIds /\ j # k
            BY <1>1, <1>4, <4>1, <5>1, <6>1
          <6> QED BY <1>7, <5>1, <6>1, <6>2 DEF Unresolved
        <5>2. CASE file'[f].conflicts = file[f].conflicts \cup {k}
          BY <3>1, <5>2
        <5> QED BY <2>1, <5>1, <5>2
      <4> QED BY <4>1 DEF DisputedIsNamed
    <3> QED BY <1>2, <1>3, <2>1, <3>2, <3>3, <3>4 DEF IInv, AcceptedOnRecord
  <2> QED BY <1>5, <1>8, <2>2, <2>3
<1> QED BY <1>5, <1>8, <1>9

LEMMA SelectKeeps ==
  ASSUME IInv, NEW k \in ConflictIds, NEW p \in Pages, NEW q \in Pages, Select(k, p, q)
  PROVE  IInv'
<1>1. /\ Unresolved(k) /\ {conflict[k].left, conflict[k].right} = {p, q}
      /\ file' = [f \in Files |->
                    IF Holds(file, p, f) THEN [file[f] EXCEPT !.status = "reviewed"]
                    ELSE IF Holds(file, q, f) THEN [file[f] EXCEPT !.status = "deprecated"]
                    ELSE file[f]]
      /\ call' = [kind |-> "conflict", todo |-> <<ToSettle(k, "resolved")>>]
      /\ UNCHANGED <<proposal, conflict, revisions, failures, compiled>>
  BY DEF Select, InDispute, Between, Goes
<1>2. \A f \in Files : file[f] # NoPage => file[f] \in Page
  BY DEF IInv, Shaped
<1>3. ASSUME NEW f \in Files
      PROVE  \/ file'[f] = file[f] /\ ~ (file[f] # NoPage /\ file[f].id \in {p, q})
             \/ /\ file[f] # NoPage /\ file'[f] \in Page /\ file'[f].id = file[f].id
                /\ file'[f].conflicts = file[f].conflicts
                /\ file'[f].status # "conflicted"
  <2>1. CASE Holds(file, p, f)
    <3>1. file[f] \in Page /\ file[f] # NoPage
      BY <1>2, <2>1 DEF Holds
    <3>2. file'[f] = [file[f] EXCEPT !.status = "reviewed"]
      BY <1>1, <2>1
    <3> QED BY <3>1, <3>2 DEF Page, PageStatus
  <2>2. CASE ~ Holds(file, p, f) /\ Holds(file, q, f)
    <3>1. file[f] \in Page /\ file[f] # NoPage
      BY <1>2, <2>2 DEF Holds
    <3>2. file'[f] = [file[f] EXCEPT !.status = "deprecated"]
      BY <1>1, <2>2
    <3> QED BY <3>1, <3>2 DEF Page, PageStatus
  <2>3. CASE ~ Holds(file, p, f) /\ ~ Holds(file, q, f)
    BY <1>1, <2>3 DEF Holds
  <2> QED BY <2>1, <2>2, <2>3
<1>4. Shaped'
  <2>1. file' = [f \in Files |-> file'[f]]
    BY <1>1
  <2>2. \A f \in Files : file'[f] \in Page \cup {NoPage}
    BY <1>3 DEF IInv, Shaped
  <2> QED BY <1>1, <2>1, <2>2 DEF IInv, Shaped
<1>5. Lint(file)'
  <2>1. \A f \in Files : file'[f] # NoPage => file[f] # NoPage /\ file'[f].id = file[f].id
    BY <1>3
  <2> QED BY <2>1 DEF IInv, Lint
<1>6. Named'
  BY <1>1, <1>3 DEF IInv, Named
<1>7. Calling'
  <2>1. \A f \in Files :
          file'[f] # NoPage /\ file'[f].id \in {conflict[k].left, conflict[k].right}
          => file'[f].status # "conflicted"
    BY <1>1, <1>3
  <2>2. Unresolved(k)'
    BY <1>1 DEF Unresolved
  <2> QED BY <1>1, <2>1, <2>2 DEF Calling, Settling, ToSettle
<1>8. DisputedIsNamed'
  <2>1. ASSUME NEW f \in Files, file'[f] # NoPage, file'[f].status = "conflicted"
        PROVE  file'[f] = file[f]
    BY <1>3, <2>1
  <2> QED BY <1>1, <2>1 DEF IInv, DisputedIsNamed, Unresolved
<1> QED BY <1>1, <1>4, <1>5, <1>6, <1>7, <1>8 DEF IInv, AcceptedOnRecord

LEMMA KeepParallelKeeps ==
  ASSUME IInv, NEW k \in ConflictIds, KeepParallel(k)
  PROVE  IInv'
<1>1. /\ call = Idle /\ Unresolved(k)
      /\ conflict' = [conflict EXCEPT ![k].status = "parallel"]
      /\ UNCHANGED <<file, proposal, revisions, call, failures, compiled>>
  BY DEF KeepParallel, InDispute
<1>2. conflict[k] \in Conflict
  BY <1>1 DEF IInv, Shaped, Unresolved, NoConflict, Withdrawn
<1>3. /\ conflict' \in [ConflictIds -> Conflict \cup {NoConflict, Withdrawn}]
      /\ conflict'[k].status = "parallel"
      /\ conflict'[k].left = conflict[k].left /\ conflict'[k].right = conflict[k].right
      /\ \A j \in ConflictIds : j # k => conflict'[j] = conflict[j]
  BY <1>1, <1>2 DEF IInv, Shaped, Conflict, ConflictStatus
<1>4. \A f \in Files : file[f] # NoPage => file[f].conflicts \subseteq ConflictIds
  BY DEF IInv, Shaped, Page
<1>5. Shaped'
  BY <1>1, <1>3 DEF IInv, Shaped
<1>6. Named'
  BY <1>1, <1>3, <1>4 DEF IInv, Named, NoConflict
<1>7. DisputedIsNamed'
  <2>1. ASSUME NEW f \in Files, file[f] # NoPage, file[f].status = "conflicted"
        PROVE  \E j \in file[f].conflicts :
                 \/ Unresolved(j)' /\ file[f].id \in {conflict'[j].left, conflict'[j].right}
                 \/ conflict'[j] = Withdrawn
    <3>1. PICK j \in file[f].conflicts :
            \/ Unresolved(j) /\ file[f].id \in {conflict[j].left, conflict[j].right}
            \/ conflict[j] = Withdrawn
      BY <2>1 DEF IInv, DisputedIsNamed
    <3>2. j \in ConflictIds
      BY <1>4, <2>1
    <3>3. \/ Unresolved(j)' /\ file[f].id \in {conflict'[j].left, conflict'[j].right}
          \/ conflict'[j] = Withdrawn
      BY <1>1, <1>3, <3>1, <3>2 DEF Unresolved, Withdrawn
    <3> QED BY <3>3
  <2> QED BY <1>1, <2>1 DEF DisputedIsNamed
<1>8. Calling'
  BY <1>1 DEF Calling
<1> QED BY <1>1, <1>5, <1>6, <1>7, <1>8 DEF IInv, Lint, AcceptedOnRecord

LEMMA SettleKeeps ==
  ASSUME IInv, SettleConflict
  PROVE  IInv'
<1> DEFINE k == Arg.conflict
<1>1. /\ k \in ConflictIds /\ Unresolved(k) /\ call' = Idle
      /\ \A f \in Files :
           file[f] # NoPage /\ file[f].id \in {conflict[k].left, conflict[k].right}
           => file[f].status # "conflicted"
      /\ conflict' = [conflict EXCEPT ![k].status = "resolved"]
      /\ UNCHANGED <<file, proposal, revisions, failures, compiled>>
  BY AtSettle DEF IInv, SettleConflict
<1> HIDE DEF k
<1>2. conflict[k] \in Conflict
  BY <1>1 DEF IInv, Shaped, Unresolved, NoConflict, Withdrawn
<1>3. /\ conflict' \in [ConflictIds -> Conflict \cup {NoConflict, Withdrawn}]
      /\ conflict'[k].status = "resolved"
      /\ \A j \in ConflictIds : j # k => conflict'[j] = conflict[j]
  BY <1>1, <1>2 DEF IInv, Shaped, Conflict, ConflictStatus
<1>4. \A f \in Files : file[f] # NoPage => file[f].conflicts \subseteq ConflictIds
  BY DEF IInv, Shaped, Page
<1>5. Shaped'
  BY <1>1, <1>3 DEF IInv, Shaped
<1>6. Named'
  BY <1>1, <1>3, <1>4 DEF IInv, Named, NoConflict
<1>7. DisputedIsNamed'
  <2>1. ASSUME NEW f \in Files, file[f] # NoPage, file[f].status = "conflicted"
        PROVE  \E j \in file[f].conflicts :
                 \/ Unresolved(j)' /\ file[f].id \in {conflict'[j].left, conflict'[j].right}
                 \/ conflict'[j] = Withdrawn
    <3>1. PICK j \in file[f].conflicts :
            \/ Unresolved(j) /\ file[f].id \in {conflict[j].left, conflict[j].right}
            \/ conflict[j] = Withdrawn
      BY <2>1 DEF IInv, DisputedIsNamed
    <3>2. j \in ConflictIds /\ j # k
      BY <1>1, <1>4, <2>1, <3>1 DEF Unresolved, Withdrawn
    <3>3. \/ Unresolved(j)' /\ file[f].id \in {conflict'[j].left, conflict'[j].right}
          \/ conflict'[j] = Withdrawn
      BY <1>3, <3>1, <3>2 DEF Unresolved
    <3> QED BY <3>3
  <2> QED BY <1>1, <2>1 DEF DisputedIsNamed
<1>8. Calling'
  BY <1>1 DEF Calling
<1> QED BY <1>1, <1>5, <1>6, <1>7, <1>8 DEF IInv, Lint, AcceptedOnRecord

LEMMA CrashKeeps ==
  ASSUME IInv, Interrupt
  PROVE  IInv'
<1>1. call' = Idle /\ failures < MaxFailures /\ failures' = failures + 1
      /\ UNCHANGED <<file, proposal, conflict, revisions, compiled>>
  BY DEF Interrupt, Fails
<1>2. failures' \in 0 .. MaxFailures
  BY <1>1, PagesBounds DEF IInv, Shaped
<1> QED
  BY <1>1, <1>2 DEF IInv, Shaped, Lint, Named, Calling, DisputedIsNamed, Unresolved, AcceptedOnRecord

LEMMA Step ==
  ASSUME IInv, [PagesNext]_pagesVars
  PROVE  IInv'
<1>1. CASE UNCHANGED pagesVars
  BY <1>1
     DEF pagesVars, IInv, Shaped, Lint, Named, Calling, Proposing, Reviewing, Accepting, Disputing,
         Settling, DisputedIsNamed, Unresolved, AcceptedOnRecord
<1>2. CASE PagesNext
  BY <1>2, CompileKeeps, ApproveKeeps, ReopenKeeps, AcceptKeeps, DecideKeeps, KeepParallelKeeps,
     DeclareKeeps, SelectKeeps, ProposeKeeps, SnapshotKeeps, ResolveKeeps, DisputeKeeps,
     SettleKeeps, CrashKeeps
     DEF PagesNext
<1> QED BY <1>1, <1>2

LEMMA Inductive == PagesSpec => []IInv
<1>1. PagesInit => IInv
  BY InitIInv
<1>2. IInv /\ [PagesNext]_pagesVars => IInv'
  BY Step
<1> QED BY <1>1, <1>2, PTL DEF PagesSpec

(***************************************************************************)
(* For any pages and compilations no page is ever published twice: a       *)
(* compilation that would leave an earlier copy behind fails as a whole.   *)
(***************************************************************************)
THEOREM PagesTyped == PagesSpec => []PagesTypeOK
<1>1. IInv => PagesTypeOK
  BY DEF IInv, Shaped, Lint, PagesTypeOK
<1> QED BY <1>1, Inductive, PTL

(***************************************************************************)
(* A page in dispute is named by a conflict that can be decided, wherever  *)
(* a declaration or a decision is interrupted, or by one that its failing  *)
(* declaration took back after the pages were out.                         *)
(***************************************************************************)
THEOREM DisputesNamed == PagesSpec => []DisputedIsNamed
<1>1. IInv => DisputedIsNamed
  BY DEF IInv
<1> QED BY <1>1, Inductive, PTL

(***************************************************************************)
(* An accepted proposal has both texts among the revisions, wherever the   *)
(* acceptance is interrupted.                                              *)
(***************************************************************************)
THEOREM AcceptancesRecorded == PagesSpec => []AcceptedOnRecord
<1>1. IInv => AcceptedOnRecord
  BY DEF IInv
<1> QED BY <1>1, Inductive, PTL

-------------------------------------------------------------------------------
\* What a page says and in which status, by the page and not by its file.
LEMMA PageIs ==
  ASSUME NEW wiki, \A f, g \in Files : wiki[f] # NoPage /\ wiki[g] # NoPage /\ wiki[f].id = wiki[g].id => f = g,
         NEW p, NEW f \in Files, Holds(wiki, p, f)
  PROVE  Exists(wiki, p) /\ FileOf(wiki, p) = f /\ PageOf(wiki, p) = wiki[f]
<1>1. Exists(wiki, p)
  BY DEF Exists
<1>2. FileOf(wiki, p) \in Files /\ Holds(wiki, p, FileOf(wiki, p))
  BY <1>1, FileOfHolds
<1>3. FileOf(wiki, p) = f
  BY <1>2 DEF Holds
<1> QED BY <1>1, <1>3 DEF PageOf

Keeps(p) == TextStays(p) \/ TextProposed(p) \/ Overwritten(p)

\* A step that leaves a page in its file with its text keeps the lock.
LEMMA StaysInFile ==
  ASSUME IInv, IInv', NEW p \in Pages, NEW f \in Files, Holds(file, p, f),
         Holds(file', p, f), file'[f].content = file[f].content
  PROVE  Keeps(p)
<1>1. PageOf(file, p) = file[f]
  BY PageIs DEF IInv, Lint
<1>2. Exists(file', p) /\ PageOf(file', p) = file'[f]
  BY PageIs DEF IInv, Lint
<1> QED BY <1>1, <1>2 DEF Keeps, TextStays

\* A compilation leaves a locked page's text alone or writes another page over it.
LEMMA CompileKeepsLocked ==
  ASSUME IInv, IInv', NEW drafts \in Compilations, Compile(drafts), NEW p \in Pages, IsLocked(p)
  PROVE  Keeps(p)
<1> DEFINE f == FileOf(file, p)
<1>1. f \in Files /\ Holds(file, p, f) /\ Locked(file[f])
  BY FileOfHolds DEF IsLocked, PageOf
<1>2. Len(drafts) \in 0 .. Len(drafts) /\ file' = Staged(drafts)[Len(drafts)] /\ call'.kind = "compile"
  BY CompilationsAssumption DEF Compile, Goes
<1>3. \/ file'[f] = file[f]
      \/ /\ file'[f] = NewPage(drafts[f])
         /\ ~ (file[f] # NoPage /\ file[f].id = drafts[f].id /\ Locked(file[f]))
  BY <1>1, <1>2, StagedKeeps DEF IInv
<1>4. CASE file'[f] = file[f]
  <2>1. Holds(file', p, f)
    BY <1>1, <1>4 DEF Holds
  <2> HIDE DEF f
  <2> QED BY <1>1, <1>4, <2>1, StaysInFile
<1>5. CASE file'[f] # file[f]
  <2>1. file'[f].id # p
    BY <1>1, <1>3, <1>5 DEF NewPage, Holds
  <2> QED BY <1>2, <2>1 DEF Keeps, Overwritten
<1> QED BY <1>4, <1>5

\* Reviews leave the text of every page alone.
LEMMA ReviewKeepsLocked ==
  ASSUME IInv, IInv', NEW q \in Pages, Approve(q) \/ Reopen(q), NEW p \in Pages, IsLocked(p)
  PROVE  Keeps(p)
<1>1. PICK status \in PageStatus :
        Exists(file, q) /\ file' = SetPage(file, q, PageOf(file, q).content, status)
  BY DEF Approve, Reopen, PageStatus
<1>2. PageOf(file, q).content \in Contents
  BY <1>1, FileOfHolds DEF IInv, Shaped, PageOf, Holds, Page
<1>3. PICK page \in Page :
         /\ file' = [file EXCEPT ![FileOf(file, q)] = page]
         /\ page.id = q /\ page.content = PageOf(file, q).content
  BY <1>1, <1>2, SetPageIs
<1>4. PICK f \in Files : Holds(file, p, f)
  BY DEF IsLocked, Exists
<1>5. FileOf(file, q) \in Files /\ Holds(file, q, FileOf(file, q))
  BY <1>1, FileOfHolds
<1>6. page # NoPage
  BY DEF Page, PageStatus, NoPage
<1>7. Holds(file', p, f) /\ file'[f].content = file[f].content
  BY <1>3, <1>4, <1>5, <1>6 DEF Holds, PageOf, IInv, Shaped
<1> QED BY <1>4, <1>7, StaysInFile

\* So do the conflicts.
LEMMA ConflictKeepsLocked ==
  ASSUME IInv, IInv', NEW k, NEW q, NEW r, Select(k, q, r) \/ Dispute, NEW p \in Pages, IsLocked(p)
  PROVE  Keeps(p)
<1>1. PICK f \in Files : Holds(file, p, f)
  BY DEF IsLocked, Exists
<1>2. file[f] \in Page
  BY <1>1 DEF IInv, Shaped, Holds
<1>3. \/ file'[f] = file[f]
      \/ \E status : file'[f] = [file[f] EXCEPT !.status = status]
      \/ \E j : file'[f] = [file[f] EXCEPT !.status = "conflicted", !.conflicts = @ \cup {j}]
  <2>1. CASE Select(k, q, r)
    BY <2>1 DEF Select
  <2>2. CASE Dispute
    BY <2>2 DEF Dispute, InConflict
  <2> QED BY <2>1, <2>2
<1>4. file'[f].id = p /\ file'[f].content = file[f].content
  BY <1>1, <1>2, <1>3 DEF Page, Holds
<1>5. file'[f] # NoPage
  <2>1. file'[f] \in Page \cup {NoPage}
    BY DEF IInv, Shaped
  <2>2. DOMAIN file'[f] = DOMAIN file[f]
    BY <1>3
  <2>3. "id" \in DOMAIN file[f] /\ "id" \notin DOMAIN NoPage
    BY <1>2 DEF Page, NoPage
  <2> QED BY <2>2, <2>3
<1>6. Holds(file', p, f)
  BY <1>4, <1>5 DEF Holds
<1> QED BY <1>1, <1>4, <1>6, StaysInFile

\* An acceptance replaces just the text the proposal was made for.
LEMMA AcceptKeepsLocked ==
  ASSUME IInv, IInv', NEW c \in Change, Accept(c), NEW p \in Pages, IsLocked(p)
  PROVE  Keeps(p)
<1> DEFINE g == FileOf(file, c.page)
           page == [id |-> c.page, content |-> c.candidate, status |-> "reviewed", conflicts |-> {}]
<1>1. /\ proposal[c] = "pending" /\ Exists(file, c.page) /\ file[g].content = c.base
      /\ file' = [file EXCEPT ![g] = page]
  BY DEF Accept, PageOf
<1>2. g \in Files /\ Holds(file, c.page, g)
  BY <1>1, FileOfHolds
<1>3. PICK f \in Files : Holds(file, p, f)
  BY DEF IsLocked, Exists
<1>4. page \in Page /\ page # NoPage /\ page.id = c.page /\ page.content = c.candidate
  <2>1. page \in Page
    BY DEF Page, PageStatus, Change
  <2>2. page.status # NoPage.status
    BY DEF NoPage
  <2> QED BY <2>1, <2>2
<1> HIDE DEF g, page
<1>5. CASE f = g
  <2>1. p = c.page
    BY <1>2, <1>3, <1>5 DEF Holds
  <2>2. file'[f] = page
    BY <1>1, <1>2, <1>5 DEF IInv, Shaped
  <2>3. Holds(file', p, f)
    BY <1>4, <2>1, <2>2 DEF Holds
  <2>4. PageOf(file, p) = file[f]
    BY <1>3, PageIs DEF IInv, Lint
  <2>5. Exists(file', p) /\ PageOf(file', p) = file'[f]
    BY <2>3, PageIs DEF IInv, Lint
  <2>6. c = [page |-> p, base |-> PageOf(file, p).content, candidate |-> PageOf(file', p).content]
    BY <1>1, <1>4, <1>5, <2>1, <2>2, <2>4, <2>5 DEF Change
  <2> QED BY <1>1, <2>5, <2>6 DEF Keeps, TextProposed
<1>6. CASE f # g
  <2>1. file'[f] = file[f]
    BY <1>1, <1>6 DEF IInv, Shaped
  <2>2. Holds(file', p, f)
    BY <1>3, <2>1 DEF Holds
  <2> QED BY <1>3, <2>1, <2>2, StaysInFile
<1> QED BY <1>5, <1>6

(***************************************************************************)
(* What a page says that is reviewed or in dispute gives way only to a     *)
(* candidate that was pending for just that text, or to a compilation that *)
(* writes another page over its file, for any pages and compilations.      *)
(***************************************************************************)
THEOREM LocksHold == PagesSpec => LockedByProposal
<1>1. ASSUME IInv, [PagesNext]_pagesVars, NEW p \in Pages, IsLocked(p)
      PROVE  Keeps(p)
  <2>1. IInv'
    BY <1>1, Step
  <2>2. CASE \E drafts \in Compilations : Compile(drafts)
    BY <1>1, <2>1, <2>2, CompileKeepsLocked
  <2>3. CASE \E q \in Pages : Approve(q) \/ Reopen(q)
    BY <1>1, <2>1, <2>3, ReviewKeepsLocked
  <2>4. CASE \E k \in ConflictIds, q, r \in Pages : Select(k, q, r)
    BY <1>1, <2>1, <2>4, ConflictKeepsLocked
  <2>5. CASE Dispute
    BY <1>1, <2>1, <2>5, ConflictKeepsLocked
  <2>6. CASE \E c \in Change : Accept(c)
    BY <1>1, <2>1, <2>6, AcceptKeepsLocked
  <2>7. CASE \/ \E c \in Change : Reject(c) \/ MarkStale(c)
             \/ \E k \in ConflictIds : KeepParallel(k) \/ \E q, r \in Pages : Declare(k, q, r)
             \/ Propose \/ Snapshot \/ ResolveProposal \/ SettleConflict \/ Interrupt
             \/ UNCHANGED pagesVars
    <3>1. file' = file
      BY <2>7 DEF Reject, MarkStale, KeepParallel, Declare, Propose, Snapshot, ResolveProposal,
                  SettleConflict, Interrupt, pagesVars
    <3>2. PICK f \in Files : Holds(file, p, f)
      BY <1>1 DEF IsLocked, Exists
    <3>3. Holds(file', p, f) /\ file'[f].content = file[f].content
      BY <3>1, <3>2
    <3> QED BY <1>1, <2>1, <3>2, <3>3, StaysInFile
  <2> QED BY <1>1, <2>2, <2>3, <2>4, <2>5, <2>6, <2>7 DEF PagesNext
<1>2. IInv /\ [PagesNext]_pagesVars => [\A p \in Pages : IsLocked(p) => Keeps(p)]_pagesVars
  BY <1>1
<1>3. [\A p \in Pages : IsLocked(p) => Keeps(p)]_pagesVars
      => [\A p \in Pages : IsLocked(p) => TextStays(p) \/ TextProposed(p) \/ Overwritten(p)]_pagesVars
  BY DEF Keeps
<1> QED BY <1>2, <1>3, Inductive, PTL DEF PagesSpec, LockedByProposal
===============================================================================
