------------------------- MODULE WikiPublication_proofs ------------------------
(***************************************************************************)
(* Proofs about WikiPublication for any number of calls, crashes, failing  *)
(* renames and leases that run out.                                        *)
(***************************************************************************)
EXTENDS WikiPublication, WellFoundedInduction, TLAPS

Places == Finished \cup {"idle", "acquire", "init", "scan", "stat", "restore", "clean", "copy",
                         "away", "in", "discard", "append", "end", "fail"}

\* Where wiki/ has not been swapped yet, and where it may have been moved away.
Before == {"idle", "acquire", "init", "scan", "stat", "restore", "clean", "copy", "away", "in"}
After  == Finished \cup {"in", "discard", "append", "end", "fail"}

CallState == [kind : {"compile", "edit", "startup"}, pc : Places, held : BOOLEAN,
              scan : [first : Ops \cup {None}, old : SUBSET Ops], lost : BOOLEAN, slept : BOOLEAN]

Shaped ==
    /\ lease \in [owner : Ops, live : BOOLEAN] \cup {NoLease}
    /\ wiki \in Dir \cup {None}
    /\ staging \in [Ops -> Dir \cup {None}]
    /\ backup \in [Ops -> Dir \cup {None}]
    /\ clock \in Nat
    /\ op \in [Ops -> CallState]
    /\ harm \subseteq {"unleased", "stall", "part"}

\* Who runs under the lease and has not slept still owns it.
Leased(p) ==
    /\ Owns(p) => op[p].held
    /\ Owns(p) /\ ~lease.live /\ Running(p) => op[p].slept
    /\ Running(p) /\ op[p].held /\ ~op[p].slept => Owns(p)

Placed(p) ==
    /\ op[p].pc \in {"idle", "acquire", "init"} => ~op[p].held
    /\ op[p].pc \in {"copy", "away", "in", "discard", "append"} => op[p].held
    /\ op[p].pc \in {"scan", "stat", "restore", "clean"} /\ op[p].held => op[p].kind # "edit"
    /\ op[p].scan.first = None => op[p].scan.old = {}
    /\ op[p].pc = "restore" => op[p].scan.first # None

\* Only a call that moved wiki/ away has a backup, or is found among the old ones.
Traced(r) ==
    /\ backup[r] # None => op[r].pc \in After
    /\ \A q \in Ops : r \in op[q].scan.old => op[r].pc \in After
    /\ op[r].pc \in {"away", "in"} => staging[r] # None

\* Only what a call has moved in is part of what others find or copied.
Unseen(r) ==
    op[r].pc \in Before =>
        /\ wiki # None => r \notin wiki.has
        /\ \A q \in Ops : backup[q] # None => r \notin backup[q].has
        /\ \A q \in Ops \ {r} : staging[q] # None => r \notin staging[q].has

Dated ==
    /\ wiki # None => wiki.at <= clock
    /\ \A q \in Ops : backup[q] # None => backup[q].at <= clock
    /\ \A q \in Ops : staging[q] # None => staging[q].at <= clock

\* The backup of the call that moved wiki/ away last: nobody is about to remove it,
\* and it is the newest.
LastAway(m) ==
    /\ backup[m] # None
    /\ op[m].pc \in {"in", "dead"}
    /\ \A q \in Ops : op[q].pc = "clean" => m \notin op[q].scan.old
    /\ harm = {} => \A r \in Ops \ {m} : backup[r] # None => backup[r].at < backup[m].at

Reachable == wiki = None => \E m \in Ops : LastAway(m)

\* wiki/ is newer than every backup that no removal has begun on.
Ordered ==
    harm = {} /\ wiki # None =>
        \A r \in Ops : backup[r] # None /\ backup[r].whole => backup[r].at < wiki.at

\* What the owner of the lease has read still holds when it writes.
Writes(p) ==
    harm = {} /\ Owns(p) =>
        /\ op[p].pc = "away" =>
              wiki # None /\ staging[p].has = wiki.has \cup {p} /\ wiki.at < staging[p].at
        /\ op[p].pc = "in" /\ wiki = None =>
              LastAway(p) /\ staging[p].has = backup[p].has \cup {p} /\ backup[p].at < staging[p].at
        /\ op[p].pc = "discard" => wiki # None
        /\ op[p].pc \in {"stat", "restore"} /\ wiki = None => \A r \in Ops : backup[r] # None =>
              /\ op[p].scan.first # None
              /\ backup[op[p].scan.first] # None => backup[r].at <= backup[op[p].scan.first].at

Kept(p) ==
    harm = {} /\ op[p].kind # "startup" /\ op[p].pc \in {"discard", "append", "end", "ok"}
        => p \in Published

IInv ==
    /\ Shaped /\ Dated /\ Reachable /\ Ordered
    /\ \A p \in Ops : Leased(p) /\ Placed(p) /\ Traced(p) /\ Unseen(p) /\ Writes(p) /\ Kept(p)

-----------------------------------------------------------------------------
LEMMA InitIInv == Init => IInv
<1> SUFFICES ASSUME Init PROVE IInv
  OBVIOUS
<1> USE NoneAssumption
<1>1. Shaped
  BY DEF Init, Shaped, NoLease, NoDirs, NoScan, Dir, CallState, Places
<1>2. Dated /\ Reachable /\ Ordered
  <2>1. wiki # None /\ wiki.at = 0 /\ clock = 0 /\ backup = NoDirs /\ staging = NoDirs
    <3>1. [has |-> {}, at |-> 0, whole |-> TRUE] \in Dir
      BY DEF Dir
    <3> QED BY <3>1 DEF Init
  <2> QED BY <2>1 DEF Dated, Reachable, Ordered, NoDirs
<1>3. ASSUME NEW p \in Ops PROVE Leased(p) /\ Placed(p) /\ Traced(p) /\ Unseen(p) /\ Writes(p) /\ Kept(p)
  BY DEF Init, Leased, Placed, Traced, Unseen, Writes, Kept, NoDirs, NoScan, NoLease, Owns, Running, After,
         Before, Finished
<1> QED BY <1>1, <1>2, <1>3 DEF IInv

\* The newest of some backups is one of them, and none of them is newer.
LEMMA NewestIsNewest ==
    ASSUME Shaped, Dated, NEW S \in SUBSET Backups, S # {}
    PROVE  Newest(S) \in S /\ \A r \in S : backup[r].at <= backup[Newest(S)].at
<1> DEFINE Age(q) == clock - backup[q].at
           Ages == {Age(q) : q \in S}
<1>1. \A q \in S : q \in Ops /\ backup[q].at \in Nat /\ backup[q].at <= clock
  BY DEF Shaped, Dated, Backups, Dir
<1>2. Ages \subseteq Nat /\ Ages # {}
  BY <1>1 DEF Shaped
<1>3. PICK a \in Ages : \A b \in Ages : ~ (b < a)
  <2>1. \E a \in Ages : \A b \in Ages : ~ (<<b, a>> \in OpToRel(<, Nat))
    BY <1>2, NatLessThanWellFounded, WFMin
  <2> QED BY <1>2, <2>1 DEF OpToRel
<1>4. PICK q \in S : a = Age(q)
  OBVIOUS
<1>5. ASSUME NEW r \in S PROVE backup[r].at <= backup[q].at
  <2>1. ~ (Age(r) < Age(q)) /\ clock \in Nat
    BY <1>3, <1>4 DEF Shaped
  <2>2. backup[r].at \in Nat /\ backup[q].at \in Nat
    BY <1>1
  <2> QED BY <2>1, <2>2
<1> QED BY <1>5 DEF Newest

LEMMA NewestBackup == ASSUME IInv, Backups # {} PROVE Newest(Backups) \in Backups
BY NewestIsNewest DEF IInv

LEMMA NewDirs == ASSUME Shaped, NEW has \in SUBSET Ops PROVE NewDir(has) \in Dir
BY DEF Shaped, NewDir, Dir

\* What is left of a backup that a removal has begun on.
LEMMA PartOf ==
    ASSUME Shaped, Dated, NEW b \in Ops, RemovePart(b)
    PROVE  /\ backup[b] # None /\ harm' = harm \cup PartNewest(wiki, backup')
           /\ \E at \in Nat :
                /\ backup' = [backup EXCEPT ![b] = [has |-> {}, at |-> at, whole |-> FALSE]]
                /\ at <= clock'
           /\ clock' \in Nat /\ clock <= clock'
<1>1. backup[b] # None /\ harm' = harm \cup PartNewest(wiki, backup')
  BY DEF RemovePart
<1>2. PICK at \in {backup[b].at, clock + 1} :
         /\ backup' = [backup EXCEPT ![b] = [has |-> {}, at |-> at, whole |-> FALSE]]
         /\ clock' = IF at = backup[b].at THEN clock ELSE at
  BY DEF RemovePart
<1>3. backup[b].at \in Nat /\ clock \in Nat /\ backup[b].at <= clock
  BY <1>1 DEF Shaped, Dated, Dir
<1>4. at \in Nat /\ at <= clock' /\ clock' \in Nat /\ clock <= clock'
  BY <1>2, <1>3
<1> QED BY <1>1, <1>2, <1>4

\* What the loop of the removals does to the calls and to the directories.
CallKept(p) ==
    /\ \A q \in Ops \ {p} : op'[q] = op[q]
    /\ op'[p] \in CallState /\ op' \in [Ops -> CallState]
    /\ op'[p].kind = op[p].kind /\ op'[p].held = op[p].held
    /\ op'[p].lost = op[p].lost /\ op'[p].slept = op[p].slept
    /\ op'[p].scan.first = op[p].scan.first /\ op'[p].scan.old \subseteq op[p].scan.old

BackupsShrink ==
    /\ clock' \in Nat /\ clock <= clock'
    /\ \A r \in Ops : backup'[r] # None => /\ backup[r] # None
                                           /\ backup'[r].has \subseteq backup[r].has
                                           /\ backup'[r] = backup[r] \/ backup'[r].at <= clock'
    /\ backup' \in [Ops -> Dir \cup {None}]

LEMMA RemovalShrinks ==
    ASSUME Shaped, Dated, NEW b \in Ops, RemovePart(b) \/ RemoveRest(b)
    PROVE  BackupsShrink
<1> USE NoneAssumption
<1>1. CASE RemoveRest(b)
  BY <1>1 DEF RemoveRest, BackupsShrink, Shaped
<1>2. CASE RemovePart(b)
  <2>1. PICK at \in Nat :
           /\ backup' = [backup EXCEPT ![b] = [has |-> {}, at |-> at, whole |-> FALSE]]
           /\ at <= clock'
    BY <1>2, PartOf
  <2>2. [has |-> {}, at |-> at, whole |-> FALSE] \in Dir
    BY DEF Dir
  <2>3. backup[b] # None /\ clock' \in Nat /\ clock <= clock'
    BY <1>2, PartOf
  <2> QED BY <2>1, <2>2, <2>3 DEF BackupsShrink, Shaped
<1> QED BY <1>1, <1>2

LEMMA CleanStep ==
    ASSUME IInv, NEW p \in Ops, Clean(p)
    PROVE  /\ op[p].pc = "clean" /\ op'[p].pc \in {"clean", "failed", "fail"} /\ CallKept(p)
           /\ UNCHANGED <<lease, wiki, staging>> /\ BackupsShrink
<1>1. PICK b \in op[p].scan.old :
         \/ RemovePart(b) /\ op' = op
         \/ RemoveRest(b) /\ op' = [op EXCEPT ![p].scan.old = @ \ {b}]
         \/ RecoveryFails(p)
  BY DEF Clean
<1>2. /\ op[p].pc = "clean" /\ UNCHANGED <<lease, wiki, staging>> /\ b \in Ops
      /\ op \in [Ops -> CallState] /\ Shaped /\ Dated
  BY DEF Clean, IInv, Shaped, CallState
<1>3. CASE RemovePart(b) /\ op' = op
  BY <1>2, <1>3, RemovalShrinks DEF CallKept
<1>4. CASE RemoveRest(b) /\ op' = [op EXCEPT ![p].scan.old = @ \ {b}]
  <2>1. op'[p].pc \in {"clean", "failed", "fail"} /\ CallKept(p)
    BY <1>2, <1>4 DEF CallKept, CallState
  <2> QED BY <1>2, <1>4, <2>1, RemovalShrinks
<1>5. CASE RecoveryFails(p)
  <2>1. PICK pc \in {"failed", "fail"} : GoTo(p, pc)
    BY <1>5 DEF RecoveryFails
  <2>2. op'[p].pc \in {"clean", "failed", "fail"} /\ CallKept(p)
    BY <1>2, <2>1 DEF GoTo, CallKept, CallState, Places, Finished
  <2>3. BackupsShrink
    BY <1>2, <1>5, NoneAssumption DEF RecoveryFails, dirs, BackupsShrink, Shaped
  <2> QED BY <1>2, <2>2, <2>3
<1> QED BY <1>1, <1>3, <1>4, <1>5

LEMMA DiscardStep ==
    ASSUME IInv, NEW p \in Ops, Discard(p)
    PROVE  /\ op[p].pc = "discard" /\ op'[p].pc \in {"discard", "append", "fail"} /\ CallKept(p)
           /\ UNCHANGED <<lease, staging>> /\ BackupsShrink
           /\ wiki' = wiki \/ (wiki' = backup[p] /\ backup[p] # None)
<1> USE NoneAssumption
<1>1. op[p].pc = "discard" /\ UNCHANGED <<lease, staging>> /\ op \in [Ops -> CallState]
      /\ Shaped /\ Dated
  BY DEF Discard, IInv, Shaped
<1>2. CASE RemovePart(p) /\ UNCHANGED <<wiki, op>>
  BY <1>1, <1>2, RemovalShrinks DEF CallKept
<1>3. CASE RemoveRest(p) /\ GoTo(p, "append") /\ UNCHANGED wiki
  <2>1. op'[p].pc \in {"discard", "append", "fail"} /\ CallKept(p)
    BY <1>1, <1>3 DEF GoTo, CallKept, CallState, Places, Finished
  <2> QED BY <1>1, <1>3, <2>1, RemovalShrinks
<1>4. CASE PutBack(p) /\ UNCHANGED clock
  <2>1. op'[p].pc \in {"discard", "append", "fail"} /\ CallKept(p)
    BY <1>1, <1>4 DEF PutBack, GoTo, CallKept, CallState, Places, Finished
  <2>2. BackupsShrink /\ (wiki' = wiki \/ (wiki' = backup[p] /\ backup[p] # None))
    BY <1>1, <1>4 DEF PutBack, BackupsShrink, Shaped
  <2> QED BY <1>1, <2>1, <2>2
<1> QED BY <1>2, <1>3, <1>4 DEF Discard

\* A step of one call leaves the variables of the others.
LEMMA OthersStay ==
    ASSUME IInv, NEW p \in Ops, NEW q \in Ops \ {p},
           Begin(p) \/ Step(p) \/ Heartbeat(p) \/ Crash(p)
    PROVE  op'[q] = op[q]
<1>1. op \in [Ops -> CallState]
  BY DEF IInv, Shaped
<1>2. CASE Clean(p)
  BY <1>2, CleanStep DEF CallKept
<1>3. CASE Discard(p)
  BY <1>3, DiscardStep DEF CallKept
<1>4. CASE Begin(p) \/ Acquire(p) \/ Scan(p) \/ Stat(p) \/ Restore(p) \/ CleanStaging(p) \/ Heartbeat(p)
  BY <1>1, <1>4 DEF Begin, Acquire, Scan, Stat, Restore, RecoveryFails, CleanStaging, Heartbeat, GoTo
<1>5. CASE \/ InitializeSpace(p) \/ Copy(p) \/ MoveAway(p) \/ MoveIn(p) \/ AppendLog(p) \/ End(p)
           \/ Fail(p) \/ Crash(p)
  BY <1>1, <1>5 DEF InitializeSpace, Copy, MoveAway, MoveIn, PutBack, AppendLog, End, Fail, Crash, GoTo
<1> QED BY <1>2, <1>3, <1>4, <1>5 DEF Step, Recover

\* A window that was hit stays on record.
LEMMA HarmGrows ==
    ASSUME Next
    PROVE  harm \subseteq harm' /\ harm' \subseteq harm \cup {"unleased", "stall", "part"}
<1>1. CASE Expire
  BY <1>1 DEF Expire
<1>2. ASSUME NEW p \in Ops, Restore(p) \/ InitializeSpace(p) PROVE harm \subseteq harm' /\ harm' \subseteq harm \cup {"unleased", "stall", "part"}
  BY <1>2 DEF Restore, InitializeSpace, Unguarded, NewDir
<1>3. ASSUME NEW p \in Ops, MoveAway(p) \/ MoveIn(p) \/ Clean(p) \/ Discard(p)
      PROVE  harm \subseteq harm' /\ harm' \subseteq harm \cup {"unleased", "stall", "part"}
  <2>1. \/ harm' = harm
        \/ harm' = harm \cup Trespass(p)
        \/ harm' = harm \cup Trespass(p) \cup PartNewest(None, backup')
        \/ harm' = harm \cup PartNewest(wiki, backup')
    BY <1>3 DEF MoveAway, MoveIn, Clean, Discard, RemovePart, RemoveRest
  <2>2. Trespass(p) \subseteq {"stall"} /\ \A w, bs : PartNewest(w, bs) \subseteq {"part"}
    BY DEF Trespass, PartNewest
  <2> QED BY <2>1, <2>2
<1>4. ASSUME NEW p \in Ops,
             \/ Begin(p) \/ Acquire(p) \/ Scan(p) \/ Stat(p) \/ CleanStaging(p) \/ Copy(p)
             \/ AppendLog(p) \/ End(p) \/ Fail(p) \/ Heartbeat(p) \/ Crash(p)
      PROVE  harm' = harm
  BY <1>4 DEF Begin, Acquire, Scan, Stat, CleanStaging, Copy, AppendLog, End, Fail, Heartbeat, Crash
<1> QED BY <1>1, <1>2, <1>3, <1>4 DEF Next, Step, Recover

\* The variables keep their shape.
LEMMA LeaseShaped ==
    ASSUME IInv, Next PROVE (lease \in [owner : Ops, live : BOOLEAN] \cup {NoLease})'
<1>1. lease \in [owner : Ops, live : BOOLEAN] \cup {NoLease}
  BY DEF IInv, Shaped
<1>2. CASE Expire
  <2>1. lease \in [owner : Ops, live : BOOLEAN]
    BY <1>1, <1>2 DEF Expire, NoLease
  <2>2. lease' = [lease EXCEPT !.live = FALSE]
    BY <1>2 DEF Expire
  <2> QED BY <2>1, <2>2
<1>3. ASSUME NEW p \in Ops, Acquire(p)
      PROVE  (lease \in [owner : Ops, live : BOOLEAN] \cup {NoLease})'
  <2>1. lease' = [owner |-> p, live |-> TRUE] \/ lease' = lease
    BY <1>3 DEF Acquire
  <2>2. [owner |-> p, live |-> TRUE] \in [owner : Ops, live : BOOLEAN]
    OBVIOUS
  <2> QED BY <1>1, <2>1, <2>2
<1>4. ASSUME NEW p \in Ops, End(p) \/ Fail(p) PROVE lease' = NoLease \/ lease' = lease
  BY <1>4 DEF End, Fail, ReleaseBy
<1>5. ASSUME NEW p \in Ops,
             \/ Begin(p) \/ Recover(p) \/ InitializeSpace(p) \/ Copy(p) \/ MoveAway(p) \/ MoveIn(p)
             \/ Discard(p) \/ AppendLog(p) \/ Heartbeat(p) \/ Crash(p)
      PROVE  lease' = lease
  BY <1>5 DEF Begin, Recover, Scan, Stat, Restore, Clean, InitializeSpace, Copy, MoveAway,
              MoveIn, Discard, AppendLog, Heartbeat, Crash, RemovePart, RemoveRest,
              CleanStaging, RecoveryFails, PutBack, GoTo, NewDir
<1> QED BY <1>1, <1>2, <1>3, <1>4, <1>5 DEF Next, Step, NoLease

LEMMA CallUpdates ==
    ASSUME NEW c \in CallState, NEW pc \in Places,
           NEW scan \in [first : Ops \cup {None}, old : SUBSET Ops]
    PROVE  [c EXCEPT !.pc = pc, !.scan = scan] \in CallState
BY DEF CallState

LEMMA UpdatesAlone ==
    ASSUME NEW c \in CallState
    PROVE  [c EXCEPT !.lost = TRUE] \in CallState /\ [c EXCEPT !.slept = TRUE] \in CallState
<1>1. [c EXCEPT !.lost = TRUE] \in CallState
  BY DEF CallState
<1>2. [c EXCEPT !.slept = TRUE] \in CallState
  BY DEF CallState
<1> QED BY <1>1, <1>2

LEMMA CallsShaped == ASSUME IInv, Next PROVE (op \in [Ops -> CallState])'
<1>0. /\ {"stat", "init", "copy", "end", "scan", "acquire", "fail", "failed", "clean", "locked"} \subseteq Places
  BY DEF Places, Finished
<1>1. op \in [Ops -> CallState] /\ backup \in [Ops -> Dir \cup {None}]
  BY DEF IInv, Shaped
<1>2. CASE Expire
  <2>1. lease.owner \in Ops
    BY <1>2 DEF Expire, IInv, Shaped, NoLease
  <2>2. op' = op \/ op' = [op EXCEPT ![lease.owner].slept = TRUE]
    BY <1>2 DEF Expire
  <2>3. [op[lease.owner] EXCEPT !.slept = TRUE] \in CallState
    BY <1>1, <2>1, CallUpdates, UpdatesAlone
  <2> QED BY <1>1, <2>1, <2>2, <2>3
<1>3. ASSUME NEW p \in Ops, Scan(p) PROVE (op \in [Ops -> CallState])'
  <2>1. PICK old \in SUBSET Backups :
           op' = [op EXCEPT ![p].pc = "stat",
                            ![p].scan = [first |-> IF Backups = {} THEN None ELSE Newest(Backups),
                                         old |-> old]]
    BY <1>3 DEF Scan
  <2>2. Backups = {} \/ Newest(Backups) \in Ops
    BY NewestBackup DEF Backups
  <2>3. [first |-> IF Backups = {} THEN None ELSE Newest(Backups), old |-> old]
           \in [first : Ops \cup {None}, old : SUBSET Ops]
    BY <2>2 DEF Backups
  <2>4. [op[p] EXCEPT !.pc = "stat",
                      !.scan = [first |-> IF Backups = {} THEN None ELSE Newest(Backups),
                                old |-> old]] \in CallState
    BY <1>0, <1>1, <2>3, CallUpdates
  <2> QED BY <1>1, <2>1, <2>4
<1>4. ASSUME NEW p \in Ops, Clean(p) PROVE (op \in [Ops -> CallState])'
  BY <1>4, CleanStep DEF CallKept
<1>11. ASSUME NEW p \in Ops, CleanStaging(p) PROVE (op \in [Ops -> CallState])'
  <2>1. op' = [op EXCEPT ![p].pc = AfterRecovery(p), ![p].scan = NoScan]
    BY <1>11 DEF CleanStaging
  <2>2. AfterRecovery(p) \in {"init", "copy", "end"} /\ NoScan \in [first : Ops \cup {None}, old : SUBSET Ops]
    BY DEF AfterRecovery, NoScan
  <2>3. [op[p] EXCEPT !.pc = AfterRecovery(p), !.scan = NoScan] \in CallState
    BY <1>0, <1>1, <2>2, CallUpdates
  <2> QED BY <1>1, <2>1, <2>3
<1>5. ASSUME NEW p \in Ops, Heartbeat(p) PROVE (op \in [Ops -> CallState])'
  <2>1. op' = [op EXCEPT ![p].lost = TRUE]
    BY <1>5 DEF Heartbeat
  <2>2. [op[p] EXCEPT !.lost = TRUE] \in CallState
    BY <1>1, CallUpdates, UpdatesAlone
  <2> QED BY <1>1, <2>1, <2>2
<1>6. ASSUME NEW p \in Ops, Acquire(p) PROVE (op \in [Ops -> CallState])'
  BY <1>0, <1>1, <1>6 DEF Acquire, GoTo, CallState
<1>7. ASSUME NEW p \in Ops, Restore(p) PROVE (op \in [Ops -> CallState])'
  BY <1>0, <1>1, <1>7 DEF Restore, RecoveryFails, GoTo, CallState
<1>8. ASSUME NEW p \in Ops, Begin(p) PROVE (op \in [Ops -> CallState])'
  BY <1>0, <1>1, <1>8, KindsAssumption DEF Begin, CallState
<1>9. ASSUME NEW p \in Ops, NEW pc \in Places, GoTo(p, pc) PROVE (op \in [Ops -> CallState])'
  BY <1>1, <1>9 DEF GoTo, CallState
<1>10. ASSUME NEW p \in Ops,
              \/ Stat(p) \/ InitializeSpace(p) \/ Copy(p) \/ MoveAway(p) \/ MoveIn(p)
              \/ AppendLog(p) \/ End(p) \/ Fail(p) \/ Crash(p)
       PROVE  \E pc \in Places : GoTo(p, pc)
  BY <1>10 DEF Stat, InitializeSpace, Copy, MoveAway, MoveIn, Discard, AppendLog, End, Fail,
              Crash, Places, Finished, RemovePart, RemoveRest, PutBack, GoTo, NewDir
<1>12. ASSUME NEW p \in Ops, Discard(p) PROVE (op \in [Ops -> CallState])'
  BY <1>12, DiscardStep DEF CallKept
<1> QED
  BY <1>2, <1>3, <1>4, <1>5, <1>6, <1>7, <1>8, <1>9, <1>10, <1>11, <1>12 DEF Next, Step, Recover

LEMMA DirsShaped ==
    ASSUME IInv, Next
    PROVE  /\ (wiki \in Dir \cup {None})' /\ (clock \in Nat)'
           /\ (staging \in [Ops -> Dir \cup {None}])' /\ (backup \in [Ops -> Dir \cup {None}])'
<1> DEFINE DirsTyped ==
        /\ wiki \in Dir \cup {None} /\ clock \in Nat
        /\ staging \in [Ops -> Dir \cup {None}] /\ backup \in [Ops -> Dir \cup {None}]
<1>1. DirsTyped
  BY DEF IInv, Shaped
<1>0. Shaped
  BY DEF IInv
<1>2. ASSUME NEW p \in Ops, Copy(p) PROVE DirsTyped'
  <2>1. \E has \in SUBSET Ops : staging' = [staging EXCEPT ![p] = NewDir(has)]
    <3>1. CASE wiki = None
      BY <1>2, <3>1 DEF Copy
    <3>2. CASE wiki # None
      <4>1. wiki.has \cup {p} \in SUBSET Ops
        BY <1>1, <3>2 DEF Dir
      <4> QED BY <1>2, <3>2, <4>1 DEF Copy
    <3> QED BY <3>1, <3>2
  <2> QED BY <1>0, <1>1, <1>2, <2>1, NewDirs DEF Copy
<1>3. ASSUME NEW p \in Ops, InitializeSpace(p) PROVE DirsTyped'
  BY <1>0, <1>1, <1>3, NewDirs DEF InitializeSpace
<1>4. ASSUME NEW p \in Ops, Restore(p) PROVE DirsTyped'
  <2>1. op[p].scan.first \in Ops
    BY <1>4 DEF Restore, IInv, Placed, Shaped, CallState
  <2> QED BY <1>1, <1>4, <2>1 DEF Restore, RecoveryFails, dirs
<1>5. ASSUME NEW p \in Ops, Clean(p) PROVE DirsTyped'
  BY <1>1, <1>5, CleanStep DEF BackupsShrink
<1>12. ASSUME NEW p \in Ops, CleanStaging(p) PROVE DirsTyped'
  BY <1>1, <1>12 DEF CleanStaging
<1>6. ASSUME NEW p \in Ops, MoveAway(p) PROVE DirsTyped'
  BY <1>1, <1>6 DEF MoveAway
<1>7. ASSUME NEW p \in Ops, MoveIn(p) PROVE DirsTyped'
  BY <1>1, <1>7 DEF MoveIn, PutBack, GoTo
<1>13. ASSUME NEW p \in Ops, Discard(p) PROVE DirsTyped'
  BY <1>1, <1>13, DiscardStep DEF BackupsShrink
<1>8. ASSUME NEW p \in Ops, Fail(p) PROVE DirsTyped'
  BY <1>1, <1>8 DEF Fail
<1>9. ASSUME UNCHANGED dirs PROVE DirsTyped'
  BY <1>1, <1>9 DEF dirs
<1>10. CASE Expire
  BY <1>9, <1>10 DEF Expire
<1>11. ASSUME NEW p \in Ops,
              \/ Begin(p) \/ Acquire(p) \/ Scan(p) \/ Stat(p) \/ AppendLog(p) \/ End(p)
              \/ Heartbeat(p) \/ Crash(p)
       PROVE  UNCHANGED dirs
  BY <1>11 DEF Begin, Acquire, Scan, Stat, AppendLog, End, Heartbeat, Crash
<1> QED
  BY <1>2, <1>3, <1>4, <1>5, <1>6, <1>7, <1>8, <1>9, <1>10, <1>11, <1>12, <1>13
     DEF Next, Step, Recover

LEMMA ShapedNext == ASSUME IInv, Next PROVE Shaped'
<1>1. (harm \subseteq {"unleased", "stall", "part"})'
  BY HarmGrows DEF IInv, Shaped
<1> QED BY <1>1, LeaseShaped, CallsShaped, DirsShaped DEF Shaped

LEMMA LeasedNext == ASSUME IInv, Next PROVE \A q \in Ops : Leased(q)'
<1>0. op \in [Ops -> CallState] /\ lease \in [owner : Ops, live : BOOLEAN] \cup {NoLease}
      /\ \A q \in Ops : Leased(q) /\ Placed(q)
  BY DEF IInv, Shaped
<1> USE <1>0, NoneAssumption
<1>1. CASE Expire
  BY <1>1 DEF Expire, Leased, Owns, Running, Finished, CallState, NoLease, AfterRecovery
<1>2. ASSUME NEW p \in Ops, Begin(p) PROVE \A q \in Ops : Leased(q)'
  BY <1>2 DEF Begin, Leased, Owns, Running, Finished, CallState, NoLease, AfterRecovery
<1>3. ASSUME NEW p \in Ops, Acquire(p) PROVE \A q \in Ops : Leased(q)'
  BY <1>3 DEF Acquire, GoTo, Leased, Owns, Running, Finished, CallState, NoLease, AfterRecovery
<1>4. ASSUME NEW p \in Ops, Scan(p) PROVE \A q \in Ops : Leased(q)'
  BY <1>4 DEF Scan, Leased, Owns, Running, Finished, CallState, NoLease, AfterRecovery
<1>5. ASSUME NEW p \in Ops, Stat(p) PROVE \A q \in Ops : Leased(q)'
  BY <1>5 DEF Stat, GoTo, Leased, Owns, Running, Finished, CallState, NoLease, AfterRecovery
<1>6. ASSUME NEW p \in Ops, Restore(p) PROVE \A q \in Ops : Leased(q)'
  BY <1>6 DEF Restore, RecoveryFails, GoTo, Unguarded, Leased, Owns, Running, Finished, CallState, NoLease, AfterRecovery
<1>7. ASSUME NEW p \in Ops, Clean(p) PROVE \A q \in Ops : Leased(q)'
  BY <1>7, CleanStep DEF CallKept, Leased, Owns, Running, Finished
<1>18. ASSUME NEW p \in Ops, CleanStaging(p) PROVE \A q \in Ops : Leased(q)'
  BY <1>18 DEF CleanStaging, Leased, Owns, Running, Finished, CallState, NoLease, AfterRecovery
<1>8. ASSUME NEW p \in Ops, InitializeSpace(p) PROVE \A q \in Ops : Leased(q)'
  BY <1>8 DEF InitializeSpace, GoTo, Unguarded, Leased, Owns, Running, Finished, CallState,
              NoLease, AfterRecovery, NewDir
<1>9. ASSUME NEW p \in Ops, Copy(p) PROVE \A q \in Ops : Leased(q)'
  BY <1>9 DEF Copy, GoTo, Leased, Owns, Running, Finished, CallState, NoLease, AfterRecovery,
              NewDir
<1>10. ASSUME NEW p \in Ops, MoveAway(p) PROVE \A q \in Ops : Leased(q)'
  BY <1>10 DEF MoveAway, GoTo, Trespass, Leased, Owns, Running, Finished, CallState, NoLease, AfterRecovery
<1>11. ASSUME NEW p \in Ops, MoveIn(p) PROVE \A q \in Ops : Leased(q)'
  BY <1>11 DEF MoveIn, GoTo, Trespass, Leased, Owns, Running, Finished, CallState, NoLease,
              AfterRecovery, PutBack
<1>12. ASSUME NEW p \in Ops, Discard(p) PROVE \A q \in Ops : Leased(q)'
  BY <1>12, DiscardStep DEF CallKept, Leased, Owns, Running, Finished
<1>13. ASSUME NEW p \in Ops, AppendLog(p) PROVE \A q \in Ops : Leased(q)'
  BY <1>13 DEF AppendLog, GoTo, Leased, Owns, Running, Finished, CallState, NoLease, AfterRecovery
<1>14. ASSUME NEW p \in Ops, End(p) PROVE \A q \in Ops : Leased(q)'
  BY <1>14 DEF End, GoTo, ReleaseBy, Leased, Owns, Running, Finished, CallState, NoLease, AfterRecovery
<1>15. ASSUME NEW p \in Ops, Fail(p) PROVE \A q \in Ops : Leased(q)'
  BY <1>15 DEF Fail, GoTo, ReleaseBy, Leased, Owns, Running, Finished, CallState, NoLease, AfterRecovery
<1>16. ASSUME NEW p \in Ops, Heartbeat(p) PROVE \A q \in Ops : Leased(q)'
  BY <1>16 DEF Heartbeat, Leased, Owns, Running, Finished, CallState, NoLease, AfterRecovery
<1>17. ASSUME NEW p \in Ops, Crash(p) PROVE \A q \in Ops : Leased(q)'
  BY <1>17 DEF Crash, GoTo, Leased, Owns, Running, Finished, CallState, NoLease, AfterRecovery
<1> QED BY <1>1, <1>2, <1>3, <1>4, <1>5, <1>6, <1>7, <1>8, <1>9, <1>10, <1>11, <1>12, <1>13, <1>14, <1>15, <1>16, <1>17, <1>18 DEF Next, Step, Recover

LEMMA PlacedNext == ASSUME IInv, Next PROVE \A q \in Ops : Placed(q)'
<1>0. op \in [Ops -> CallState] /\ lease \in [owner : Ops, live : BOOLEAN] \cup {NoLease}
      /\ \A q \in Ops : Leased(q) /\ Placed(q)
  BY DEF IInv, Shaped
<1> USE <1>0, NoneAssumption
<1>1. CASE Expire
  BY <1>1 DEF Expire, Placed, CallState, NoScan, AfterRecovery
<1>2. ASSUME NEW p \in Ops, Begin(p) PROVE \A q \in Ops : Placed(q)'
  BY <1>2 DEF Begin, Placed, CallState, NoScan, AfterRecovery
<1>3. ASSUME NEW p \in Ops, Acquire(p) PROVE \A q \in Ops : Placed(q)'
  BY <1>3 DEF Acquire, GoTo, Placed, CallState, NoScan, AfterRecovery
<1>4. ASSUME NEW p \in Ops, Scan(p) PROVE \A q \in Ops : Placed(q)'
  BY <1>4 DEF Scan, Placed, CallState, NoScan, AfterRecovery
<1>5. ASSUME NEW p \in Ops, Stat(p) PROVE \A q \in Ops : Placed(q)'
  BY <1>5 DEF Stat, GoTo, Placed, CallState, NoScan, AfterRecovery
<1>6. ASSUME NEW p \in Ops, Restore(p) PROVE \A q \in Ops : Placed(q)'
  BY <1>6 DEF Restore, RecoveryFails, GoTo, Unguarded, Placed, CallState, NoScan, AfterRecovery
<1>7. ASSUME NEW p \in Ops, Clean(p) PROVE \A q \in Ops : Placed(q)'
  BY <1>7, CleanStep DEF CallKept, Placed
<1>18. ASSUME NEW p \in Ops, CleanStaging(p) PROVE \A q \in Ops : Placed(q)'
  <2>1. op' = [op EXCEPT ![p].pc = AfterRecovery(p), ![p].scan = NoScan]
    BY <1>18 DEF CleanStaging
  <2>2. \/ AfterRecovery(p) = "init" /\ ~ op[p].held
        \/ AfterRecovery(p) \in {"copy", "end"} /\ op[p].held
    BY DEF AfterRecovery
  <2> QED BY <2>1, <2>2 DEF Placed, CallState, NoScan
<1>8. ASSUME NEW p \in Ops, InitializeSpace(p) PROVE \A q \in Ops : Placed(q)'
  BY <1>8 DEF InitializeSpace, GoTo, Unguarded, Placed, CallState, NoScan, AfterRecovery, NewDir
<1>9. ASSUME NEW p \in Ops, Copy(p) PROVE \A q \in Ops : Placed(q)'
  BY <1>9 DEF Copy, GoTo, Placed, CallState, NoScan, AfterRecovery, NewDir
<1>10. ASSUME NEW p \in Ops, MoveAway(p) PROVE \A q \in Ops : Placed(q)'
  BY <1>10 DEF MoveAway, GoTo, Trespass, Placed, CallState, NoScan, AfterRecovery
<1>11. ASSUME NEW p \in Ops, MoveIn(p) PROVE \A q \in Ops : Placed(q)'
  BY <1>11 DEF MoveIn, GoTo, Trespass, Placed, CallState, NoScan, AfterRecovery, PutBack
<1>12. ASSUME NEW p \in Ops, Discard(p) PROVE \A q \in Ops : Placed(q)'
  BY <1>12, DiscardStep DEF CallKept, Placed
<1>13. ASSUME NEW p \in Ops, AppendLog(p) PROVE \A q \in Ops : Placed(q)'
  BY <1>13 DEF AppendLog, GoTo, Placed, CallState, NoScan, AfterRecovery
<1>14. ASSUME NEW p \in Ops, End(p) PROVE \A q \in Ops : Placed(q)'
  BY <1>14 DEF End, GoTo, ReleaseBy, Placed, CallState, NoScan, AfterRecovery
<1>15. ASSUME NEW p \in Ops, Fail(p) PROVE \A q \in Ops : Placed(q)'
  BY <1>15 DEF Fail, GoTo, ReleaseBy, Placed, CallState, NoScan, AfterRecovery
<1>16. ASSUME NEW p \in Ops, Heartbeat(p) PROVE \A q \in Ops : Placed(q)'
  BY <1>16 DEF Heartbeat, Placed, CallState, NoScan, AfterRecovery
<1>17. ASSUME NEW p \in Ops, Crash(p) PROVE \A q \in Ops : Placed(q)'
  BY <1>17 DEF Crash, GoTo, Placed, CallState, NoScan, AfterRecovery
<1> QED BY <1>1, <1>2, <1>3, <1>4, <1>5, <1>6, <1>7, <1>8, <1>9, <1>10, <1>11, <1>12, <1>13, <1>14, <1>15, <1>16, <1>17, <1>18 DEF Next, Step, Recover

LEMMA DatedNext == ASSUME IInv, Next PROVE Dated'
<1>0. Shaped /\ Dated /\ \A q \in Ops : Placed(q)
  BY DEF IInv
<1> USE <1>0, NoneAssumption
<1>1. CASE Expire
  BY <1>1 DEF Expire, Shaped, Dated, Dir, dirs
<1>2. ASSUME NEW p \in Ops, Begin(p) PROVE Dated'
  BY <1>2 DEF Begin, Shaped, Dated, Dir, dirs
<1>3. ASSUME NEW p \in Ops, Acquire(p) PROVE Dated'
  BY <1>3 DEF Acquire, GoTo, Shaped, Dated, Dir, dirs
<1>4. ASSUME NEW p \in Ops, Scan(p) PROVE Dated'
  BY <1>4 DEF Scan, Shaped, Dated, Dir, dirs
<1>5. ASSUME NEW p \in Ops, Stat(p) PROVE Dated'
  BY <1>5 DEF Stat, GoTo, Shaped, Dated, Dir, dirs
<1>6. ASSUME NEW p \in Ops, Restore(p) PROVE Dated'
  BY <1>6 DEF Restore, RecoveryFails, GoTo, Unguarded, Shaped, Dated, Dir, dirs, Placed, CallState
<1>7. ASSUME NEW p \in Ops, Clean(p) PROVE Dated'
  BY <1>7, CleanStep DEF CallKept, Dated, BackupsShrink, Shaped, Dir
<1>18. ASSUME NEW p \in Ops, CleanStaging(p) PROVE Dated'
  <2>1. wiki' = wiki /\ backup' = backup /\ clock' = clock
        /\ \A q \in Ops : staging'[q] \in {staging[q], None}
    BY <1>18 DEF CleanStaging
  <2>2. ASSUME NEW q \in Ops, staging'[q] # None PROVE staging'[q].at <= clock'
    <3>1. staging'[q] = staging[q] /\ clock' = clock
      BY <2>1, <2>2
    <3> QED BY <2>2, <3>1 DEF Dated
  <2>3. (wiki # None => wiki.at <= clock)' /\ \A q \in Ops : (backup[q] # None => backup[q].at <= clock)'
    BY <2>1 DEF Dated
  <2> QED BY <2>2, <2>3 DEF Dated
<1>8. ASSUME NEW p \in Ops, InitializeSpace(p) PROVE Dated'
  BY <1>8 DEF InitializeSpace, GoTo, Unguarded, Shaped, Dated, Dir, dirs, NewDir
<1>9. ASSUME NEW p \in Ops, Copy(p) PROVE Dated'
  BY <1>9 DEF Copy, GoTo, Shaped, Dated, Dir, dirs, NewDir
<1>10. ASSUME NEW p \in Ops, MoveAway(p) PROVE Dated'
  BY <1>10 DEF MoveAway, GoTo, Trespass, Shaped, Dated, Dir, dirs
<1>11. ASSUME NEW p \in Ops, MoveIn(p) PROVE Dated'
  BY <1>11 DEF MoveIn, GoTo, Trespass, Shaped, Dated, Dir, dirs, PutBack
<1>12. ASSUME NEW p \in Ops, Discard(p) PROVE Dated'
  BY <1>12, DiscardStep DEF CallKept, Dated, BackupsShrink, Shaped, Dir
<1>13. ASSUME NEW p \in Ops, AppendLog(p) PROVE Dated'
  BY <1>13 DEF AppendLog, GoTo, Shaped, Dated, Dir, dirs
<1>14. ASSUME NEW p \in Ops, End(p) PROVE Dated'
  BY <1>14 DEF End, GoTo, ReleaseBy, Shaped, Dated, Dir, dirs
<1>15. ASSUME NEW p \in Ops, Fail(p) PROVE Dated'
  BY <1>15 DEF Fail, GoTo, ReleaseBy, Shaped, Dated, Dir, dirs
<1>16. ASSUME NEW p \in Ops, Heartbeat(p) PROVE Dated'
  BY <1>16 DEF Heartbeat, Shaped, Dated, Dir, dirs
<1>17. ASSUME NEW p \in Ops, Crash(p) PROVE Dated'
  BY <1>17 DEF Crash, GoTo, Shaped, Dated, Dir, dirs
<1> QED BY <1>1, <1>2, <1>3, <1>4, <1>5, <1>6, <1>7, <1>8, <1>9, <1>10, <1>11, <1>12, <1>13, <1>14, <1>15, <1>16, <1>17, <1>18 DEF Next, Step, Recover

LEMMA AfterStays == ASSUME IInv, Next PROVE \A q \in Ops : op[q].pc \in After => op'[q].pc \in After
<1>0. op \in [Ops -> CallState]
  BY DEF IInv, Shaped
<1> USE <1>0
<1>1. CASE Expire
  BY <1>1 DEF Expire, After, Finished, CallState, Running
<1>2. ASSUME NEW p \in Ops, Begin(p) PROVE \A q \in Ops : op[q].pc \in After => op'[q].pc \in After
  BY <1>2 DEF Begin, After, Finished, CallState, Running
<1>3. ASSUME NEW p \in Ops, Acquire(p) PROVE \A q \in Ops : op[q].pc \in After => op'[q].pc \in After
  BY <1>3 DEF Acquire, GoTo, After, Finished, CallState, Running
<1>4. ASSUME NEW p \in Ops, Scan(p) PROVE \A q \in Ops : op[q].pc \in After => op'[q].pc \in After
  BY <1>4 DEF Scan, After, Finished, CallState, Running
<1>5. ASSUME NEW p \in Ops, Stat(p) PROVE \A q \in Ops : op[q].pc \in After => op'[q].pc \in After
  BY <1>5 DEF Stat, GoTo, After, Finished, CallState, Running
<1>6. ASSUME NEW p \in Ops, Restore(p) PROVE \A q \in Ops : op[q].pc \in After => op'[q].pc \in After
  BY <1>6 DEF Restore, RecoveryFails, GoTo, Unguarded, After, Finished, CallState, Running
<1>7. ASSUME NEW p \in Ops, Clean(p) PROVE \A q \in Ops : op[q].pc \in After => op'[q].pc \in After
  BY <1>7, CleanStep DEF CallKept, After, Finished
<1>18. ASSUME NEW p \in Ops, CleanStaging(p) PROVE \A q \in Ops : op[q].pc \in After => op'[q].pc \in After
  BY <1>18 DEF CleanStaging, After, Finished, CallState, Running
<1>8. ASSUME NEW p \in Ops, InitializeSpace(p) PROVE \A q \in Ops : op[q].pc \in After => op'[q].pc \in After
  BY <1>8 DEF InitializeSpace, GoTo, Unguarded, After, Finished, CallState, Running, NewDir
<1>9. ASSUME NEW p \in Ops, Copy(p) PROVE \A q \in Ops : op[q].pc \in After => op'[q].pc \in After
  BY <1>9 DEF Copy, GoTo, After, Finished, CallState, Running, NewDir
<1>10. ASSUME NEW p \in Ops, MoveAway(p) PROVE \A q \in Ops : op[q].pc \in After => op'[q].pc \in After
  BY <1>10 DEF MoveAway, GoTo, Trespass, After, Finished, CallState, Running
<1>11. ASSUME NEW p \in Ops, MoveIn(p) PROVE \A q \in Ops : op[q].pc \in After => op'[q].pc \in After
  BY <1>11 DEF MoveIn, GoTo, Trespass, After, Finished, CallState, Running, PutBack
<1>12. ASSUME NEW p \in Ops, Discard(p) PROVE \A q \in Ops : op[q].pc \in After => op'[q].pc \in After
  BY <1>12, DiscardStep DEF CallKept, After, Finished
<1>13. ASSUME NEW p \in Ops, AppendLog(p) PROVE \A q \in Ops : op[q].pc \in After => op'[q].pc \in After
  BY <1>13 DEF AppendLog, GoTo, After, Finished, CallState, Running
<1>14. ASSUME NEW p \in Ops, End(p) PROVE \A q \in Ops : op[q].pc \in After => op'[q].pc \in After
  BY <1>14 DEF End, GoTo, ReleaseBy, After, Finished, CallState, Running
<1>15. ASSUME NEW p \in Ops, Fail(p) PROVE \A q \in Ops : op[q].pc \in After => op'[q].pc \in After
  BY <1>15 DEF Fail, GoTo, ReleaseBy, After, Finished, CallState, Running
<1>16. ASSUME NEW p \in Ops, Heartbeat(p) PROVE \A q \in Ops : op[q].pc \in After => op'[q].pc \in After
  BY <1>16 DEF Heartbeat, After, Finished, CallState, Running
<1>17. ASSUME NEW p \in Ops, Crash(p) PROVE \A q \in Ops : op[q].pc \in After => op'[q].pc \in After
  BY <1>17 DEF Crash, GoTo, After, Finished, CallState, Running
<1> QED BY <1>1, <1>2, <1>3, <1>4, <1>5, <1>6, <1>7, <1>8, <1>9, <1>10, <1>11, <1>12, <1>13, <1>14, <1>15, <1>16, <1>17, <1>18 DEF Next, Step, Recover

LEMMA OldRecorded == ASSUME IInv, Next PROVE \A q \in Ops : op'[q].scan.old \subseteq op[q].scan.old \cup Backups
<1>0. Shaped
  BY DEF IInv
<1> USE <1>0
<1>1. CASE Expire
  BY <1>1 DEF Expire, Shaped, CallState, NoScan, AfterRecovery
<1>2. ASSUME NEW p \in Ops, Begin(p) PROVE \A q \in Ops : op'[q].scan.old \subseteq op[q].scan.old \cup Backups
  BY <1>2 DEF Begin, Shaped, CallState, NoScan, AfterRecovery
<1>3. ASSUME NEW p \in Ops, Acquire(p) PROVE \A q \in Ops : op'[q].scan.old \subseteq op[q].scan.old \cup Backups
  BY <1>3 DEF Acquire, GoTo, Shaped, CallState, NoScan, AfterRecovery
<1>4. ASSUME NEW p \in Ops, Scan(p) PROVE \A q \in Ops : op'[q].scan.old \subseteq op[q].scan.old \cup Backups
  BY <1>4 DEF Scan, Shaped, CallState, NoScan, AfterRecovery
<1>5. ASSUME NEW p \in Ops, Stat(p) PROVE \A q \in Ops : op'[q].scan.old \subseteq op[q].scan.old \cup Backups
  BY <1>5 DEF Stat, GoTo, Shaped, CallState, NoScan, AfterRecovery
<1>6. ASSUME NEW p \in Ops, Restore(p) PROVE \A q \in Ops : op'[q].scan.old \subseteq op[q].scan.old \cup Backups
  BY <1>6 DEF Restore, RecoveryFails, GoTo, Unguarded, Shaped, CallState, NoScan, AfterRecovery
<1>7. ASSUME NEW p \in Ops, Clean(p) PROVE \A q \in Ops : op'[q].scan.old \subseteq op[q].scan.old \cup Backups
  BY <1>7, CleanStep DEF CallKept
<1>18. ASSUME NEW p \in Ops, CleanStaging(p) PROVE \A q \in Ops : op'[q].scan.old \subseteq op[q].scan.old \cup Backups
  BY <1>18 DEF CleanStaging, Shaped, CallState, NoScan, AfterRecovery
<1>8. ASSUME NEW p \in Ops, InitializeSpace(p) PROVE \A q \in Ops : op'[q].scan.old \subseteq op[q].scan.old \cup Backups
  BY <1>8 DEF InitializeSpace, GoTo, Unguarded, Shaped, CallState, NoScan, AfterRecovery, NewDir
<1>9. ASSUME NEW p \in Ops, Copy(p) PROVE \A q \in Ops : op'[q].scan.old \subseteq op[q].scan.old \cup Backups
  <2>1. \E pc \in {"away", "fail"} : GoTo(p, pc)
    BY <1>9 DEF Copy
  <2> QED BY <2>1 DEF GoTo, Shaped, CallState
<1>10. ASSUME NEW p \in Ops, MoveAway(p) PROVE \A q \in Ops : op'[q].scan.old \subseteq op[q].scan.old \cup Backups
  BY <1>10 DEF MoveAway, GoTo, Trespass, Shaped, CallState, NoScan, AfterRecovery
<1>11. ASSUME NEW p \in Ops, MoveIn(p) PROVE \A q \in Ops : op'[q].scan.old \subseteq op[q].scan.old \cup Backups
  BY <1>11 DEF MoveIn, GoTo, Trespass, Shaped, CallState, NoScan, AfterRecovery, PutBack
<1>12. ASSUME NEW p \in Ops, Discard(p) PROVE \A q \in Ops : op'[q].scan.old \subseteq op[q].scan.old \cup Backups
  BY <1>12, DiscardStep DEF CallKept
<1>13. ASSUME NEW p \in Ops, AppendLog(p) PROVE \A q \in Ops : op'[q].scan.old \subseteq op[q].scan.old \cup Backups
  BY <1>13 DEF AppendLog, GoTo, Shaped, CallState, NoScan, AfterRecovery
<1>14. ASSUME NEW p \in Ops, End(p) PROVE \A q \in Ops : op'[q].scan.old \subseteq op[q].scan.old \cup Backups
  BY <1>14 DEF End, GoTo, ReleaseBy, Shaped, CallState, NoScan, AfterRecovery
<1>15. ASSUME NEW p \in Ops, Fail(p) PROVE \A q \in Ops : op'[q].scan.old \subseteq op[q].scan.old \cup Backups
  BY <1>15 DEF Fail, GoTo, ReleaseBy, Shaped, CallState, NoScan, AfterRecovery
<1>16. ASSUME NEW p \in Ops, Heartbeat(p) PROVE \A q \in Ops : op'[q].scan.old \subseteq op[q].scan.old \cup Backups
  BY <1>16 DEF Heartbeat, Shaped, CallState, NoScan, AfterRecovery
<1>17. ASSUME NEW p \in Ops, Crash(p) PROVE \A q \in Ops : op'[q].scan.old \subseteq op[q].scan.old \cup Backups
  BY <1>17 DEF Crash, GoTo, Shaped, CallState, NoScan, AfterRecovery
<1> QED BY <1>1, <1>2, <1>3, <1>4, <1>5, <1>6, <1>7, <1>8, <1>9, <1>10, <1>11, <1>12, <1>13, <1>14, <1>15, <1>16, <1>17, <1>18 DEF Next, Step, Recover

LEMMA BackupsMade == ASSUME IInv, Next PROVE \A r \in Ops : backup'[r] # None => backup[r] # None \/ op'[r].pc = "in"
<1>0. Shaped
  BY DEF IInv
<1> USE <1>0
<1>1. CASE Expire
  BY <1>1 DEF Expire, Shaped, CallState, dirs
<1>2. ASSUME NEW p \in Ops, Begin(p) PROVE \A r \in Ops : backup'[r] # None => backup[r] # None \/ op'[r].pc = "in"
  BY <1>2 DEF Begin, Shaped, CallState, dirs
<1>3. ASSUME NEW p \in Ops, Acquire(p) PROVE \A r \in Ops : backup'[r] # None => backup[r] # None \/ op'[r].pc = "in"
  BY <1>3 DEF Acquire, GoTo, Shaped, CallState, dirs
<1>4. ASSUME NEW p \in Ops, Scan(p) PROVE \A r \in Ops : backup'[r] # None => backup[r] # None \/ op'[r].pc = "in"
  BY <1>4 DEF Scan, Shaped, CallState, dirs
<1>5. ASSUME NEW p \in Ops, Stat(p) PROVE \A r \in Ops : backup'[r] # None => backup[r] # None \/ op'[r].pc = "in"
  BY <1>5 DEF Stat, GoTo, Shaped, CallState, dirs
<1>6. ASSUME NEW p \in Ops, Restore(p) PROVE \A r \in Ops : backup'[r] # None => backup[r] # None \/ op'[r].pc = "in"
  BY <1>6 DEF Restore, RecoveryFails, GoTo, Unguarded, Shaped, CallState, dirs
<1>7. ASSUME NEW p \in Ops, Clean(p) PROVE \A r \in Ops : backup'[r] # None => backup[r] # None \/ op'[r].pc = "in"
  BY <1>7, CleanStep DEF CallKept, BackupsShrink
<1>18. ASSUME NEW p \in Ops, CleanStaging(p) PROVE \A r \in Ops : backup'[r] # None => backup[r] # None \/ op'[r].pc = "in"
  BY <1>18 DEF CleanStaging, Shaped, CallState, dirs
<1>8. ASSUME NEW p \in Ops, InitializeSpace(p) PROVE \A r \in Ops : backup'[r] # None => backup[r] # None \/ op'[r].pc = "in"
  BY <1>8 DEF InitializeSpace, GoTo, Unguarded, Shaped, CallState, dirs, NewDir
<1>9. ASSUME NEW p \in Ops, Copy(p) PROVE \A r \in Ops : backup'[r] # None => backup[r] # None \/ op'[r].pc = "in"
  BY <1>9 DEF Copy, GoTo, Shaped, CallState, dirs, NewDir
<1>10. ASSUME NEW p \in Ops, MoveAway(p) PROVE \A r \in Ops : backup'[r] # None => backup[r] # None \/ op'[r].pc = "in"
  BY <1>10 DEF MoveAway, GoTo, Trespass, Shaped, CallState, dirs
<1>11. ASSUME NEW p \in Ops, MoveIn(p) PROVE \A r \in Ops : backup'[r] # None => backup[r] # None \/ op'[r].pc = "in"
  BY <1>11 DEF MoveIn, GoTo, Trespass, Shaped, CallState, dirs, PutBack
<1>12. ASSUME NEW p \in Ops, Discard(p) PROVE \A r \in Ops : backup'[r] # None => backup[r] # None \/ op'[r].pc = "in"
  BY <1>12, DiscardStep DEF CallKept, BackupsShrink
<1>13. ASSUME NEW p \in Ops, AppendLog(p) PROVE \A r \in Ops : backup'[r] # None => backup[r] # None \/ op'[r].pc = "in"
  BY <1>13 DEF AppendLog, GoTo, Shaped, CallState, dirs
<1>14. ASSUME NEW p \in Ops, End(p) PROVE \A r \in Ops : backup'[r] # None => backup[r] # None \/ op'[r].pc = "in"
  BY <1>14 DEF End, GoTo, ReleaseBy, Shaped, CallState, dirs
<1>15. ASSUME NEW p \in Ops, Fail(p) PROVE \A r \in Ops : backup'[r] # None => backup[r] # None \/ op'[r].pc = "in"
  BY <1>15 DEF Fail, GoTo, ReleaseBy, Shaped, CallState, dirs
<1>16. ASSUME NEW p \in Ops, Heartbeat(p) PROVE \A r \in Ops : backup'[r] # None => backup[r] # None \/ op'[r].pc = "in"
  BY <1>16 DEF Heartbeat, Shaped, CallState, dirs
<1>17. ASSUME NEW p \in Ops, Crash(p) PROVE \A r \in Ops : backup'[r] # None => backup[r] # None \/ op'[r].pc = "in"
  BY <1>17 DEF Crash, GoTo, Shaped, CallState, dirs
<1> QED BY <1>1, <1>2, <1>3, <1>4, <1>5, <1>6, <1>7, <1>8, <1>9, <1>10, <1>11, <1>12, <1>13, <1>14, <1>15, <1>16, <1>17, <1>18 DEF Next, Step, Recover

LEMMA StagingKept == ASSUME IInv, Next PROVE \A r \in Ops : op'[r].pc \in {"away", "in"} => staging'[r] # None
<1>0. Shaped /\ \A q \in Ops : op[q].pc \in {"away", "in"} => staging[q] # None
  BY DEF IInv, Traced
<1> USE <1>0, NoneAssumption
<1>1. CASE Expire
  BY <1>1 DEF Expire, Shaped, CallState, dirs, Finished, AfterRecovery
<1>2. ASSUME NEW p \in Ops, Begin(p) PROVE \A r \in Ops : op'[r].pc \in {"away", "in"} => staging'[r] # None
  BY <1>2 DEF Begin, Shaped, CallState, dirs, Finished, AfterRecovery
<1>3. ASSUME NEW p \in Ops, Acquire(p) PROVE \A r \in Ops : op'[r].pc \in {"away", "in"} => staging'[r] # None
  BY <1>3 DEF Acquire, GoTo, Shaped, CallState, dirs, Finished, AfterRecovery
<1>4. ASSUME NEW p \in Ops, Scan(p) PROVE \A r \in Ops : op'[r].pc \in {"away", "in"} => staging'[r] # None
  BY <1>4 DEF Scan, Shaped, CallState, dirs, Finished, AfterRecovery
<1>5. ASSUME NEW p \in Ops, Stat(p) PROVE \A r \in Ops : op'[r].pc \in {"away", "in"} => staging'[r] # None
  BY <1>5 DEF Stat, GoTo, Shaped, CallState, dirs, Finished, AfterRecovery
<1>6. ASSUME NEW p \in Ops, Restore(p) PROVE \A r \in Ops : op'[r].pc \in {"away", "in"} => staging'[r] # None
  <2>1. staging' = staging
    BY <1>6 DEF Restore, RecoveryFails, dirs
  <2>2. \A r \in Ops : op'[r].pc \in {"away", "in"} => op[r].pc \in {"away", "in"}
    BY <1>6 DEF Restore, RecoveryFails, GoTo, Shaped, CallState
  <2> QED BY <2>1, <2>2
<1>7. ASSUME NEW p \in Ops, Clean(p) PROVE \A r \in Ops : op'[r].pc \in {"away", "in"} => staging'[r] # None
  BY <1>7, CleanStep DEF CallKept
<1>18. ASSUME NEW p \in Ops, CleanStaging(p) PROVE \A r \in Ops : op'[r].pc \in {"away", "in"} => staging'[r] # None
  <2>1. AfterRecovery(p) \notin {"away", "in"}
    BY DEF AfterRecovery
  <2>2. op' = [op EXCEPT ![p].pc = AfterRecovery(p), ![p].scan = NoScan]
    BY <1>18 DEF CleanStaging
  <2>3. \A r \in Ops : op'[r].pc \in {"away", "in"} => op[r].pc \in {"away", "in"}
    BY <2>1, <2>2 DEF Shaped, CallState
  <2>4. \A r \in Ops : op[r].pc \in {"away", "in"} => staging'[r] = staging[r]
    BY <1>18 DEF CleanStaging, Finished
  <2> QED BY <2>3, <2>4
<1>8. ASSUME NEW p \in Ops, InitializeSpace(p) PROVE \A r \in Ops : op'[r].pc \in {"away", "in"} => staging'[r] # None
  BY <1>8 DEF InitializeSpace, GoTo, Unguarded, Shaped, CallState, dirs, Finished,
              AfterRecovery, NewDir
<1>9. ASSUME NEW p \in Ops, Copy(p) PROVE \A r \in Ops : op'[r].pc \in {"away", "in"} => staging'[r] # None
  <2>1. \E d \in Dir : staging' = [staging EXCEPT ![p] = d]
    <3>1. CASE wiki = None
      BY <1>9, <3>1, NewDirs DEF Copy
    <3>2. CASE wiki # None
      <4>1. wiki.has \cup {p} \in SUBSET Ops
        BY <3>2 DEF Shaped, Dir
      <4> QED BY <1>9, <3>2, <4>1, NewDirs DEF Copy
    <3> QED BY <3>1, <3>2
  <2>2. \E pc \in {"away", "fail"} : GoTo(p, pc)
    BY <1>9 DEF Copy, NewDir
  <2> QED BY <2>1, <2>2 DEF GoTo, Shaped, CallState
<1>10. ASSUME NEW p \in Ops, MoveAway(p) PROVE \A r \in Ops : op'[r].pc \in {"away", "in"} => staging'[r] # None
  BY <1>10 DEF MoveAway, GoTo, Trespass, Shaped, CallState, dirs, Finished, AfterRecovery
<1>11. ASSUME NEW p \in Ops, MoveIn(p) PROVE \A r \in Ops : op'[r].pc \in {"away", "in"} => staging'[r] # None
  BY <1>11 DEF MoveIn, GoTo, Trespass, Shaped, CallState, dirs, Finished, AfterRecovery, PutBack
<1>12. ASSUME NEW p \in Ops, Discard(p) PROVE \A r \in Ops : op'[r].pc \in {"away", "in"} => staging'[r] # None
  BY <1>12, DiscardStep DEF CallKept
<1>13. ASSUME NEW p \in Ops, AppendLog(p) PROVE \A r \in Ops : op'[r].pc \in {"away", "in"} => staging'[r] # None
  BY <1>13 DEF AppendLog, GoTo, Shaped, CallState, dirs, Finished, AfterRecovery
<1>14. ASSUME NEW p \in Ops, End(p) PROVE \A r \in Ops : op'[r].pc \in {"away", "in"} => staging'[r] # None
  BY <1>14 DEF End, GoTo, ReleaseBy, Shaped, CallState, dirs, Finished, AfterRecovery
<1>15. ASSUME NEW p \in Ops, Fail(p) PROVE \A r \in Ops : op'[r].pc \in {"away", "in"} => staging'[r] # None
  BY <1>15 DEF Fail, GoTo, ReleaseBy, Shaped, CallState, dirs, Finished, AfterRecovery
<1>16. ASSUME NEW p \in Ops, Heartbeat(p) PROVE \A r \in Ops : op'[r].pc \in {"away", "in"} => staging'[r] # None
  BY <1>16 DEF Heartbeat, Shaped, CallState, dirs, Finished, AfterRecovery
<1>17. ASSUME NEW p \in Ops, Crash(p) PROVE \A r \in Ops : op'[r].pc \in {"away", "in"} => staging'[r] # None
  BY <1>17 DEF Crash, GoTo, Shaped, CallState, dirs, Finished, AfterRecovery
<1> QED BY <1>1, <1>2, <1>3, <1>4, <1>5, <1>6, <1>7, <1>8, <1>9, <1>10, <1>11, <1>12, <1>13, <1>14, <1>15, <1>16, <1>17, <1>18 DEF Next, Step, Recover

LEMMA TracedNext == ASSUME IInv, Next, NEW r \in Ops PROVE Traced(r)'
<1>1. \A q \in Ops : Traced(q)
  BY DEF IInv
<1>2. backup'[r] # None => op'[r].pc \in After
  BY <1>1, AfterStays, BackupsMade DEF Traced, After
<1>3. ASSUME NEW q \in Ops, r \in op'[q].scan.old PROVE op'[r].pc \in After
  <2>1. r \in op[q].scan.old \/ backup[r] # None
    BY <1>3, OldRecorded DEF Backups
  <2> QED BY <1>1, <2>1, AfterStays DEF Traced
<1> QED BY <1>2, <1>3, StagingKept DEF Traced

LEMMA BeforeWas == ASSUME IInv, Next PROVE \A q \in Ops : op'[q].pc \in Before => op[q].pc \in Before
<1>0. op \in [Ops -> CallState]
  BY DEF IInv, Shaped
<1> USE <1>0
<1>1. CASE Expire
  BY <1>1 DEF Expire, Before, Finished, CallState, AfterRecovery
<1>2. ASSUME NEW p \in Ops, Begin(p) PROVE \A q \in Ops : op'[q].pc \in Before => op[q].pc \in Before
  BY <1>2 DEF Begin, Before, Finished, CallState, AfterRecovery
<1>3. ASSUME NEW p \in Ops, Acquire(p) PROVE \A q \in Ops : op'[q].pc \in Before => op[q].pc \in Before
  BY <1>3 DEF Acquire, GoTo, Before, Finished, CallState, AfterRecovery
<1>4. ASSUME NEW p \in Ops, Scan(p) PROVE \A q \in Ops : op'[q].pc \in Before => op[q].pc \in Before
  BY <1>4 DEF Scan, Before, Finished, CallState, AfterRecovery
<1>5. ASSUME NEW p \in Ops, Stat(p) PROVE \A q \in Ops : op'[q].pc \in Before => op[q].pc \in Before
  BY <1>5 DEF Stat, GoTo, Before, Finished, CallState, AfterRecovery
<1>6. ASSUME NEW p \in Ops, Restore(p) PROVE \A q \in Ops : op'[q].pc \in Before => op[q].pc \in Before
  BY <1>6 DEF Restore, RecoveryFails, GoTo, Unguarded, Before, Finished, CallState, AfterRecovery
<1>7. ASSUME NEW p \in Ops, Clean(p) PROVE \A q \in Ops : op'[q].pc \in Before => op[q].pc \in Before
  BY <1>7, CleanStep DEF CallKept, Before, Finished
<1>18. ASSUME NEW p \in Ops, CleanStaging(p) PROVE \A q \in Ops : op'[q].pc \in Before => op[q].pc \in Before
  BY <1>18 DEF CleanStaging, Before, Finished, CallState, AfterRecovery
<1>8. ASSUME NEW p \in Ops, InitializeSpace(p) PROVE \A q \in Ops : op'[q].pc \in Before => op[q].pc \in Before
  BY <1>8 DEF InitializeSpace, GoTo, Unguarded, Before, Finished, CallState, AfterRecovery,
              NewDir
<1>9. ASSUME NEW p \in Ops, Copy(p) PROVE \A q \in Ops : op'[q].pc \in Before => op[q].pc \in Before
  BY <1>9 DEF Copy, GoTo, Before, Finished, CallState, AfterRecovery, NewDir
<1>10. ASSUME NEW p \in Ops, MoveAway(p) PROVE \A q \in Ops : op'[q].pc \in Before => op[q].pc \in Before
  BY <1>10 DEF MoveAway, GoTo, Trespass, Before, Finished, CallState, AfterRecovery
<1>11. ASSUME NEW p \in Ops, MoveIn(p) PROVE \A q \in Ops : op'[q].pc \in Before => op[q].pc \in Before
  BY <1>11 DEF MoveIn, GoTo, Trespass, Before, Finished, CallState, AfterRecovery, PutBack
<1>12. ASSUME NEW p \in Ops, Discard(p) PROVE \A q \in Ops : op'[q].pc \in Before => op[q].pc \in Before
  BY <1>12, DiscardStep DEF CallKept, Before, Finished
<1>13. ASSUME NEW p \in Ops, AppendLog(p) PROVE \A q \in Ops : op'[q].pc \in Before => op[q].pc \in Before
  BY <1>13 DEF AppendLog, GoTo, Before, Finished, CallState, AfterRecovery
<1>14. ASSUME NEW p \in Ops, End(p) PROVE \A q \in Ops : op'[q].pc \in Before => op[q].pc \in Before
  BY <1>14 DEF End, GoTo, ReleaseBy, Before, Finished, CallState, AfterRecovery
<1>15. ASSUME NEW p \in Ops, Fail(p) PROVE \A q \in Ops : op'[q].pc \in Before => op[q].pc \in Before
  BY <1>15 DEF Fail, GoTo, ReleaseBy, Before, Finished, CallState, AfterRecovery
<1>16. ASSUME NEW p \in Ops, Heartbeat(p) PROVE \A q \in Ops : op'[q].pc \in Before => op[q].pc \in Before
  BY <1>16 DEF Heartbeat, Before, Finished, CallState, AfterRecovery
<1>17. ASSUME NEW p \in Ops, Crash(p) PROVE \A q \in Ops : op'[q].pc \in Before => op[q].pc \in Before
  BY <1>17 DEF Crash, GoTo, Before, Finished, CallState, AfterRecovery
<1> QED BY <1>1, <1>2, <1>3, <1>4, <1>5, <1>6, <1>7, <1>8, <1>9, <1>10, <1>11, <1>12, <1>13, <1>14, <1>15, <1>16, <1>17, <1>18 DEF Next, Step, Recover

LEMMA UnseenNext == ASSUME IInv, Next PROVE \A q \in Ops : Unseen(q)'
<1>0. Shaped /\ \A q \in Ops : Traced(q) /\ Placed(q) /\ Unseen(q)
  BY DEF IInv
<1> USE <1>0, NoneAssumption
<1>1. CASE Expire
  BY <1>1 DEF Expire, Shaped, Unseen, Dir, dirs, CallState, Before, Finished, AfterRecovery
<1>2. ASSUME NEW p \in Ops, Begin(p) PROVE \A q \in Ops : Unseen(q)'
  BY <1>2 DEF Begin, Shaped, Unseen, Dir, dirs, CallState, Before, Finished, AfterRecovery
<1>3. ASSUME NEW p \in Ops, Acquire(p) PROVE \A q \in Ops : Unseen(q)'
  BY <1>3 DEF Acquire, GoTo, Shaped, Unseen, Dir, dirs, CallState, Before, Finished, AfterRecovery
<1>4. ASSUME NEW p \in Ops, Scan(p) PROVE \A q \in Ops : Unseen(q)'
  BY <1>4 DEF Scan, Shaped, Unseen, Dir, dirs, CallState, Before, Finished, AfterRecovery
<1>5. ASSUME NEW p \in Ops, Stat(p) PROVE \A q \in Ops : Unseen(q)'
  BY <1>5 DEF Stat, GoTo, Shaped, Unseen, Dir, dirs, CallState, Before, Finished, AfterRecovery
<1>6. ASSUME NEW p \in Ops, Restore(p) PROVE \A q \in Ops : Unseen(q)'
  <2>1. staging' = staging /\ \A q \in Ops : backup'[q] \in {backup[q], None}
    BY <1>6 DEF Restore, RecoveryFails, dirs, Shaped
  <2>2. op[p].scan.first \in Ops
    BY <1>6 DEF Restore, Placed, Shaped, CallState
  <2>3. wiki' = wiki \/ \E b \in Ops : backup[b] # None /\ wiki' = backup[b]
    BY <1>6, <2>2 DEF Restore, RecoveryFails, dirs
  <2> QED BY <2>1, <2>3, BeforeWas DEF Unseen
<1>7. ASSUME NEW p \in Ops, Clean(p) PROVE \A q \in Ops : Unseen(q)'
  BY <1>7, CleanStep DEF CallKept, Unseen, BackupsShrink, Before, Finished
<1>18. ASSUME NEW p \in Ops, CleanStaging(p) PROVE \A q \in Ops : Unseen(q)'
  BY <1>18 DEF CleanStaging, Shaped, Unseen, Dir, dirs, CallState, Before, Finished, AfterRecovery
<1>8. ASSUME NEW p \in Ops, InitializeSpace(p) PROVE \A q \in Ops : Unseen(q)'
  BY <1>8 DEF InitializeSpace, GoTo, Unguarded, Shaped, Unseen, Dir, dirs, CallState, Before,
              Finished, AfterRecovery, NewDir
<1>9. ASSUME NEW p \in Ops, Copy(p) PROVE \A q \in Ops : Unseen(q)'
  BY <1>9 DEF Copy, GoTo, Shaped, Unseen, Dir, dirs, CallState, Before, Finished,
              AfterRecovery, NewDir
<1>10. ASSUME NEW p \in Ops, MoveAway(p) PROVE \A q \in Ops : Unseen(q)'
  BY <1>10 DEF MoveAway, GoTo, Trespass, Shaped, Unseen, Dir, dirs, CallState, Before, Finished, AfterRecovery
<1>11. ASSUME NEW p \in Ops, MoveIn(p) PROVE \A q \in Ops : Unseen(q)'
  <2>1. CASE wiki' = staging[p] /\ op'[p].pc = "discard" /\ backup' = backup
    <3>1. \A q \in Ops : staging'[q] \in {staging[q], None}
      BY <1>11 DEF MoveIn, Shaped, PutBack, GoTo
    <3>2. staging[p] # None /\ op'[p].pc \notin Before
      BY <1>11, <2>1 DEF MoveIn, Traced, Before, Finished, PutBack, GoTo
    <3> QED BY <2>1, <3>1, <3>2, BeforeWas DEF Unseen
  <2>2. CASE staging' = staging /\ backup' = backup /\ wiki' = wiki
    BY <2>2, BeforeWas DEF Unseen
  <2>3. CASE staging' = staging /\ wiki' = backup[p] /\ backup' = [backup EXCEPT ![p] = None]
             /\ backup[p] # None
    <3>1. \A q \in Ops : backup'[q] \in {backup[q], None}
      BY <2>3 DEF Shaped
    <3>2. ASSUME NEW r \in Ops, op'[r].pc \in Before PROVE Unseen(r)'
      <4>1. op[r].pc \in Before /\ Unseen(r)
        BY <3>2, BeforeWas
      <4> QED BY <2>3, <3>1, <4>1 DEF Unseen
    <3> QED BY <3>2 DEF Unseen
  <2>4. \/ wiki' = staging[p] /\ GoTo(p, "discard") /\ backup' = backup
        \/ staging' = staging /\ backup' = backup /\ wiki' = wiki
        \/ staging' = staging /\ wiki' = backup[p] /\ backup' = [backup EXCEPT ![p] = None]
           /\ backup[p] # None
    BY <1>11 DEF MoveIn, PutBack, GoTo
  <2>5. GoTo(p, "discard") => op'[p].pc = "discard"
    BY DEF GoTo, Shaped, CallState
  <2> QED BY <2>1, <2>2, <2>3, <2>4, <2>5
<1>12. ASSUME NEW p \in Ops, Discard(p) PROVE \A q \in Ops : Unseen(q)'
  BY <1>12, DiscardStep DEF CallKept, Unseen, BackupsShrink, Before, Finished
<1>13. ASSUME NEW p \in Ops, AppendLog(p) PROVE \A q \in Ops : Unseen(q)'
  BY <1>13 DEF AppendLog, GoTo, Shaped, Unseen, Dir, dirs, CallState, Before, Finished, AfterRecovery
<1>14. ASSUME NEW p \in Ops, End(p) PROVE \A q \in Ops : Unseen(q)'
  BY <1>14 DEF End, GoTo, ReleaseBy, Shaped, Unseen, Dir, dirs, CallState, Before, Finished, AfterRecovery
<1>15. ASSUME NEW p \in Ops, Fail(p) PROVE \A q \in Ops : Unseen(q)'
  BY <1>15 DEF Fail, GoTo, ReleaseBy, Shaped, Unseen, Dir, dirs, CallState, Before, Finished, AfterRecovery
<1>16. ASSUME NEW p \in Ops, Heartbeat(p) PROVE \A q \in Ops : Unseen(q)'
  BY <1>16 DEF Heartbeat, Shaped, Unseen, Dir, dirs, CallState, Before, Finished, AfterRecovery
<1>17. ASSUME NEW p \in Ops, Crash(p) PROVE \A q \in Ops : Unseen(q)'
  BY <1>17 DEF Crash, GoTo, Shaped, Unseen, Dir, dirs, CallState, Before, Finished, AfterRecovery
<1> QED BY <1>1, <1>2, <1>3, <1>4, <1>5, <1>6, <1>7, <1>8, <1>9, <1>10, <1>11, <1>12, <1>13, <1>14, <1>15, <1>16, <1>17, <1>18 DEF Next, Step, Recover

-----------------------------------------------------------------------------
\* How a step may change wiki/ and the backups.
Restores(q) ==
    LET b == op[q].scan.first IN
    /\ Restore(q) /\ wiki = None /\ b \in Ops /\ backup[b] # None
    /\ wiki' = backup[b] /\ backup' = [backup EXCEPT ![b] = None]

\* Whose backup a call is removing.
Removing(q, b) ==
    \/ op[q].pc = "clean" /\ b \in op[q].scan.old
    \/ op[q].pc = "discard" /\ b = q

Removes(q) ==
    /\ Clean(q) \/ Discard(q)
    /\ wiki' = wiki
    /\ \E b \in Ops : Removing(q, b) /\ backup' = [backup EXCEPT ![b] = None]

RemovesPart(q) ==
    /\ Clean(q) \/ Discard(q)
    /\ wiki' = wiki
    /\ \E b \in Ops, at \in Nat :
         /\ Removing(q, b) /\ backup[b] # None
         /\ backup' = [backup EXCEPT ![b] = [has |-> {}, at |-> at, whole |-> FALSE]]
    /\ harm' = harm \cup PartNewest(wiki, backup')

MovesAway(q) ==
    MoveAway(q) /\ wiki # None /\ wiki' = None /\ backup' = [backup EXCEPT ![q] = wiki]

MovesIn(q) == MoveIn(q) /\ GoTo(q, "discard") /\ wiki = None /\ wiki' = staging[q] /\ backup' = backup

PutsBack(q) ==
    /\ op[q].pc \in {"in", "discard"} /\ GoTo(q, "fail") /\ wiki = None /\ backup[q] # None
    /\ wiki' = backup[q] /\ backup' = [backup EXCEPT ![q] = None]
    /\ harm' = harm \cup Trespass(q)

Initializes(q) == InitializeSpace(q) /\ wiki = None /\ wiki' \in Dir /\ backup' = backup

LEMMA DirSteps ==
    ASSUME IInv, Next
    PROVE  \/ UNCHANGED <<wiki, backup>>
           \/ \E q \in Ops : \/ Restores(q) \/ Removes(q) \/ RemovesPart(q) \/ MovesAway(q)
                             \/ MovesIn(q) \/ PutsBack(q) \/ Initializes(q)
<1>1. CASE Expire
  BY <1>1 DEF Expire, dirs
<1>2. ASSUME NEW q \in Ops, Restore(q) PROVE UNCHANGED <<wiki, backup>> \/ Restores(q)
  <2>1. op[q].scan.first \in Ops
    BY <1>2 DEF Restore, IInv, Placed, Shaped, CallState
  <2> QED BY <1>2, <2>1 DEF Restore, Restores, RecoveryFails, dirs
<1>3. ASSUME NEW q \in Ops, Clean(q)
      PROVE  UNCHANGED <<wiki, backup>> \/ Removes(q) \/ RemovesPart(q)
  <2>1. PICK b \in op[q].scan.old :
           \/ RemovePart(b)
           \/ RemoveRest(b)
           \/ UNCHANGED dirs
    BY <1>3 DEF Clean, RecoveryFails
  <2>2. op[q].pc = "clean" /\ wiki' = wiki /\ b \in Ops
    BY <1>3 DEF Clean, IInv, Shaped, CallState
  <2>3. CASE RemovePart(b)
    BY <1>3, <2>2, <2>3, PartOf DEF RemovesPart, Removing, IInv
  <2>4. CASE RemoveRest(b)
    BY <1>3, <2>2, <2>4 DEF Removes, Removing, RemoveRest
  <2>5. CASE UNCHANGED dirs
    BY <2>5 DEF dirs
  <2> QED BY <2>1, <2>3, <2>4, <2>5
<1>8. ASSUME NEW q \in Ops, Discard(q)
      PROVE  UNCHANGED <<wiki, backup>> \/ Removes(q) \/ RemovesPart(q) \/ PutsBack(q)
  <2>1. CASE RemovePart(q) /\ UNCHANGED wiki
    BY <1>8, <2>1, PartOf DEF RemovesPart, Removing, Discard, IInv
  <2>2. CASE RemoveRest(q) /\ UNCHANGED wiki
    BY <1>8, <2>2 DEF Removes, Removing, RemoveRest, Discard
  <2>3. CASE PutBack(q) /\ harm' = harm \cup Trespass(q)
    BY <1>8, <2>3 DEF PutBack, PutsBack, Discard
  <2> QED BY <1>8, <2>1, <2>2, <2>3 DEF Discard
<1>4. ASSUME NEW q \in Ops, MoveAway(q) PROVE UNCHANGED <<wiki, backup>> \/ MovesAway(q)
  BY <1>4 DEF MoveAway, MovesAway
<1>5. ASSUME NEW q \in Ops, MoveIn(q) PROVE UNCHANGED <<wiki, backup>> \/ MovesIn(q) \/ PutsBack(q)
  BY <1>5 DEF MoveIn, MovesIn, PutsBack, PutBack, GoTo
<1>6. ASSUME NEW q \in Ops, InitializeSpace(q) PROVE UNCHANGED <<wiki, backup>> \/ Initializes(q)
  BY <1>6, NewDirs DEF InitializeSpace, Initializes, IInv
<1>7. ASSUME NEW q \in Ops,
             \/ Begin(q) \/ Acquire(q) \/ Scan(q) \/ Stat(q) \/ CleanStaging(q) \/ Copy(q) \/ AppendLog(q) \/ End(q)
             \/ Fail(q) \/ Heartbeat(q) \/ Crash(q)
      PROVE  UNCHANGED <<wiki, backup>>
  BY <1>7 DEF Begin, Acquire, Scan, Stat, CleanStaging, Copy, AppendLog, End, Fail, Heartbeat, Crash, dirs,
              NewDir
<1> QED BY <1>1, <1>2, <1>3, <1>4, <1>5, <1>6, <1>7, <1>8 DEF Next, Step, Recover

\* Unless a window is hit, only the owner of the lease swaps.
LEMMA OwnersSwap ==
    ASSUME IInv, NEW q \in Ops, MovesAway(q) \/ MoveIn(q) \/ PutsBack(q), harm' = {}
    PROVE  Owns(q)
<1>1. op[q].pc \in {"away", "in", "discard"} /\ (Owns(q) \/ ~ op[q].slept)
  <2>1. op[q].pc \in {"away", "in", "discard"} /\ Trespass(q) \subseteq harm'
    BY DEF MovesAway, MoveAway, MoveIn, PutsBack
  <2> QED BY <2>1 DEF Trespass
<1>2. op[q].held /\ Running(q)
  BY <1>1 DEF IInv, Placed, Running, Finished
<1> QED BY <1>1, <1>2 DEF IInv, Leased

\* Who recovers without the lease restores the newest backup, or hits the window.
LEMMA RestoresLast ==
    ASSUME IInv, NEW q \in Ops, Restores(q), harm' = {}
    PROVE  LastAway(op[q].scan.first)
<1> DEFINE b == op[q].scan.first
<1>1. PICK m \in Ops : LastAway(m)
  BY DEF IInv, Reachable, Restores
<1>2. harm = {} /\ wiki = None /\ b \in Ops /\ backup[b] # None /\ op[q].pc = "restore"
  BY DEF Restores, Restore, Unguarded
<1>3. CASE b # m
  <2>1. backup[m] # None /\ backup[b].at < backup[m].at
    BY <1>1, <1>2, <1>3 DEF LastAway
  <2>2. backup[m].at \in Nat /\ backup[b].at \in Nat
    BY <1>2, <2>1 DEF IInv, Shaped, Dir
  <2>3. Owns(q) \/ (op[q].held /\ ~ op[q].slept)
    BY <1>2, <2>1, <2>2 DEF Restores, Restore, Unguarded, Backups
  <2>4. Owns(q)
    BY <1>2, <2>3 DEF IInv, Leased, Running, Finished
  <2>5. backup[m].at <= backup[b].at
    BY <1>2, <2>1, <2>4 DEF IInv, Writes
  <2> QED BY <2>1, <2>2, <2>5
<1> QED BY <1>1, <1>3

\* An empty wiki/ is made only where a swap has just moved one away.
LEMMA InitializesHarms ==
    ASSUME IInv, NEW q \in Ops, Initializes(q)
    PROVE  harm' # {}
<1>1. Backups # {}
  BY DEF IInv, Reachable, LastAway, Initializes, Backups
<1>2. ~ op[q].held /\ ~ Owns(q)
  BY DEF Initializes, InitializeSpace, IInv, Placed, Leased, NewDir
<1> QED BY <1>1, <1>2 DEF Initializes, InitializeSpace, Unguarded, NewDir

\* While wiki/ is away, the call that moved it away keeps its backup.
LEMMA LastAwayKept ==
    ASSUME IInv, Next, NEW m \in Ops, LastAway(m), wiki = None, wiki' = None
    PROVE  LastAway(m)' /\ backup'[m] = backup[m]
<1> USE NoneAssumption
<1>0. /\ op \in [Ops -> CallState] /\ \A q \in Ops : Placed(q)
      /\ op[m].pc \in {"in", "dead"} /\ \A q \in Ops : op[q].pc = "clean" => m \notin op[q].scan.old
  BY DEF IInv, Shaped, LastAway
<1>2. backup'[m] = backup[m]
  <2>1. ASSUME NEW q \in Ops, Removes(q) \/ RemovesPart(q) PROVE backup'[m] = backup[m]
    <3>1. ~ Removing(q, m)
      BY <1>0 DEF Removing
    <3> QED BY <2>1, <3>1 DEF Removes, RemovesPart, IInv, Shaped
  <2>2. ASSUME NEW q \in Ops PROVE ~ Restores(q) /\ ~ MovesAway(q) /\ ~ MovesIn(q) /\ ~ PutsBack(q) /\ ~ Initializes(q)
    <3>1. ~ Restores(q) /\ ~ MovesAway(q) /\ ~ PutsBack(q) /\ ~ Initializes(q)
      BY DEF Restores, MovesAway, PutsBack, Initializes
    <3>2. MovesIn(q) => staging[q] # None
      BY DEF MovesIn, MoveIn, IInv, Traced
    <3> QED BY <3>1, <3>2 DEF MovesIn
  <2>3. UNCHANGED backup \/ \E q \in Ops : Removes(q) \/ RemovesPart(q)
    BY <2>2, DirSteps
  <2> QED BY <2>1, <2>3
<1>1. ASSUME harm' = {}, NEW r \in Ops \ {m}, backup'[r] # None PROVE backup'[r].at < backup'[m].at
  <2>0. harm = {} /\ \A x \in Ops \ {m} : backup[x] # None => backup[x].at < backup[m].at
    BY <1>1, HarmGrows DEF LastAway
  <2>1. CASE backup'[r] = backup[r]
    BY <1>1, <1>2, <2>0, <2>1
  <2>2. ASSUME NEW q \in Ops, RemovesPart(q), backup'[r] # backup[r]
        PROVE  backup'[r].at < backup'[m].at
    <3>1. PICK b \in Ops, at \in Nat :
             /\ Removing(q, b) /\ backup[b] # None
             /\ backup' = [backup EXCEPT ![b] = [has |-> {}, at |-> at, whole |-> FALSE]]
      BY <2>2 DEF RemovesPart
    <3>2. b = r /\ backup'[r].at = at /\ ~ backup'[r].whole
      BY <2>2, <3>1 DEF IInv, Shaped
    <3>3. PartNewest(None, backup') = {}
      BY <1>1, <2>2 DEF RemovesPart
    <3>4. PICK x \in Ops : backup'[x] # None /\ backup'[x].whole /\ ~ (backup'[x].at <= at)
      BY <1>1, <3>2, <3>3 DEF PartNewest
    <3>5. x # r /\ backup'[x] = backup[x]
      BY <3>1, <3>2, <3>4 DEF IInv, Shaped
    <3>6. backup[x].at \in Nat /\ backup[m].at \in Nat /\ backup[x].at <= backup[m].at
      BY <1>0, <2>0, <3>4, <3>5 DEF IInv, Shaped, Dir, LastAway
    <3> QED BY <1>2, <3>2, <3>4, <3>5, <3>6
  <2>3. ASSUME NEW q \in Ops, Removes(q) PROVE backup'[r] = backup[r]
    BY <1>1, <2>3 DEF Removes, IInv, Shaped
  <2>4. ASSUME NEW q \in Ops PROVE ~ Restores(q) /\ ~ MovesAway(q) /\ ~ PutsBack(q) /\ ~ Initializes(q)
    BY DEF Restores, MovesAway, PutsBack, Initializes
  <2>5. ASSUME NEW q \in Ops PROVE MovesIn(q) => backup' = backup
    BY DEF MovesIn
  <2> QED BY <2>1, <2>2, <2>3, <2>4, <2>5, DirSteps
<1>3. op'[m].pc \in {"in", "dead"}
  <2>1. ASSUME NEW p \in Ops, MoveIn(p) PROVE op'[m].pc \in {"in", "dead"}
    <3>1. p # m
      BY <2>1 DEF MoveIn, IInv, Traced, LastAway, PutBack, GoTo
    <3> QED BY <1>0, <2>1, <3>1 DEF MoveIn, GoTo, CallState, PutBack
  <2>2. ASSUME NEW p \in Ops,
               \/ Begin(p) \/ Acquire(p) \/ Recover(p) \/ InitializeSpace(p) \/ Copy(p)
               \/ MoveAway(p) \/ Discard(p) \/ AppendLog(p) \/ End(p) \/ Fail(p)
        PROVE  op'[m] = op[m]
    <3>1. p # m
      BY <1>0, <2>2 DEF Begin, Acquire, Recover, Scan, Stat, Restore, Clean, CleanStaging,
                        InitializeSpace, Copy, MoveAway, Discard, AppendLog, End, Fail
    <3> QED BY <2>2, <3>1, OthersStay DEF Step
  <2>3. ASSUME NEW p \in Ops, Crash(p) \/ Heartbeat(p) PROVE op'[m].pc \in {"in", "dead"}
    BY <1>0, <2>3 DEF Crash, Heartbeat, GoTo, CallState
  <2>4. CASE Expire
    BY <1>0, <2>4 DEF Expire, CallState
  <2> QED BY <1>0, <2>1, <2>2, <2>3, <2>4 DEF Next, Step
<1>4. \A q \in Ops : op'[q].pc = "clean" => m \notin op'[q].scan.old
  <2>1. ASSUME NEW p \in Ops, Stat(p) PROVE op'[p].pc = "clean" => op'[p].scan.old = {}
    BY <1>0, <2>1 DEF Stat, GoTo, Placed, CallState
  <2>2. ASSUME NEW p \in Ops, NEW q \in Ops \ {p},
               Begin(p) \/ Step(p) \/ Heartbeat(p) \/ Crash(p)
        PROVE  op'[q] = op[q]
    BY <2>2, OthersStay
  <2>3. ASSUME NEW p \in Ops, NEW pc, pc # "clean", GoTo(p, pc) PROVE op'[p].pc # "clean"
    BY <1>0, <2>3 DEF GoTo, CallState
  <2>4. ASSUME NEW p \in Ops,
               \/ InitializeSpace(p) \/ Copy(p) \/ MoveAway(p) \/ MoveIn(p)
               \/ AppendLog(p) \/ End(p) \/ Fail(p) \/ Crash(p)
        PROVE  \E pc : pc # "clean" /\ GoTo(p, pc)
    BY <2>4 DEF InitializeSpace, Copy, MoveAway, MoveIn, PutBack, AppendLog, End, Fail, Crash
  <2>5. ASSUME NEW p \in Ops, Begin(p) \/ Acquire(p) \/ Scan(p) PROVE op'[p].pc # "clean"
    <3>1. CASE Begin(p)
      <4>1. PICK k \in Kinds :
               op' = [op EXCEPT ![p].kind = k, ![p].pc = IF k = "compile" THEN "scan" ELSE "acquire"]
        BY <3>1 DEF Begin
      <4> QED BY <1>0, <4>1 DEF CallState
    <3>2. CASE Acquire(p)
      BY <1>0, <3>2 DEF Acquire, GoTo, CallState
    <3>3. CASE Scan(p)
      BY <1>0, <3>3 DEF Scan, CallState
    <3> QED BY <2>5, <3>1, <3>2, <3>3
  <2>6. ASSUME NEW p \in Ops, Clean(p)
        PROVE  op[p].pc = "clean" /\ op'[p].scan.old \subseteq op[p].scan.old
    BY <2>6, CleanStep DEF CallKept
  <2>9. ASSUME NEW p \in Ops, CleanStaging(p) PROVE op'[p].pc # "clean"
    BY <1>0, <2>9 DEF CleanStaging, AfterRecovery, CallState
  <2>10. ASSUME NEW p \in Ops, Discard(p) PROVE op'[p].pc # "clean"
    BY <2>10, DiscardStep
  <2>7. ASSUME NEW p \in Ops, Restore(p) PROVE op'[p].pc # "clean"
    BY <1>0, <2>7 DEF Restore, RecoveryFails, GoTo, CallState
  <2>8. CASE Expire \/ \E p \in Ops : Heartbeat(p)
    BY <1>0, <2>8 DEF Expire, Heartbeat, CallState
  <2> QED BY <1>0, <2>1, <2>2, <2>3, <2>4, <2>5, <2>6, <2>7, <2>8, <2>9, <2>10 DEF Next, Step, Recover
<1> QED BY <1>1, <1>2, <1>3, <1>4, HarmGrows DEF LastAway

-----------------------------------------------------------------------------
\* The call that moves wiki/ away is the last one that did.
LEMMA MovedAwayLast ==
    ASSUME IInv, Next, NEW p \in Ops, MovesAway(p)
    PROVE  LastAway(p)' /\ backup'[p] = wiki
<1>1. op' = [op EXCEPT ![p].pc = "in"] /\ op[p].pc = "away"
  BY DEF MovesAway, MoveAway, GoTo
<1>2. backup'[p] = wiki /\ op'[p].pc = "in" /\ \A r \in Ops \ {p} : backup'[r] = backup[r]
  BY <1>1 DEF MovesAway, IInv, Shaped, CallState
<1>3. ASSUME NEW q \in Ops PROVE p \notin op'[q].scan.old
  <2>1. p \notin op[q].scan.old
    BY <1>1 DEF IInv, Traced, After, Finished
  <2>2. op'[q].scan.old = op[q].scan.old
    BY <1>1 DEF IInv, Shaped, CallState
  <2> QED BY <2>1, <2>2
<1>4. ASSUME harm' = {}, NEW r \in Ops \ {p}, backup'[r] # None PROVE backup'[r].at < backup'[p].at
  <2>1. harm = {} /\ wiki # None /\ PartNewest(None, backup') = {} /\ wiki \in Dir
    BY <1>4, HarmGrows, NoneAssumption DEF MovesAway, MoveAway, IInv, Shaped
  <2>2. CASE backup[r].whole
    BY <1>2, <1>4, <2>1, <2>2 DEF IInv, Ordered
  <2>3. CASE ~ backup[r].whole
    <3>1. PICK x \in Ops : /\ backup'[x] # None /\ backup'[x].whole
                           /\ ~ (backup'[x].at <= backup'[r].at)
      BY <1>2, <1>4, <2>1, <2>3 DEF PartNewest
    <3>2. backup'[x].at \in Nat /\ backup'[r].at \in Nat /\ wiki.at \in Nat
      BY <1>2, <1>4, <2>1, <3>1 DEF IInv, Shaped, Dir
    <3>3. x = p \/ backup'[x].at < wiki.at
      BY <1>2, <2>1, <3>1 DEF IInv, Ordered
    <3> QED BY <1>2, <3>1, <3>2, <3>3
  <2> QED BY <2>2, <2>3
<1>5. wiki # None
  BY DEF MovesAway
<1> QED BY <1>2, <1>3, <1>4, <1>5 DEF LastAway

LEMMA ReachableNext == ASSUME IInv, Next PROVE Reachable'
<1>1. CASE wiki = None
  BY <1>1, LastAwayKept DEF IInv, Reachable
<1>2. CASE wiki # None /\ wiki' = None
  <2>1. PICK q \in Ops : MovesAway(q)
    <3>1. ASSUME NEW q \in Ops
          PROVE  /\ ~ Restores(q) /\ ~ PutsBack(q) /\ ~ Initializes(q) /\ ~ MovesIn(q)
                 /\ ~ Removes(q) /\ ~ RemovesPart(q)
      BY <1>2 DEF Restores, Removes, RemovesPart, MovesIn, PutsBack, Initializes
    <3> QED BY <1>2, <3>1, DirSteps
  <2> QED BY <2>1, MovedAwayLast DEF Reachable
<1> QED BY <1>1, <1>2 DEF Reachable

LEMMA OrderedNext == ASSUME IInv, Next PROVE Ordered'
<1> SUFFICES ASSUME harm' = {}, wiki' # None, NEW r \in Ops, backup'[r] # None, backup'[r].whole
             PROVE  backup'[r].at < wiki'.at
  BY DEF Ordered
<1> USE NoneAssumption
<1>1. harm = {} /\ backup \in [Ops -> Dir \cup {None}]
  BY HarmGrows DEF IInv, Shaped
<1>2. CASE UNCHANGED <<wiki, backup>>
  BY <1>1, <1>2 DEF IInv, Ordered
<1>3. ASSUME NEW q \in Ops, Restores(q) PROVE backup'[r].at < wiki'.at
  BY <1>1, <1>3, RestoresLast DEF Restores, LastAway
<1>4. ASSUME NEW q \in Ops, Removes(q) PROVE backup'[r].at < wiki'.at
  BY <1>1, <1>4 DEF Removes, IInv, Ordered
<1>7. ASSUME NEW q \in Ops, RemovesPart(q) PROVE backup'[r].at < wiki'.at
  <2>1. backup'[r] = backup[r] /\ wiki' = wiki
    BY <1>1, <1>7 DEF RemovesPart
  <2> QED BY <1>1, <2>1 DEF IInv, Ordered
<1>5. ASSUME NEW q \in Ops, MovesIn(q) PROVE backup'[r].at < wiki'.at
  <2>1. Owns(q) /\ op[q].pc = "in" /\ wiki = None /\ staging[q] # None
    BY <1>5, OwnersSwap DEF MovesIn, MoveIn, IInv, Traced, PutBack, GoTo
  <2>2. LastAway(q) /\ backup[q].at < staging[q].at
    BY <1>1, <2>1 DEF IInv, Writes
  <2>3. backup[r].at \in Nat /\ backup[q].at \in Nat /\ staging[q].at \in Nat
    BY <1>1, <1>5, <2>1, <2>2 DEF MovesIn, LastAway, IInv, Shaped, Dir
  <2> QED BY <1>1, <1>5, <2>2, <2>3 DEF MovesIn, LastAway
<1>6. ASSUME NEW q \in Ops, PutsBack(q) PROVE backup'[r].at < wiki'.at
  <2>1. Owns(q) /\ op[q].pc = "in" /\ wiki = None
    BY <1>1, <1>6, OwnersSwap DEF PutsBack, IInv, Writes
  <2>2. LastAway(q)
    BY <1>1, <2>1 DEF IInv, Writes
  <2> QED BY <1>1, <1>6, <2>2 DEF PutsBack, LastAway
<1> QED BY <1>2, <1>3, <1>4, <1>5, <1>6, <1>7, DirSteps, InitializesHarms DEF MovesAway

\* While wiki/ is away, what is published is the backup of the call that moved it away.
PublishedIs ==
    Shaped /\ wiki = None /\ harm = {} =>
        \A m \in Ops : LastAway(m) => Published = backup[m].has

LEMMA LastIsPublished == PublishedIs
<1> SUFFICES ASSUME Shaped, wiki = None, harm = {}, NEW m \in Ops, LastAway(m)
             PROVE  Published = backup[m].has
  BY DEF PublishedIs
<1>1. m \in Backups /\ \A r \in Backups : backup[r].at \in Nat /\ (r # m => backup[r].at < backup[m].at)
  BY DEF LastAway, Backups, Shaped, Dir
<1>2. \A q \in Backups : (\A r \in Backups : backup[r].at <= backup[q].at) <=> q = m
  BY <1>1
<1>3. Newest(Backups) = m
  BY <1>1, <1>2 DEF Newest
<1> QED BY <1>1, <1>3 DEF Published

\* Unless a window is hit, a step publishes the changes of one call or none.
LEMMA PublishedNext ==
    ASSUME IInv, Next, harm' = {}
    PROVE  \/ Published' = Published
           \/ \E q \in Ops : /\ MovesIn(q) /\ q \notin Published
                             /\ Published' = Published \cup {q}
<1> USE NoneAssumption
<1>1. harm = {} /\ Shaped /\ Shaped'
  BY HarmGrows, ShapedNext DEF IInv
<1>2. CASE UNCHANGED <<wiki, backup>>
  BY <1>2 DEF Published, Backups, Newest
<1>3. ASSUME wiki = None, wiki' = None PROVE Published' = Published
  <2>1. PICK m \in Ops : LastAway(m)
    BY <1>3 DEF IInv, Reachable
  <2>2. LastAway(m)' /\ backup'[m] = backup[m]
    BY <1>3, <2>1, LastAwayKept
  <2>3. PublishedIs'
    BY LastIsPublished, PTL
  <2> QED BY <1>1, <1>3, <2>1, <2>2, <2>3, LastIsPublished DEF PublishedIs
<1>4. ASSUME wiki # None, wiki' = wiki PROVE Published' = Published
  BY <1>4 DEF Published
<1>5. ASSUME NEW q \in Ops, Restores(q) PROVE Published' = Published
  <2>1. wiki' # None /\ wiki' = backup[op[q].scan.first]
    BY <1>5 DEF Restores
  <2>2. LastAway(op[q].scan.first)
    BY <1>5, RestoresLast
  <2> QED BY <1>1, <1>5, <2>1, <2>2, LastIsPublished DEF PublishedIs, Restores, Published
<1>6. ASSUME NEW q \in Ops, MovesAway(q) PROVE Published' = Published
  <2>1. LastAway(q)' /\ backup'[q] = wiki
    BY <1>6, MovedAwayLast
  <2>2. PublishedIs'
    BY LastIsPublished, PTL
  <2> QED BY <1>1, <1>6, <2>1, <2>2 DEF PublishedIs, MovesAway, Published
<1>7. ASSUME NEW q \in Ops, MovesIn(q)
      PROVE  q \notin Published /\ Published' = Published \cup {q}
  <2>1. Owns(q) /\ op[q].pc = "in" /\ wiki = None /\ staging[q] # None
    BY <1>7, OwnersSwap DEF MovesIn, MoveIn, IInv, Traced, PutBack, GoTo
  <2>2. LastAway(q) /\ staging[q].has = backup[q].has \cup {q}
    BY <1>1, <2>1 DEF IInv, Writes
  <2>3. Published = backup[q].has /\ q \notin backup[q].has
    BY <1>1, <2>1, <2>2, LastIsPublished DEF PublishedIs, IInv, Unseen, LastAway, Before
  <2> QED BY <1>7, <2>1, <2>2, <2>3 DEF MovesIn, Published
<1>8. ASSUME NEW q \in Ops, PutsBack(q) PROVE Published' = Published
  <2>1. Owns(q) /\ op[q].pc = "in" /\ wiki = None
    BY <1>1, <1>8, OwnersSwap DEF PutsBack, IInv, Writes
  <2>2. LastAway(q)
    BY <1>1, <2>1 DEF IInv, Writes
  <2> QED BY <1>1, <1>8, <2>1, <2>2, LastIsPublished DEF PublishedIs, PutsBack, Published
<1>9. ASSUME NEW q \in Ops, Removes(q) \/ RemovesPart(q) PROVE Published' = Published
  <2>1. wiki' = wiki
    BY <1>9 DEF Removes, RemovesPart
  <2> QED BY <1>3, <1>4, <2>1
<1> QED
  BY <1>2, <1>5, <1>6, <1>7, <1>8, <1>9, DirSteps, InitializesHarms

-----------------------------------------------------------------------------
\* Who owns the lease after a step owned it before, or has just acquired it.
LEMMA OwnerStays ==
    ASSUME IInv, Next, NEW p \in Ops, Owns(p)'
    PROVE  Owns(p) \/ Acquire(p)
<1> USE NoneAssumption DEF Owns, NoLease
<1>1. CASE Expire
  BY <1>1 DEF Expire, IInv, Shaped
<1>2. ASSUME NEW q \in Ops, Acquire(q) PROVE Owns(p) \/ Acquire(p)
  <2>1. CASE q = p
    BY <1>2, <2>1
  <2>2. CASE q # p /\ UNCHANGED lease
    BY <2>2
  <2>3. CASE q # p /\ lease' = [owner |-> q, live |-> TRUE]
    BY <2>3
  <2> QED BY <1>2, <2>1, <2>2, <2>3 DEF Acquire
<1>3. ASSUME NEW q \in Ops, End(q) \/ Fail(q) PROVE Owns(p)
  BY <1>3 DEF End, Fail, ReleaseBy
<1>4. ASSUME NEW q \in Ops,
             \/ Begin(q) \/ Recover(q) \/ InitializeSpace(q) \/ Copy(q) \/ MoveAway(q) \/ MoveIn(q)
             \/ Discard(q) \/ AppendLog(q) \/ Heartbeat(q) \/ Crash(q)
      PROVE  Owns(p)
  BY <1>4 DEF Begin, Recover, Scan, Stat, Restore, Clean, InitializeSpace, Copy, MoveAway,
              MoveIn, Discard, AppendLog, Heartbeat, Crash, RemovePart, RemoveRest,
              CleanStaging, RecoveryFails, PutBack, GoTo, NewDir
<1> QED BY <1>1, <1>2, <1>3, <1>4 DEF Next, Step

\* The staging directory of a call that is about to swap is its own.
LEMMA StagingStays ==
    ASSUME IInv, Next, NEW p \in Ops, op[p].pc \in {"away", "in"}, op'[p].pc \in {"away", "in"}
    PROVE  staging'[p] = staging[p]
<1>1. op \in [Ops -> CallState] /\ staging \in [Ops -> Dir \cup {None}]
  BY DEF IInv, Shaped
<1>2. CASE Expire
  BY <1>2 DEF Expire, dirs
<1>3. ASSUME NEW q \in Ops, CleanStaging(q) PROVE staging'[p] = staging[p]
  BY <1>1, <1>3 DEF CleanStaging, Finished
<1>7. ASSUME NEW q \in Ops, Clean(q) \/ Discard(q) PROVE staging' = staging
  BY <1>7, CleanStep, DiscardStep
<1>4. ASSUME NEW q \in Ops, Copy(q) \/ Fail(q) PROVE staging'[p] = staging[p]
  BY <1>1, <1>4 DEF Copy, Fail, NewDir
<1>5. ASSUME NEW q \in Ops, MoveIn(q) PROVE staging'[p] = staging[p]
  BY <1>1, <1>5 DEF MoveIn, GoTo, CallState, PutBack
<1>6. ASSUME NEW q \in Ops,
             \/ Begin(q) \/ Acquire(q) \/ Scan(q) \/ Stat(q) \/ Restore(q) \/ InitializeSpace(q)
             \/ MoveAway(q) \/ AppendLog(q) \/ End(q) \/ Heartbeat(q) \/ Crash(q)
      PROVE  staging' = staging
  BY <1>6 DEF Begin, Acquire, Scan, Stat, Restore, RecoveryFails, InitializeSpace, MoveAway,
              AppendLog, End, Heartbeat, Crash, dirs
<1> QED BY <1>2, <1>3, <1>4, <1>5, <1>6, <1>7 DEF Next, Step, Recover

\* How a call comes to a place where it relies on what it has read.
LEMMA Arrivals ==
    ASSUME IInv, Next, NEW p \in Ops
    PROVE  /\ op'[p].pc = "away" => op[p].pc = "away" \/ Copy(p)
           /\ op'[p].pc = "in" => op[p].pc = "in" \/ MovesAway(p)
           /\ op'[p].pc = "discard" => op[p].pc = "discard" \/ MovesIn(p)
           /\ op'[p].pc \in {"stat", "restore"} =>
                 \/ op[p].pc \in {"stat", "restore"} /\ op'[p].scan = op[p].scan
                 \/ Scan(p)
<1>1. op \in [Ops -> CallState]
  BY DEF IInv, Shaped
<1>2. ASSUME NEW q \in Ops \ {p}, Begin(q) \/ Step(q) \/ Heartbeat(q) \/ Crash(q)
      PROVE  op'[p] = op[p]
  BY <1>2, OthersStay
<1>3. CASE Expire
  BY <1>1, <1>3 DEF Expire, CallState
<1>4. CASE Heartbeat(p)
  BY <1>1, <1>4 DEF Heartbeat, CallState
<1>5. CASE Begin(p) \/ Acquire(p) \/ Crash(p) \/ InitializeSpace(p) \/ Restore(p)
  <2>1. CASE Begin(p)
    <3>1. PICK k \in Kinds :
             op' = [op EXCEPT ![p].kind = k, ![p].pc = IF k = "compile" THEN "scan" ELSE "acquire"]
      BY <2>1 DEF Begin
    <3> QED BY <1>1, <3>1 DEF CallState
  <2>2. CASE Acquire(p)
    BY <1>1, <2>2 DEF Acquire, GoTo, CallState
  <2>3. CASE Crash(p) \/ InitializeSpace(p)
    BY <1>1, <2>3 DEF Crash, InitializeSpace, GoTo, CallState, NewDir
  <2>4. CASE Restore(p)
    BY <1>1, <2>4 DEF Restore, RecoveryFails, GoTo, CallState
  <2> QED BY <1>5, <2>1, <2>2, <2>3, <2>4
<1>6. CASE Stat(p)
  BY <1>1, <1>6 DEF Stat, GoTo, CallState
<1>7. CASE CleanStaging(p)
  BY <1>1, <1>7 DEF CleanStaging, AfterRecovery, CallState
<1>12. CASE Clean(p) \/ Discard(p)
  BY <1>12, CleanStep, DiscardStep
<1>13. CASE MoveIn(p)
  <2>1. GoTo(p, "fail") \/ MovesIn(p)
    BY <1>13 DEF MoveIn, PutBack, MovesIn
  <2> QED BY <1>1, <2>1 DEF MovesIn, GoTo, CallState
<1>8. CASE MoveAway(p)
  BY <1>1, <1>8 DEF MoveAway, MovesAway, GoTo, CallState
<1>9. CASE AppendLog(p) \/ End(p) \/ Fail(p)
  BY <1>1, <1>9 DEF AppendLog, End, Fail, GoTo, CallState
<1>10. CASE Copy(p)
  BY <1>1, <1>10 DEF Copy, GoTo, CallState, NewDir
<1>11. CASE Scan(p)
  BY ZenonT(60), <1>1, <1>11 DEF Scan, CallState
<1> QED
  BY <1>2, <1>3, <1>4, <1>5, <1>6, <1>7, <1>8, <1>9, <1>10, <1>11, <1>12, <1>13 DEF Next, Step, Recover

\* Nobody else moves wiki/ away while a call owns the lease.
LEMMA OwnerAlone ==
    ASSUME IInv, NEW p \in Ops, Owns(p), NEW q \in Ops, MovesAway(q) \/ MoveIn(q), harm' = {}
    PROVE  q = p
BY OwnersSwap DEF Owns

LEMMA WritesNext ==
    ASSUME IInv, Next, NEW p \in Ops
    PROVE  Writes(p)'
<1> SUFFICES ASSUME harm' = {}, Owns(p)'
    PROVE  /\ op'[p].pc = "away" =>
                 wiki' # None /\ staging'[p].has = wiki'.has \cup {p} /\ wiki'.at < staging'[p].at
           /\ op'[p].pc = "in" /\ wiki' = None =>
                 /\ LastAway(p)' /\ staging'[p].has = backup'[p].has \cup {p}
                 /\ backup'[p].at < staging'[p].at
           /\ op'[p].pc = "discard" => wiki' # None
           /\ op'[p].pc \in {"stat", "restore"} /\ wiki' = None => \A r \in Ops : backup'[r] # None =>
                 /\ op'[p].scan.first # None
                 /\ backup'[op'[p].scan.first] # None =>
                       backup'[r].at <= backup'[op'[p].scan.first].at
  BY DEF Writes
<1> USE NoneAssumption
<1>1. harm = {} /\ Shaped /\ Writes(p)
  BY HarmGrows DEF IInv
<1>2. Acquire(p) => op'[p].pc \notin {"away", "in", "discard", "stat", "restore"}
  BY <1>1 DEF Acquire, GoTo, Shaped, CallState
<1>3. CASE op'[p].pc = "away"
  <2>1. CASE Copy(p)
    <3>1. wiki # None /\ wiki' = wiki
          /\ staging' = [staging EXCEPT ![p] = [has |-> wiki.has \cup {p}, at |-> clock + 1,
                                               whole |-> TRUE]]
      BY <1>1, <1>3, <2>1 DEF Copy, GoTo, Shaped, CallState, NewDir
    <3>2. wiki.at \in Nat /\ wiki.at <= clock /\ clock \in Nat
      BY <1>1, <3>1 DEF Shaped, Dir, IInv, Dated
    <3> QED BY <1>1, <1>3, <3>1, <3>2 DEF Shaped
  <2>2. CASE op[p].pc = "away" /\ Owns(p)
    <3>1. wiki # None /\ staging[p].has = wiki.has \cup {p} /\ wiki.at < staging[p].at
      BY <1>1, <2>2 DEF Writes
    <3>2. ASSUME NEW q \in Ops PROVE ~ MovesAway(q)
      <4>1. SUFFICES ASSUME MovesAway(q) PROVE FALSE
        OBVIOUS
      <4>2. q = p
        BY <2>2, <4>1, OwnerAlone
      <4> QED BY <1>1, <1>3, <4>1, <4>2 DEF MovesAway, MoveAway, GoTo, Shaped, CallState
    <3>3. wiki' = wiki
      BY <3>1, <3>2, DirSteps DEF Restores, Removes, RemovesPart, MovesIn, PutsBack, Initializes
    <3> QED BY <1>3, <2>2, <3>1, <3>3, StagingStays
  <2> QED BY <1>2, <1>3, <2>1, <2>2, Arrivals, OwnerStays
<1>4. CASE op'[p].pc = "in" /\ wiki' = None
  <2>1. CASE MovesAway(p)
    <3>1. LastAway(p)' /\ backup'[p] = wiki /\ wiki # None
      BY <2>1, MovedAwayLast DEF MovesAway
    <3>2. op[p].pc = "away" /\ Owns(p)
      BY <2>1, OwnersSwap DEF MovesAway, MoveAway
    <3> QED BY <1>1, <1>4, <3>1, <3>2, StagingStays DEF Writes
  <2>2. CASE op[p].pc = "in" /\ Owns(p) /\ wiki = None
    BY <1>1, <1>4, <2>2, LastAwayKept, StagingStays DEF Writes
  <2>3. CASE op[p].pc = "in" /\ Owns(p) /\ wiki # None
    <3>1. PICK q \in Ops : MovesAway(q)
      BY <1>4, <2>3, DirSteps DEF Restores, Removes, RemovesPart, MovesIn, PutsBack, Initializes
    <3>2. q = p
      BY <2>3, <3>1, OwnerAlone
    <3> QED BY <2>3, <3>1, <3>2 DEF MovesAway, MoveAway
  <2> QED BY <1>2, <1>4, <2>1, <2>2, <2>3, Arrivals, OwnerStays
<1>6. CASE op'[p].pc = "discard"
  <2>1. CASE MovesIn(p)
    <3>1. op[p].pc = "in" /\ Traced(p)
      BY <2>1 DEF MovesIn, MoveIn, IInv
    <3> QED BY <1>6, <2>1, <3>1 DEF MovesIn, Traced
  <2>2. CASE op[p].pc = "discard" /\ Owns(p)
    <3>1. wiki # None
      BY <1>1, <2>2 DEF Writes
    <3>2. ASSUME NEW q \in Ops PROVE ~ MovesAway(q)
      BY <2>2, OwnerAlone DEF MovesAway, MoveAway
    <3>3. ASSUME wiki' = None, NEW q \in Ops
          PROVE  /\ ~ Restores(q) /\ ~ PutsBack(q) /\ ~ Initializes(q) /\ ~ MovesIn(q)
                 /\ ~ Removes(q) /\ ~ RemovesPart(q)
      BY <3>1, <3>3 DEF Restores, Removes, RemovesPart, MovesIn, PutsBack, Initializes
    <3> QED BY <1>6, <3>1, <3>2, <3>3, DirSteps
  <2> QED BY <1>2, <1>6, <2>1, <2>2, Arrivals, OwnerStays
<1>5. CASE op'[p].pc \in {"stat", "restore"} /\ wiki' = None
  <2>1. CASE Scan(p)
    <3>1. backup' = backup /\ (Backups # {} => op'[p].scan.first = Newest(Backups))
      BY <1>1, <2>1 DEF Scan, dirs, Shaped, CallState
    <3>2. Backups # {} => /\ Newest(Backups) \in Backups
                          /\ \A r \in Backups : backup[r].at <= backup[Newest(Backups)].at
      BY <1>1, NewestIsNewest DEF IInv
    <3>3. \A r \in Ops : backup[r] # None <=> r \in Backups
      BY DEF Backups
    <3>4. Backups \subseteq Ops
      BY DEF Backups
    <3> QED BY <1>5, <3>1, <3>2, <3>3, <3>4
  <2>2. CASE op[p].pc \in {"stat", "restore"} /\ op'[p].scan = op[p].scan /\ Owns(p)
    <3>1. ASSUME NEW q \in Ops PROVE ~ MovesAway(q)
      BY <2>2, OwnerAlone DEF MovesAway, MoveAway
    <3>2. wiki = None
      BY <1>5, <3>1, DirSteps DEF Restores, Removes, RemovesPart, MovesIn, PutsBack, Initializes
    <3>3. PICK m \in Ops : LastAway(m)
      BY <3>2 DEF IInv, Reachable
    <3>4. LastAway(m)' /\ backup'[m] = backup[m] /\ backup[m] # None
      BY <1>5, <3>2, <3>3, LastAwayKept DEF LastAway
    <3>5. op[p].scan.first # None /\ op[p].scan.first \in Ops
      BY <1>1, <2>2, <3>2, <3>4 DEF Writes, Shaped, CallState
    <3>6. ASSUME backup'[op[p].scan.first] # None PROVE op[p].scan.first = m
      <4>1. backup[op[p].scan.first] # None
        BY <1>1, <1>5, <3>1, <3>2, <3>5, <3>6, DirSteps
           DEF Restores, Removes, RemovesPart, MovesIn, PutsBack, Initializes, Shaped
      <4>2. backup[m].at <= backup[op[p].scan.first].at
        BY <1>1, <2>2, <3>2, <3>4, <4>1 DEF Writes
      <4>3. backup[m].at \in Nat /\ backup[op[p].scan.first].at \in Nat
        BY <1>1, <3>4, <3>5, <4>1 DEF Shaped, Dir
      <4> QED BY <1>1, <3>3, <3>5, <4>1, <4>2, <4>3 DEF LastAway
    <3>7. ASSUME NEW r \in Ops, backup'[r] # None PROVE backup'[r].at <= backup'[m].at
      <4>1. r = m \/ backup'[r].at < backup'[m].at
        BY <3>4, <3>7 DEF LastAway
      <4>2. backup'[r].at \in Nat /\ backup'[m].at \in Nat
        BY <3>4, <3>7, ShapedNext DEF Shaped, Dir
      <4> QED BY <4>1, <4>2
    <3>8. ASSUME NEW r \in Ops, backup'[r] # None
          PROVE  /\ op'[p].scan.first # None
                 /\ backup'[op'[p].scan.first] # None =>
                       backup'[r].at <= backup'[op'[p].scan.first].at
      BY <2>2, <3>5, <3>6, <3>7, <3>8
    <3> QED BY <1>5, <3>8
  <2> QED BY <1>2, <1>5, <2>1, <2>2, Arrivals, OwnerStays
<1> QED BY <1>3, <1>4, <1>5, <1>6

LEMMA KeptNext ==
    ASSUME IInv, Next, NEW p \in Ops
    PROVE  Kept(p)'
<1> SUFFICES ASSUME harm' = {}, op'[p].kind # "startup",
                    op'[p].pc \in {"discard", "append", "end", "ok"}
             PROVE  p \in Published'
  BY DEF Kept
<1>1. harm = {} /\ op \in [Ops -> CallState] /\ Kept(p) /\ Placed(p)
  BY HarmGrows DEF IInv, Shaped
<1>2. Published \subseteq Published' /\ (MovesIn(p) => p \in Published')
  <2>1. Published \subseteq Published'
    BY PublishedNext
  <2>2. MovesIn(p) => wiki' # None /\ Published' = wiki'.has /\ p \in wiki'.has
    <3> SUFFICES ASSUME MovesIn(p) PROVE wiki' # None /\ Published' = wiki'.has /\ p \in wiki'.has
      OBVIOUS
    <3>1. Owns(p) /\ op[p].pc = "in" /\ wiki = None /\ staging[p] # None
      BY OwnersSwap DEF MovesIn, MoveIn, IInv, Traced, PutBack, GoTo
    <3>2. staging[p].has = backup[p].has \cup {p}
      BY <1>1, <3>1 DEF IInv, Writes
    <3> QED BY <3>1, <3>2 DEF MovesIn, Published
  <2> QED BY <2>1, <2>2
<1>3. \/ op[p].pc \in {"discard", "append", "end", "ok"} /\ op[p].kind # "startup"
      \/ MovesIn(p)
  <2>1. ASSUME NEW q \in Ops \ {p}, Begin(q) \/ Step(q) \/ Heartbeat(q) \/ Crash(q)
        PROVE  op'[p] = op[p]
    BY <2>1, OthersStay
  <2>2. CASE Expire
    BY <1>1, <2>2 DEF Expire, CallState
  <2>3. CASE Heartbeat(p)
    BY <1>1, <2>3 DEF Heartbeat, CallState
  <2>4. CASE Begin(p) \/ Acquire(p) \/ Scan(p) \/ Crash(p)
    <3>1. CASE Begin(p)
      <4>1. PICK k \in Kinds :
               op' = [op EXCEPT ![p].kind = k, ![p].pc = IF k = "compile" THEN "scan" ELSE "acquire"]
        BY <3>1 DEF Begin
      <4> QED BY <1>1, <4>1 DEF CallState
    <3>2. CASE Acquire(p)
      BY <1>1, <3>2 DEF Acquire, GoTo, CallState
    <3>3. CASE Scan(p)
      BY <1>1, <3>3 DEF Scan, CallState
    <3>4. CASE Crash(p)
      BY <1>1, <3>4 DEF Crash, GoTo, CallState
    <3> QED BY <2>4, <3>1, <3>2, <3>3, <3>4
  <2>5. CASE Stat(p) \/ Restore(p) \/ InitializeSpace(p) \/ Copy(p) \/ MoveAway(p) \/ Fail(p)
    BY <1>1, <2>5 DEF Stat, Restore, RecoveryFails, InitializeSpace, Copy, MoveAway, Fail, GoTo,
              CallState, NewDir
  <2>6. CASE CleanStaging(p)
    BY <1>1, <2>6 DEF CleanStaging, AfterRecovery, Placed, CallState
  <2>9. CASE Clean(p) \/ Discard(p)
    BY <2>9, CleanStep, DiscardStep DEF CallKept
  <2>7. CASE MoveIn(p)
    <3>1. GoTo(p, "fail") \/ MovesIn(p)
      BY <2>7 DEF MoveIn, MovesIn, PutBack, GoTo
    <3> QED BY <1>1, <3>1 DEF GoTo, CallState
  <2>8. CASE AppendLog(p) \/ End(p)
    BY <1>1, <2>8 DEF AppendLog, End, GoTo, CallState
  <2> QED BY <2>1, <2>2, <2>3, <2>4, <2>5, <2>6, <2>7, <2>8, <2>9 DEF Next, Step, Recover
<1> QED BY <1>1, <1>2, <1>3 DEF Kept

-----------------------------------------------------------------------------
LEMMA NextIInv == IInv /\ [Next]_vars => IInv'
<1>1. ASSUME IInv, Next PROVE IInv'
  BY <1>1, ShapedNext, DatedNext, ReachableNext, OrderedNext, LeasedNext, PlacedNext, TracedNext,
     UnseenNext, WritesNext, KeptNext DEF IInv
<1>2. ASSUME IInv, UNCHANGED vars PROVE IInv'
  <2> USE <1>2 DEF vars
  <2>1. (Shaped /\ Dated /\ Reachable /\ Ordered)'
    BY DEF IInv, Shaped, Dated, Reachable, Ordered, LastAway
  <2>2. ASSUME NEW p \in Ops
        PROVE  (Leased(p) /\ Placed(p) /\ Traced(p) /\ Unseen(p) /\ Writes(p) /\ Kept(p))'
    BY SMTT(30) DEF IInv, Leased, Owns, Running, Placed, Traced, Unseen, Writes, LastAway, Kept, Published,
           Backups, Newest
  <2> QED BY <2>1, <2>2 DEF IInv
<1> QED BY <1>1, <1>2

LEMMA Inductive == Spec => []IInv
BY InitIInv, NextIInv, PTL DEF Spec

\* A publication that reported success stays published: crashes, failing renames and
\* leases that are taken over lose nothing unless one of the three named windows is
\* hit, and there is always a wiki/ or a backup to put in its place.
THEOREM NothingLostHolds == Spec => []NothingLost
<1>1. IInv => NothingLost
  BY DEF IInv, Reachable, LastAway, Kept, NothingLost, Backups
<1> QED BY <1>1, Inductive, PTL

\* The directory, its backups and the staging directories implement one register:
\* every step adds the changes of one call that were not there, or changes nothing.
THEOREM RegisterImplemented == Spec => IsRegister
<1>1. Init => Register!Init
  <2> SUFFICES ASSUME Init PROVE Register!Init
    OBVIOUS
  <2>1. wiki # None /\ wiki.has = {} /\ harm = {}
    <3>1. [has |-> {}, at |-> 0, whole |-> TRUE] \in Dir
      BY DEF Dir
    <3> QED BY <3>1, NoneAssumption DEF Init
  <2> QED BY <2>1 DEF Register!Init, Published
<1>2. IInv /\ [Next]_vars => [Register!Next]_(Register!vars)
  <2> SUFFICES ASSUME IInv, [Next]_vars PROVE [Register!Next]_(Register!vars)
    OBVIOUS
  <2> USE DEF Register!vars, Register!Next, Register!Publish, Register!Harm
  <2>1. CASE UNCHANGED vars
    BY <2>1 DEF vars, Published, Backups, Newest
  <2>2. CASE Next /\ harm' = {}
    <3>1. harm = {}
      BY <2>2, HarmGrows
    <3>2. ASSUME NEW q \in Ops, q \notin Published, Published' = Published \cup {q}
          PROVE  Register!Publish(q)
      BY <2>2, <3>1, <3>2
    <3> QED BY <2>2, <3>1, <3>2, PublishedNext
  <2>3. CASE Next /\ harm' # {} /\ harm = {}
    BY <2>3
  <2>4. CASE Next /\ harm' # {} /\ harm # {}
    BY <2>4
  <2> QED BY <2>1, <2>2, <2>3, <2>4
<1> QED BY <1>1, <1>2, Inductive, PTL DEF Spec, IsRegister, Register!Spec

=============================================================================
