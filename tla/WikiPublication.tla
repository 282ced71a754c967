---------------------------- MODULE WikiPublication ----------------------------
(***************************************************************************)
(* Publication of the wiki directory of one knowledge space.  A writer     *)
(* holds the lease row of the space (withWikiPublicationLease), copies     *)
(* wiki/ to a staging directory, changes the copy and swaps it in with two *)
(* renames (publishWikiDirectory).  recoverWikiPublicationArtifacts puts a *)
(* backup back when wiki/ is missing; the worker calls it at startup and   *)
(* before each compilation, there once WITHOUT the lease, and then makes   *)
(* an empty wiki/ when there still is none (initializeSpace).              *)
(*                                                                         *)
(* A directory is the set of publications whose changes it holds, its time *)
(* (the mtime: a rename does not change it, removing an entry does) and    *)
(* whether it is whole: a recursive removal that is under way, or was cut  *)
(* off, has left a part of it.                                             *)
(***************************************************************************)
EXTENDS Naturals, FiniteSets

CONSTANTS
    Ops,           \* calls; each is carried out once
    None,          \* no owner, no directory
    Kinds,         \* out of {"compile", "edit", "startup"}
    MaxFaults,     \* bound on faults
    MaxClock,      \* bound on the times a removal gives to what it leaves
    Faults         \* out of AllFaults

(* "crash"  the process dies                                                *)
(* "stall"  the process sleeps past the expiry of its lease                 *)
(* "io"     a rename, an rm or a heartbeat fails                            *)
AllFaults == {"crash", "stall", "io"}

ASSUME KindsAssumption  == Kinds \subseteq {"compile", "edit", "startup"}
ASSUME BoundsAssumption == MaxFaults \in Nat /\ MaxClock \in Nat /\ Faults \subseteq AllFaults

VARIABLES
    lease,         \* wiki_publication_lock: the owner, and whether it is unexpired
    wiki,          \* wiki/
    staging,       \* .wiki-staging-<uuid> of each call
    backup,        \* .wiki-backup-<uuid> of each call
    clock,         \* the latest time of a directory
    op,            \* the calls
    harm,          \* which of the three windows below was hit
    faults

vars == <<lease, wiki, staging, backup, clock, op, harm, faults>>
dirs == <<wiki, staging, backup, clock>>

Dir == [has : SUBSET Ops, at : Nat, whole : BOOLEAN]
ASSUME NoneAssumption == None \notin Ops /\ None \notin Dir

NoLease == [owner |-> None, live |-> FALSE]
NoDirs  == [p \in Ops |-> None]
NewDir(has) == [has |-> has, at |-> clock + 1, whole |-> TRUE]
NoScan  == [first |-> None, old |-> {}]

Init ==
    /\ lease = NoLease
    /\ wiki = [has |-> {}, at |-> 0, whole |-> TRUE]
    /\ staging = NoDirs /\ backup = NoDirs
    /\ clock = 0
    /\ op = [p \in Ops |-> [kind |-> "edit", pc |-> "idle", held |-> FALSE,
                        scan |-> NoScan, lost |-> FALSE, slept |-> FALSE]]
    /\ harm = {}
    /\ faults = 0

Faulty(f) == f \in Faults /\ faults < MaxFaults /\ faults' = faults + 1

GoTo(p, pc) == op' = [op EXCEPT ![p].pc = pc]

Finished == {"ok", "failed", "locked", "dead"}
Running(p) == op[p].pc \notin Finished \cup {"idle"}
Owns(p)    == lease.owner = p

Backups    == {q \in Ops : backup[q] # None}
Newest(ps) == CHOOSE q \in ps : \A r \in ps : backup[r].at <= backup[q].at

-------------------------------------------------------------------------------
(* rm(backup, { recursive: true, force: true }) deletes one entry after the *)
(* other and the directory last: others may act, and it may end, with a     *)
(* part of the directory left, which counts as holding nothing.  The        *)
(* entries deleted at the top give it a new time.                           *)

(* The third window: where wiki/ is away, such a part is the newest backup. *)
PartNewest(w, bs) ==
    IF w = None /\ \E q \in Ops : /\ bs[q] # None /\ ~bs[q].whole
                                 /\ \A r \in Ops : bs[r] # None /\ bs[r].whole => bs[r].at <= bs[q].at
    THEN {"part"} ELSE {}

RemovePart(q) ==
    /\ backup[q] # None
    /\ \E at \in {backup[q].at, clock + 1} :
         /\ at = backup[q].at \/ clock < MaxClock
         /\ backup' = [backup EXCEPT ![q] = [has |-> {}, at |-> at, whole |-> FALSE]]
         /\ clock' = IF at = backup[q].at THEN clock ELSE at
    /\ harm' = harm \cup PartNewest(wiki, backup')

RemoveRest(q) == backup' = [backup EXCEPT ![q] = None] /\ UNCHANGED <<clock, harm>>

-------------------------------------------------------------------------------
(* withWikiPublicationLease.                                                *)

Begin(p) ==
    /\ op[p].pc = "idle"
    /\ \E k \in Kinds :
         op' = [op EXCEPT ![p].kind = k,
                          ![p].pc = IF k = "compile" THEN "scan" ELSE "acquire"]
    /\ UNCHANGED <<lease, dirs, harm, faults>>

(* INSERT ... ON CONFLICT DO UPDATE WHERE expires_at <= now().  The startup *)
(* recovery gives a locked space up, the others fail.                       *)
Acquire(p) ==
    /\ op[p].pc = "acquire"
    /\ IF lease.owner = None \/ ~lease.live
       THEN /\ lease' = [owner |-> p, live |-> TRUE]
            /\ op' = [op EXCEPT ![p].held = TRUE,
                            ![p].pc = IF op[p].kind = "edit" THEN "copy" ELSE "scan"]
       ELSE GoTo(p, "locked") /\ UNCHANGED lease
    /\ UNCHANGED <<dirs, harm, faults>>

(* The timer's heartbeat: the lease is renewed only while it is one's own   *)
(* and unexpired, and never regained; an error counts as its loss.          *)
Heartbeat(p) ==
    /\ Running(p) /\ op[p].held /\ op[p].pc # "fail"
    /\ IF Owns(p) /\ lease.live THEN Faulty("io") ELSE UNCHANGED faults
    /\ ~op[p].lost
    /\ op' = [op EXCEPT ![p].lost = TRUE]
    /\ UNCHANGED <<lease, dirs, harm>>

(* DELETE ... WHERE owner_token = the caller's.                             *)
ReleaseBy(p) == lease' = IF Owns(p) THEN NoLease ELSE lease

(* work() has returned: what was lost meanwhile is an error now.            *)
End(p) ==
    /\ op[p].pc = "end"
    /\ ReleaseBy(p)
    /\ GoTo(p, IF op[p].lost THEN "failed" ELSE "ok")
    /\ UNCHANGED <<dirs, harm, faults>>

(* work() has thrown: the edits remove their staging directory, compileWiki *)
(* leaves its own behind.                                                   *)
Fail(p) ==
    /\ op[p].pc = "fail"
    /\ ReleaseBy(p)
    /\ staging' = IF op[p].kind = "edit" THEN [staging EXCEPT ![p] = None] ELSE staging
    /\ GoTo(p, "failed")
    /\ UNCHANGED <<wiki, backup, clock, harm, faults>>

-------------------------------------------------------------------------------
(* recoverWikiPublicationArtifacts, with the lease held and without it.     *)

(* Mutant: the oldest backup is taken for the newest.                       *)
ScanOldest(p) ==
    /\ op[p].pc = "scan"
    /\ \E old \in SUBSET Backups :
         op' = [op EXCEPT ![p].pc = "stat",
                          ![p].scan = [first |-> IF Backups = {} THEN None
                                                 ELSE CHOOSE q \in Backups :
                                                        \A r \in Backups : backup[q].at <= backup[r].at,
                                       old |-> old]]
    /\ UNCHANGED <<lease, dirs, harm, faults>>

(* The artifacts, and which are older than staleAfterMs: a backup can be,   *)
(* however briefly it has been one; the staging directory of a call that    *)
(* still runs cannot.                                                       *)
Scan(p) ==
    /\ op[p].pc = "scan"
    /\ \E old \in SUBSET Backups :
         op' = [op EXCEPT ![p].pc = "stat",
                          ![p].scan = [first |-> IF Backups = {} THEN None ELSE Newest(Backups),
                                       old |-> old]]
    /\ UNCHANGED <<lease, dirs, harm, faults>>

Stat(p) ==
    /\ op[p].pc = "stat"
    /\ GoTo(p, IF wiki = None /\ op[p].scan.first # None THEN "restore" ELSE "clean")
    /\ UNCHANGED <<lease, dirs, harm, faults>>

AfterRecovery(p) ==
    IF ~op[p].held THEN "init" ELSE IF op[p].kind = "compile" THEN "copy" ELSE "end"

RecoveryFails(p) ==
    GoTo(p, IF ~op[p].held THEN "failed" ELSE "fail") /\ UNCHANGED dirs

(* The first window: wiki/ is written without the lease while a swap has    *)
(* just moved a newer one away.                                             *)
Unguarded(p, passedOver) ==
    harm' = IF ~Owns(p) /\ wiki = None /\ passedOver /\ (op[p].slept \/ ~op[p].held)
            THEN harm \cup {IF op[p].held THEN "stall" ELSE "unleased"} ELSE harm

(* The newest backup of the scan back to wiki/.  It fails when that backup  *)
(* is gone (its owner put it back) or when wiki/ is there again.            *)
Restore(p) ==
    /\ op[p].pc = "restore"
    /\ LET b == op[p].scan.first
       IN  /\ IF wiki # None \/ backup[b] = None
              THEN RecoveryFails(p)
              ELSE /\ wiki' = backup[b]
                   /\ backup' = [backup EXCEPT ![b] = None]
                   /\ op' = [op EXCEPT ![p].pc = "clean", ![p].scan.old = @ \ {b}]
                   /\ UNCHANGED <<staging, clock>>
           /\ Unguarded(p, backup[b] # None /\ \E q \in Backups : backup[q].at > backup[b].at)
    /\ UNCHANGED <<lease, faults>>

(* The old backups are removed one by one; a failure ends the recovery.     *)
Clean(p) ==
    /\ op[p].pc = "clean"
    /\ \E q \in op[p].scan.old :
         \/ RemovePart(q) /\ UNCHANGED <<op, faults>>
         \/ /\ RemoveRest(q)
            /\ op' = [op EXCEPT ![p].scan.old = @ \ {q}]
            /\ UNCHANGED faults
         \/ Faulty("io") /\ RecoveryFails(p) /\ UNCHANGED harm
    /\ UNCHANGED <<lease, wiki, staging>>

(* So are the staging directories, those of calls that ended included.      *)
CleanStaging(p) ==
    /\ op[p].pc = "clean" /\ op[p].scan.old = {}
    /\ \E gone \in {{}, {q \in Ops : op[q].pc \in Finished}} :
         staging' = [q \in Ops |-> IF q \in gone THEN None ELSE staging[q]]
    /\ op' = [op EXCEPT ![p].pc = AfterRecovery(p), ![p].scan = NoScan]
    /\ UNCHANGED <<lease, wiki, backup, clock, harm, faults>>

(* initializeSpace: an empty wiki/ where there is none, even where a swap   *)
(* has just moved one away.                                                 *)
InitializeSpace(p) ==
    /\ op[p].pc = "init"
    /\ GoTo(p, "acquire")
    /\ IF wiki = None
       THEN /\ wiki' = NewDir({})
            /\ clock' = clock + 1
       ELSE UNCHANGED <<wiki, clock>>
    /\ Unguarded(p, Backups # {})
    /\ UNCHANGED <<lease, staging, backup, faults>>

-------------------------------------------------------------------------------
(* compileWiki, reviewWikiPage, ...: copyDirectory and the change.          *)
Copy(p) ==
    /\ op[p].pc = "copy"
    /\ clock' = clock + 1
    /\ IF wiki = None
       THEN /\ staging' = [staging EXCEPT ![p] = NewDir({})]
            /\ GoTo(p, "fail")
       ELSE /\ staging' = [staging EXCEPT ![p] = NewDir(wiki.has \cup {p})]
            /\ \E pc \in {"away", "fail"} : GoTo(p, pc)
    /\ UNCHANGED <<lease, wiki, backup, harm, faults>>

(* The second window: a rename after the lease has passed to another.       *)
Trespass(p) == IF ~Owns(p) /\ op[p].slept THEN {"stall"} ELSE {}

(* Mutant: rm(wikiRoot) in place of the rename.                             *)
MoveAwayRemoves(p) ==
    /\ op[p].pc = "away"
    /\ IF wiki = None
       THEN GoTo(p, "fail") /\ UNCHANGED <<wiki, harm>>
       ELSE /\ wiki' = None
            /\ harm' = harm \cup Trespass(p)
            /\ GoTo(p, "in")
    /\ UNCHANGED <<lease, staging, backup, clock, faults>>

(* publishWikiDirectory: rename(wikiRoot, backup).                          *)
MoveAway(p) ==
    /\ op[p].pc = "away"
    /\ IF wiki = None
       THEN GoTo(p, "fail") /\ UNCHANGED <<wiki, backup, harm>>
       ELSE /\ backup' = [backup EXCEPT ![p] = wiki]
            /\ wiki' = None
            /\ harm' = harm \cup Trespass(p) \cup PartNewest(None, backup')
            /\ GoTo(p, "in")
    /\ UNCHANGED <<lease, staging, clock, faults>>

(* The catch of publishWikiDirectory: the backup, or what is left of it, is *)
(* put back where wiki/ is missing; otherwise the rename fails unnoticed.   *)
PutBack(p) ==
    /\ GoTo(p, "fail")
    /\ IF wiki = None /\ backup[p] # None
       THEN wiki' = backup[p] /\ backup' = [backup EXCEPT ![p] = None]
       ELSE UNCHANGED <<wiki, backup>>

(* rename(staging, wikiRoot), which fails when wiki/ is not empty.          *)
MoveIn(p) ==
    /\ op[p].pc = "in"
    /\ \/ /\ wiki = None
          /\ wiki' = staging[p]
          /\ staging' = [staging EXCEPT ![p] = None]
          /\ GoTo(p, "discard")
          /\ UNCHANGED <<backup, faults>>
       \/ /\ IF wiki = None THEN Faulty("io") ELSE UNCHANGED faults
          /\ PutBack(p)
          /\ UNCHANGED staging
    /\ harm' = harm \cup Trespass(p)
    /\ UNCHANGED <<lease, clock>>

(* rm(backup); a failure fails the call, which is published.                *)
Discard(p) ==
    /\ op[p].pc = "discard"
    /\ \/ RemovePart(p) /\ UNCHANGED <<wiki, op, faults>>
       \/ RemoveRest(p) /\ GoTo(p, "append") /\ UNCHANGED <<wiki, faults>>
       \/ /\ Faulty("io") /\ PutBack(p)
          /\ harm' = harm \cup Trespass(p)
          /\ UNCHANGED clock
    /\ UNCHANGED <<lease, staging>>

(* The line in wiki/log.md.                                                 *)
AppendLog(p) ==
    /\ op[p].pc = "append"
    /\ GoTo(p, IF wiki = None THEN "fail" ELSE "end")
    /\ UNCHANGED <<lease, dirs, harm, faults>>

-------------------------------------------------------------------------------
(* The environment.                                                         *)

Crash(p) ==
    /\ Running(p)
    /\ Faulty("crash")
    /\ GoTo(p, "dead")
    /\ UNCHANGED <<lease, dirs, harm>>

(* A lease runs out when its owner is dead, or sleeps.                      *)
Expire ==
    /\ lease.owner # None /\ lease.live
    /\ IF op[lease.owner].pc \in Finished
       THEN UNCHANGED <<op, faults>>
       ELSE Faulty("stall") /\ op' = [op EXCEPT ![lease.owner].slept = TRUE]
    /\ lease' = [lease EXCEPT !.live = FALSE]
    /\ UNCHANGED <<dirs, harm>>

Recover(p) == Scan(p) \/ Stat(p) \/ Restore(p) \/ Clean(p) \/ CleanStaging(p)

Step(p) ==
    \/ Acquire(p) \/ Recover(p) \/ InitializeSpace(p) \/ Copy(p) \/ MoveAway(p)
    \/ MoveIn(p) \/ Discard(p) \/ AppendLog(p) \/ End(p) \/ Fail(p)

Next ==
    \/ Expire
    \/ \E p \in Ops : Begin(p) \/ Step(p) \/ Heartbeat(p) \/ Crash(p)

Spec == Init /\ [][Next]_vars

-------------------------------------------------------------------------------
TypeOK ==
    /\ lease \in [owner : Ops, live : BOOLEAN] \cup {NoLease}
    /\ wiki \in Dir \cup {None}
    /\ staging \in [Ops -> Dir \cup {None}]
    /\ backup \in [Ops -> Dir \cup {None}]
    /\ clock \in Nat /\ faults \in 0 .. MaxFaults
    /\ harm \subseteq {"unleased", "stall", "part"}
    /\ \A p \in Ops :
         /\ op[p].kind \in {"compile", "edit", "startup"}
         /\ op[p].pc \in Finished \cup
              {"idle", "acquire", "init", "scan", "stat", "restore", "clean", "copy", "away",
               "in", "discard", "append", "end", "fail"}
         /\ op[p].held \in BOOLEAN
         /\ op[p].scan \in [first : Ops \cup {None}, old : SUBSET Ops]
         /\ op[p].lost \in BOOLEAN /\ op[p].slept \in BOOLEAN

(* What a reader finds now, or after the next recovery.                     *)
Published ==
    IF wiki # None THEN wiki.has
    ELSE IF Backups # {} THEN backup[Newest(Backups)].has ELSE {}

(* A publication that reported success is in the wiki, or in the backup the *)
(* next recovery restores, for good: crashes, failing renames and leases    *)
(* taken over lose nothing unless one of the three windows is hit, and even *)
(* then there is a wiki/ or a backup to put in its place.                   *)
NothingLost ==
    /\ wiki # None \/ Backups # {}
    /\ harm = {} => \A p \in Ops :
          op[p].pc = "ok" /\ op[p].kind # "startup" => p \in Published

(* The wiki directory and its backups implement one register.               *)
Register == INSTANCE WikiRegister WITH
    content <- IF harm = {} THEN Published ELSE {},
    harmed  <- harm # {}

IsRegister == Register!Spec

===============================================================================
