------------------------------ MODULE StorageQuota ------------------------------
(***************************************************************************)
(* The storage account of one organization: reserveStorage and             *)
(* reserveDerivedStorageWrite lock the organization row, read the usage in *)
(* separate statements (READ COMMITTED) and insert a reservation; a write  *)
(* that succeeds turns the reservation into a resource version or a        *)
(* derived asset, one that fails releases it, one that dies leaves it to   *)
(* expire.  A transaction that holds the organization row excludes the     *)
(* others that lock it; persistUploadedResource does not lock it.          *)
(***************************************************************************)
EXTENDS Integers, FiniteSets, FiniteSetsExt

CONSTANTS
    Writers,       \* operations; each is carried out once
    Keys,          \* asset keys of derived writes
    None,          \* no writer
    Quota,         \* storage_quota_bytes
    Sizes,         \* sizes of uploads and derived assets
    MaxFaults,     \* bound on faults
    Faults         \* out of AllFaults

(* "failure"  the write or its commit throws                                *)
(* "crash"    the process dies                                              *)
(* "slow"     a write outlasts its reservation                              *)
AllFaults == {"failure", "crash", "slow"}

ASSUME FiniteAssumption == IsFiniteSet(Writers) /\ IsFiniteSet(Keys)
ASSUME QuotaAssumption  == Quota \in Nat /\ Sizes \subseteq Nat \ {0}
ASSUME NoneAssumption   == None \notin Writers \cup Keys
ASSUME BoundsAssumption == MaxFaults \in Nat /\ Faults \subseteq AllFaults

VARIABLES
    lock,          \* the writer whose transaction holds the organization row
    version,       \* size of the resource version each writer created, or 0
    asset,         \* derived_storage_asset: size recorded for each key, or 0
    reservation,   \* storage_reservation of each writer
    op,            \* the operations
    slipped,       \* bytes that escaped the account (see the three uses)
    faults         \* faults so far

vars == <<lock, version, asset, reservation, op, slipped, faults>>

NoReservation == [size |-> 0, live |-> FALSE]

Init ==
    /\ lock = None
    /\ version = [w \in Writers |-> 0]
    /\ asset = [k \in Keys |-> 0]
    /\ reservation = [w \in Writers |-> NoReservation]
    /\ op = [w \in Writers |->
                [pc |-> "idle", kind |-> "direct", key |-> None, size |-> 0, seen |-> 0]]
    /\ slipped = 0
    /\ faults = 0

Faulty(f) == f \in Faults /\ faults < MaxFaults /\ faults' = faults + 1

Total(f) == MapThenSumSet(LAMBDA x : f[x], DOMAIN f)

Used     == Total(version) + Total(asset)
Reserved == Total([w \in Writers |-> IF reservation[w].live THEN reservation[w].size ELSE 0])

Positive(n) == IF n > 0 THEN n ELSE 0

GoTo(w, pc) == op' = [op EXCEPT ![w] = [@ EXCEPT !.pc = pc]]

Active(w) == op[w].pc \notin {"idle", "done", "rejected", "failed", "dead"}

-------------------------------------------------------------------------------
(* storageUsageInTransaction and what follows it in the transaction.        *)

(* uploadResource, createChunkedUploadSession, reserveDerivedStorageWrite.  *)
Start(w) ==
    /\ op[w].pc = "idle"
    /\ \E size \in Sizes :
         \/ \E kind \in {"direct", "chunked"} :
              op' = [op EXCEPT ![w] = [@ EXCEPT !.pc = "lock", !.kind = kind, !.size = size]]
         \/ \E key \in Keys :
              op' = [op EXCEPT ![w] = [@ EXCEPT !.pc = "lock", !.kind = "derived",
                                                !.key = key, !.size = size]]
    /\ UNCHANGED <<lock, version, asset, reservation, slipped, faults>>

(* Mutant: without FOR UPDATE.                                              *)
ReadUsedUnlocked(w) ==
    /\ op[w].pc = "lock"
    /\ op' = [op EXCEPT ![w] = [@ EXCEPT !.pc = "reserved", !.seen = Used]]
    /\ UNCHANGED <<lock, version, asset, reservation, slipped, faults>>

(* SELECT ... FOR UPDATE of the organization, then the versions and, since  *)
(* they only change under the lock, the derived assets.                     *)
ReadUsed(w) ==
    /\ op[w].pc = "lock" /\ lock = None
    /\ lock' = w
    /\ op' = [op EXCEPT ![w] = [@ EXCEPT !.pc = "reserved", !.seen = Used]]
    /\ UNCHANGED <<version, asset, reservation, slipped, faults>>

ReadReserved(w) ==
    /\ op[w].pc = "reserved"
    /\ op' = [op EXCEPT ![w] = [@ EXCEPT !.pc = "decide",
                                       !.seen = op[w].seen + Reserved]]
    /\ UNCHANGED <<lock, version, asset, reservation, slipped, faults>>

(* Mutant: not clamped.                                                     *)
GrowthUnclamped(w) ==
    IF op[w].key \in Keys THEN op[w].size - asset[op[w].key] ELSE op[w].size

(* The bytes to reserve: for a derived asset what it grows by.              *)
Growth(w) ==
    IF op[w].key \in Keys THEN Positive(op[w].size - asset[op[w].key]) ELSE op[w].size

Reserve(w) ==
    /\ op[w].pc = "decide"
    /\ lock' = None
    /\ IF op[w].seen + Growth(w) > Quota
       THEN GoTo(w, "rejected") /\ UNCHANGED reservation
       ELSE /\ reservation' = [reservation EXCEPT ![w] = 
                                  [size |-> Growth(w), live |-> Growth(w) > 0]]
            /\ GoTo(w, "write")
    /\ UNCHANGED <<version, asset, slipped, faults>>

-------------------------------------------------------------------------------
(* The write and its end.                                                   *)

Released(w) == [reservation EXCEPT ![w] = NoReservation]

(* Bytes slip that become used between the two reads of another operation.  *)
SlipsReader(w) ==
    IF \E r \in Writers \ {w} : op[r].pc = "reserved" THEN op[w].size ELSE 0

(* Bytes slip that an asset grows by and nobody reserved, because it was    *)
(* larger when this writer asked.                                           *)
SlipsGrowth(w) == Positive(op[w].size - asset[op[w].key] - reservation[w].size)

(* persistUploadedResource: a chunked upload checks that its session, which *)
(* expires with its reservation, is not expired; a direct one does not.     *)
CommitUpload(w) ==
    /\ op[w].pc = "write" /\ op[w].kind \in {"direct", "chunked"}
    /\ op[w].kind = "chunked" => reservation[w].live
    /\ version' = [version EXCEPT ![w] = op[w].size]
    /\ reservation' = Released(w)
    /\ slipped' = slipped + SlipsReader(w)
    /\ GoTo(w, "done")
    /\ UNCHANGED <<lock, asset, faults>>

(* commit() locks the organization, upserts the asset and deletes the       *)
(* reservation in one transaction.                                          *)
CommitDerived(w) ==
    /\ op[w].pc = "write" /\ op[w].kind = "derived" /\ lock = None
    /\ asset' = [asset EXCEPT ![op[w].key] = op[w].size]
    /\ reservation' = Released(w)
    /\ slipped' = slipped + SlipsGrowth(w)
    /\ GoTo(w, "done")
    /\ UNCHANGED <<lock, version, faults>>

(* The blob store or the database throws, or the session has expired.       *)
WriteFails(w) ==
    /\ op[w].pc = "write"
    /\ \/ Faulty("failure")
       \/ op[w].kind = "chunked" /\ ~reservation[w].live /\ UNCHANGED faults
    /\ GoTo(w, "release")
    /\ UNCHANGED <<lock, version, asset, reservation, slipped>>

(* Mutant: the error path keeps the reservation.                            *)
ReleaseNothing(w) ==
    /\ op[w].pc = "release"
    /\ GoTo(w, "failed")
    /\ UNCHANGED <<lock, version, asset, reservation, slipped, faults>>

(* releaseStorageReservation, release().                                    *)
Release(w) ==
    /\ op[w].pc = "release"
    /\ reservation' = Released(w)
    /\ GoTo(w, "failed")
    /\ UNCHANGED <<lock, version, asset, slipped, faults>>

(* An open transaction is rolled back.                                      *)
Crash(w) ==
    /\ Active(w) /\ Faulty("crash")
    /\ lock' = IF lock = w THEN None ELSE lock
    /\ GoTo(w, "dead")
    /\ UNCHANGED <<version, asset, reservation, slipped>>

(* expiresAt passes: after fifteen minutes, a day for a chunked upload.     *)
(* The bytes slip that a writer is still about to use.                      *)
Expire(w) ==
    /\ reservation[w].live
    /\ \/ op[w].pc = "dead" /\ UNCHANGED <<slipped, faults>>
       \/ /\ op[w].pc # "dead" /\ Faulty("slow")
          /\ slipped' = slipped + reservation[w].size
    /\ reservation' = [reservation EXCEPT ![w] = [@ EXCEPT !.live = FALSE]]
    /\ UNCHANGED <<lock, version, asset, op>>

-------------------------------------------------------------------------------
Next ==
    \E w \in Writers :
        \/ Start(w) \/ ReadUsed(w) \/ ReadReserved(w) \/ Reserve(w)
        \/ CommitUpload(w) \/ CommitDerived(w) \/ WriteFails(w) \/ Release(w)
        \/ Crash(w) \/ Expire(w)

Spec == Init /\ [][Next]_vars

-------------------------------------------------------------------------------
(* Properties.                                                              *)

Steps == {"idle", "lock", "reserved", "decide", "write", "release",
          "done", "rejected", "failed", "dead"}

(* Every variable keeps to its type.                                        *)
TypeOK ==
    /\ lock \in Writers \cup {None}
    /\ version \in [Writers -> Nat] /\ asset \in [Keys -> Nat]
    /\ reservation \in [Writers -> [size : Nat, live : BOOLEAN]]
    /\ op \in [Writers -> [pc : Steps, kind : {"direct", "chunked", "derived"},
                           key : Keys \cup {None}, size : Nat, seen : Nat]]
    /\ slipped \in Nat /\ faults \in 0 .. MaxFaults

(* Reservations alone never exceed the quota: of two operations that        *)
(* together ask for more than there is, one is rejected, and none is        *)
(* negative, which would lend bytes to the others.                          *)
ReservationsFit == Reserved <= Quota /\ \A w \in Writers : reservation[w].size >= 0

(* Used and reserved bytes exceed the quota by no more than what slipped:   *)
(* under a reader's two reads, by an expiry during the write, or by an      *)
(* asset that shrank meanwhile.  There is no fourth way.                    *)
OvershootBounded == Used + Reserved <= Quota + slipped

(* An operation that ended, and did not die, holds nothing back.            *)
NothingHeldBack ==
    \A w \in Writers : op[w].pc \in {"done", "rejected", "failed"} => reservation[w].size = 0

===============================================================================
