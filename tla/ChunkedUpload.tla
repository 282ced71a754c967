----------------------------- MODULE ChunkedUpload -----------------------------
(***************************************************************************)
(* One chunked upload session: its creation, the part uploads, the request *)
(* for finalization, the finalizing handlers of the worker and the cleanup *)
(* of expired sessions, over the session row, the part rows, the temporary *)
(* files and the storage reservation.                                      *)
(*                                                                         *)
(* Every SQL statement or transaction and every blob store call is one     *)
(* action; actions of different actors interleave between them.  The       *)
(* outbox of the finalization job is the one of module JobOutbox: here it  *)
(* delivers at least once.                                                 *)
(***************************************************************************)
EXTENDS Naturals, FiniteSets

CONSTANTS
    Parts,         \* part numbers of the session
    Clients,       \* requests of the session's owner that run at once
    Handlers,      \* calls of finalizeUpload that run at once
    Messages,      \* bound on the messages published for the job
    None,          \* SQL NULL
    RetryLimit,    \* pg-boss redelivers this many times
    MaxFaults,     \* bound on faults
    Faults         \* out of AllFaults

(* "disk"      a blob store call throws, halfway or at its end              *)
(* "database"  the insert of the session or of a part throws                *)
(* "crash"     a request, a handler or the cleanup dies                     *)
(* "slow"      a live handler outlasts the expiry of its message            *)
(* "duplicate" the outbox publishes a second message                        *)
(* "invalid"   the assembled file fails a check (hash, size, archive, ASR)  *)
(* "twin"      the same content is uploaded to the space by another way     *)
AllFaults == {"disk", "database", "crash", "slow", "duplicate", "invalid", "twin"}

ASSUME NoneAssumption   == None \notin Parts \cup Messages \cup Clients \cup Handlers
ASSUME ActorsAssumption == Clients \cap Handlers = {}
ASSUME BoundsAssumption == RetryLimit \in Nat /\ MaxFaults \in Nat /\ Faults \subseteq AllFaults

VARIABLES
    session,       \* resource_upload row: status, is expiresAt past
    reserved,      \* its storage_reservation row exists
    rows,          \* parts with a resource_upload_part row
    file,          \* temporary file of each part
    version,       \* resource versions this session created
    twin,          \* another version of the same content exists
    job,           \* finalization job and its outbox row
    msg,           \* pg-boss messages of the finalization job
    act,           \* requests and handlers
    clean,         \* cleanupExpiredChunkedUploads
    faults         \* faults so far

vars == <<session, reserved, rows, file, version, twin, job, msg, act, clean, faults>>
blobs == <<rows, file>>
queue == <<job, msg>>
found == <<version, twin>>

Actors == Clients \cup Handlers
Idle   == [pc |-> "idle", op |-> "none", seen |-> "absent", part |-> None,
           msg |-> None, last |-> FALSE, error |-> "transient"]

NoClean == [pc |-> "idle", parts |-> {}, at |-> None]

Init ==
    /\ session = [status |-> "absent", late |-> FALSE]
    /\ reserved = FALSE
    /\ rows = {}
    /\ file = [p \in Parts |-> "none"]
    /\ version = 0
    /\ twin = FALSE
    /\ job = [status |-> "absent", outbox |-> "none"]
    /\ msg = [m \in Messages |-> [state |-> "absent", tries |-> 0]]
    /\ act = [a \in Actors |-> Idle]
    /\ clean = NoClean
    /\ faults = 0

Faulty(f) == f \in Faults /\ faults < MaxFaults /\ faults' = faults + 1

GoTo(a, pc) == act' = [act EXCEPT ![a] = [@ EXCEPT !.pc = pc]]
Ends(a)     == act' = [act EXCEPT ![a] = Idle]

SessionIs(s) == session' = [session EXCEPT !.status = s]

(* expiresAt passes, for the session and for its reservation.               *)
Expires ==
    /\ session.status # "absent" /\ ~session.late
    /\ session' = [session EXCEPT !.late = TRUE]
    /\ UNCHANGED <<reserved, blobs, found, queue, act, clean, faults>>

-------------------------------------------------------------------------------
(* createChunkedUploadSession.                                              *)

Create(c) ==
    /\ act[c].pc = "idle" /\ session.status = "absent" /\ ~reserved
    /\ \A other \in Clients : act[other].pc # "insert-session"
    /\ reserved' = TRUE
    /\ GoTo(c, "insert-session")
    /\ UNCHANGED <<session, blobs, found, queue, clean, faults>>

InsertSession(c) ==
    /\ act[c].pc = "insert-session"
    /\ \/ SessionIs("open") /\ Ends(c) /\ UNCHANGED faults
       \/ Faulty("database") /\ GoTo(c, "release") /\ UNCHANGED session
    /\ UNCHANGED <<reserved, blobs, found, queue, clean>>

-------------------------------------------------------------------------------
(* ownedUploadSession, the first call of every other operation.             *)

OwnedRead(a) ==
    /\ act[a].pc = "own"
    /\ act' = [act EXCEPT ![a] = [@ EXCEPT !.pc = "check", !.seen = session.status]]
    /\ UNCHANGED <<session, reserved, blobs, found, queue, clean, faults>>

SeenExpired(a) == act[a].seen \in {"open", "finalizing"} /\ session.late

(* What each operation does with the session it read.                       *)
AfterOwned(a) ==
    LET op   == act[a].op
        seen == act[a].seen
    IN  CASE op = "put" /\ seen = "open"            -> "lookup"
          [] op = "complete" /\ seen = "open"       -> "count"
          [] op = "finalize" /\ seen = "completed"  -> "finish"
          [] op = "finalize" /\ seen = "finalizing" -> "assemble"
          [] op = "finalize" /\ seen \notin {"completed", "finalizing"} -> "mark"
          [] OTHER                                  -> "idle"

OwnedCheck(a) ==
    /\ act[a].pc = "check"
    /\ IF SeenExpired(a) THEN GoTo(a, "expire")
       ELSE IF AfterOwned(a) = "idle" THEN Ends(a) ELSE GoTo(a, AfterOwned(a))
    /\ UNCHANGED <<session, reserved, blobs, found, queue, clean, faults>>

(* The UPDATE names the session and no status.                              *)
OwnedExpire(a) ==
    /\ act[a].pc = "expire"
    /\ SessionIs("expired")
    /\ GoTo(a, "release")
    /\ UNCHANGED <<reserved, blobs, found, queue, clean, faults>>

(* releaseStorageReservation, then the error is thrown.                     *)
Release(a) ==
    /\ act[a].pc = "release"
    /\ reserved' = FALSE
    /\ IF a \in Handlers
       THEN act' = [act EXCEPT ![a] = [@ EXCEPT !.pc = "mark", !.error = "terminal"]]
       ELSE Ends(a)
    /\ UNCHANGED <<session, blobs, found, queue, clean, faults>>

-------------------------------------------------------------------------------
(* getChunkedUploadSession, on request and at the end of putChunkedUploadPart. *)

Gets(c) == act' = [act EXCEPT ![c] = [Idle EXCEPT !.pc = "own", !.op = "get"]]

Get(c) ==
    /\ act[c].pc = "idle" /\ session.status # "absent"
    /\ Gets(c)
    /\ UNCHANGED <<session, reserved, blobs, found, queue, clean, faults>>

-------------------------------------------------------------------------------
(* putChunkedUploadPart.                                                    *)

Put(c) ==
    /\ act[c].pc = "idle" /\ session.status # "absent"
    /\ \E p \in Parts :
         act' = [act EXCEPT ![c] = [Idle EXCEPT !.pc = "own", !.op = "put", !.part = p]]
    /\ UNCHANGED <<session, reserved, blobs, found, queue, clean, faults>>

PutLookup(c) ==
    /\ act[c].pc = "lookup"
    /\ IF act[c].part \in rows THEN Gets(c) ELSE GoTo(c, "write")
    /\ UNCHANGED <<session, reserved, blobs, found, queue, clean, faults>>

(* Mutant: putTemporary overwrites.                                         *)
PutWriteOver(c) ==
    /\ act[c].pc = "write"
    /\ file' = [file EXCEPT ![act[c].part] = "whole"] /\ GoTo(c, "insert")
    /\ UNCHANGED <<session, reserved, rows, found, queue, clean, faults>>

(* putTemporary creates the file exclusively; a write that fails leaves it  *)
(* behind.                                                                  *)
PutWrite(c) ==
    /\ act[c].pc = "write"
    /\ LET p == act[c].part
       IN  \/ /\ file[p] = "none"
              /\ file' = [file EXCEPT ![p] = "whole"] /\ GoTo(c, "insert") /\ UNCHANGED faults
           \/ file[p] # "none" /\ Ends(c) /\ UNCHANGED <<file, faults>>
           \/ /\ file[p] = "none" /\ Faulty("disk")
              /\ file' = [file EXCEPT ![p] = "torn"] /\ Ends(c)
    /\ UNCHANGED <<session, reserved, rows, found, queue, clean>>

(* Mutant: the error path leaves the file.                                  *)
PutInsertKeeping(c) ==
    /\ act[c].pc = "insert"
    /\ rows' = IF session.status = "open" /\ ~session.late THEN rows \cup {act[c].part} ELSE rows
    /\ Ends(c)
    /\ UNCHANGED <<session, reserved, file, found, queue, clean, faults>>

(* The session is locked and checked again.                                 *)
PutInsert(c) ==
    /\ act[c].pc = "insert"
    /\ \/ /\ session.status = "open" /\ ~session.late
          /\ rows' = rows \cup {act[c].part} /\ Gets(c) /\ UNCHANGED faults
       \/ /\ session.status # "open" \/ session.late
          /\ GoTo(c, "undo") /\ UNCHANGED <<rows, faults>>
       \/ Faulty("database") /\ GoTo(c, "undo") /\ UNCHANGED rows
    /\ UNCHANGED <<session, reserved, file, found, queue, clean>>

(* removeTemporary, whose failure is ignored.                               *)
PutUndo(c) ==
    /\ act[c].pc = "undo"
    /\ \/ file' = [file EXCEPT ![act[c].part] = "none"] /\ UNCHANGED faults
       \/ Faulty("disk") /\ UNCHANGED file
    /\ Ends(c)
    /\ UNCHANGED <<session, reserved, rows, found, queue, clean>>

-------------------------------------------------------------------------------
(* requestChunkedUploadFinalization.                                        *)

Complete(c) ==
    /\ act[c].pc = "idle" /\ session.status # "absent"
    /\ act' = [act EXCEPT ![c] = [Idle EXCEPT !.pc = "own", !.op = "complete"]]
    /\ UNCHANGED <<session, reserved, blobs, found, queue, clean, faults>>

CountParts(c) ==
    /\ act[c].pc = "count"
    /\ IF rows = Parts THEN GoTo(c, "claim") ELSE Ends(c)
    /\ UNCHANGED <<session, reserved, blobs, found, queue, clean, faults>>

ClaimFinalizing(c) ==
    /\ act[c].pc = "claim"
    /\ IF session.status = "open" /\ ~session.late
       THEN SessionIs("finalizing") /\ job' = [status |-> "queued", outbox |-> "pending"]
       ELSE UNCHANGED <<session, job>>
    /\ Ends(c)
    /\ UNCHANGED <<reserved, blobs, found, msg, clean, faults>>

(* A request dies; it holds no lock.                                        *)
RequestDies(c) ==
    /\ act[c].pc # "idle" /\ Faulty("crash")
    /\ \/ UNCHANGED file
       \/ /\ act[c].pc = "write" /\ file[act[c].part] = "none"
          /\ file' = [file EXCEPT ![act[c].part] = "torn"]
    /\ Ends(c)
    /\ UNCHANGED <<session, reserved, rows, found, queue, clean>>

-------------------------------------------------------------------------------
(* The outbox and pg-boss.                                                  *)

Publish(m) ==
    /\ job.outbox = "pending" /\ msg[m].state = "absent"
    /\ msg' = [msg EXCEPT ![m] = [state |-> "ready", tries |-> 0]]
    /\ \/ job' = [job EXCEPT !.outbox = "sent"] /\ UNCHANGED faults
       \/ Faulty("duplicate") /\ UNCHANGED job
    /\ UNCHANGED <<session, reserved, blobs, found, act, clean>>

(* complete and fail; a handler whose message has expired has none.         *)
Acknowledged(m) == IF m = None THEN msg ELSE [msg EXCEPT ![m] = [@ EXCEPT !.state = "gone"]]

Redelivered(m) ==
    IF m = None THEN msg
    ELSE [msg EXCEPT ![m] = IF @.tries < RetryLimit
                            THEN [state |-> "ready", tries |-> @.tries + 1]
                            ELSE [@ EXCEPT !.state = "gone"]]

(* The message of a handler that died.                                      *)
MessageExpires(m) ==
    /\ msg[m].state = "active"
    /\ \A h \in Handlers : act[h].msg # m
    /\ msg' = Redelivered(m)
    /\ UNCHANGED <<session, reserved, blobs, found, job, act, clean, faults>>

-------------------------------------------------------------------------------
(* finalizeUpload and finalizeChunkedUpload.                                *)

Fetch(h, m) ==
    /\ act[h].pc = "idle" /\ msg[m].state = "ready"
    /\ msg' = [msg EXCEPT ![m] = [@ EXCEPT !.state = "active"]]
    /\ act' = [act EXCEPT ![h] = [Idle EXCEPT !.pc = "look", !.op = "finalize", !.msg = m,
                                              !.last = msg[m].tries >= RetryLimit]]
    /\ UNCHANGED <<session, reserved, blobs, found, job, clean, faults>>

Fails(h, error) == act' = [act EXCEPT ![h] = [@ EXCEPT !.pc = "mark", !.error = error]]

(* A settled session: the failure is recorded once more and the handler     *)
(* returns.                                                                 *)
Look(h) ==
    /\ act[h].pc = "look"
    /\ CASE session.status = "completed"             -> GoTo(h, "return")
         [] session.status \in {"failed", "expired"} -> Fails(h, "settled")
         [] OTHER                                    -> GoTo(h, "own")
    /\ UNCHANGED <<session, reserved, blobs, found, queue, clean, faults>>

(* The parts are read and joined.                                           *)
Assemble(h) ==
    /\ act[h].pc = "assemble"
    /\ \/ /\ rows = Parts /\ \A p \in Parts : file[p] = "whole"
          /\ GoTo(h, "dedupe")
       \/ /\ rows # Parts \/ \E p \in Parts : file[p] # "whole"
          /\ Fails(h, "transient")
    /\ UNCHANGED <<session, reserved, blobs, found, queue, clean, faults>>

(* Size, hash or validateUploadInput reject what was joined.                *)
Reject(h) ==
    /\ act[h].pc = "dedupe" /\ Faulty("invalid")
    /\ Fails(h, "terminal")
    /\ UNCHANGED <<session, reserved, blobs, found, queue, clean>>

(* findDuplicateResourceVersion.                                            *)
Dedupe(h) ==
    /\ act[h].pc = "dedupe"
    /\ GoTo(h, IF twin \/ version > 0 THEN "settle" ELSE "compose")
    /\ UNCHANGED <<session, reserved, blobs, found, queue, clean, faults>>

(* The session is locked and checked again; an expired one is marked, and   *)
(* the error that follows rolls the mark back.                              *)
SettleDuplicate(h) ==
    /\ act[h].pc = "settle"
    /\ IF session.status # "finalizing"
       THEN Fails(h, "transient") /\ UNCHANGED <<session, reserved>>
       ELSE IF session.late THEN Fails(h, "terminal") /\ UNCHANGED <<session, reserved>>
       ELSE SessionIs("completed") /\ reserved' = FALSE /\ GoTo(h, "remove")
    /\ UNCHANGED <<blobs, found, queue, clean, faults>>

(* composeTemporary reads the parts again and writes the immutable blob.    *)
Compose(h) ==
    /\ act[h].pc = "compose"
    /\ \/ (\A p \in Parts : file[p] = "whole") /\ GoTo(h, "persist") /\ UNCHANGED faults
       \/ (\E p \in Parts : file[p] # "whole") /\ Fails(h, "transient") /\ UNCHANGED faults
       \/ Faulty("disk") /\ Fails(h, "transient")
    /\ UNCHANGED <<session, reserved, blobs, found, queue, clean>>

(* Mutant: persistUploadedResource does not look at the status.             *)
PersistUnlocked(h) ==
    /\ act[h].pc = "persist"
    /\ SessionIs("completed") /\ version' = version + 1
    /\ reserved' = FALSE /\ GoTo(h, "remove")
    /\ UNCHANGED <<blobs, twin, queue, clean, faults>>

(* Mutant: the reservation is left to expire.                               *)
PersistKeepingReservation(h) ==
    /\ act[h].pc = "persist"
    /\ IF session.status = "finalizing" /\ ~session.late
       THEN SessionIs("completed") /\ version' = version + 1 /\ GoTo(h, "remove")
       ELSE Fails(h, "transient") /\ UNCHANGED <<session, version>>
    /\ UNCHANGED <<reserved, blobs, twin, queue, clean, faults>>

(* persistUploadedResource: resource, version, job and outbox row, the      *)
(* session and the reservation, in one transaction that locks the session.  *)
Persist(h) ==
    /\ act[h].pc = "persist"
    /\ \/ /\ session.status = "completed"
          /\ GoTo(h, "remove") /\ UNCHANGED <<session, reserved, version>>
       \/ /\ session.status \notin {"completed", "finalizing"}
          /\ Fails(h, "transient") /\ UNCHANGED <<session, reserved, version>>
       \/ /\ session.status = "finalizing" /\ session.late
          /\ Fails(h, "terminal") /\ UNCHANGED <<session, reserved, version>>
       \/ /\ session.status = "finalizing" /\ ~session.late
          /\ SessionIs("completed") /\ version' = version + 1
          /\ reserved' = FALSE /\ GoTo(h, "remove")
    /\ UNCHANGED <<blobs, twin, queue, clean, faults>>

(* removeTemporary of all parts at once; the part rows stay.                *)
RemoveParts(h) ==
    /\ act[h].pc = "remove"
    /\ \/ file' = [p \in Parts |-> "none"] /\ GoTo(h, "finish") /\ UNCHANGED faults
       \/ /\ Faulty("disk") /\ Fails(h, "transient")
          /\ \E gone \in SUBSET Parts : 
               file' = [p \in Parts |-> IF p \in gone THEN "none" ELSE file[p]]
    /\ UNCHANGED <<session, reserved, rows, found, queue, clean>>

(* The UPDATE names the job and no status.                                  *)
FinishJob(h) ==
    /\ act[h].pc = "finish"
    /\ job' = [job EXCEPT !.status = "completed"]
    /\ GoTo(h, "return")
    /\ UNCHANGED <<session, reserved, blobs, found, msg, clean, faults>>

Terminal(h) == act[h].last \/ act[h].error \in {"settled", "terminal"}

(* Mutants: the session fails whatever its status; it is forgotten.         *)
MarkFailureAnyway(h) ==
    /\ act[h].pc = "mark"
    /\ IF Terminal(h)
       THEN job' = [job EXCEPT !.status = "failed"] /\ SessionIs("failed") /\ reserved' = FALSE
       ELSE UNCHANGED <<session, reserved, job>>
    /\ GoTo(h, IF act[h].error = "settled" THEN "return" ELSE "throw")
    /\ UNCHANGED <<blobs, found, msg, clean, faults>>
MarkFailureJobOnly(h) ==
    /\ act[h].pc = "mark"
    /\ job' = IF Terminal(h) THEN [job EXCEPT !.status = "failed"] ELSE job
    /\ GoTo(h, IF act[h].error = "settled" THEN "return" ELSE "throw")
    /\ UNCHANGED <<session, reserved, blobs, found, msg, clean, faults>>

(* markChunkedUploadFinalizationFailure.                                    *)
MarkFailure(h) ==
    /\ act[h].pc = "mark"
    /\ IF job.status \in {"completed", "failed"}
       THEN UNCHANGED <<session, reserved, job>>
       ELSE IF Terminal(h)
       THEN /\ job' = [job EXCEPT !.status = "failed"]
            /\ SessionIs(IF session.status = "finalizing" THEN "failed" ELSE session.status)
            /\ reserved' = FALSE
       ELSE (* retry_wait; the job is queued as it was *)
            UNCHANGED <<session, reserved, job>>
    /\ GoTo(h, IF act[h].error = "settled" THEN "return" ELSE "throw")
    /\ UNCHANGED <<blobs, found, msg, clean, faults>>

Return(h) ==
    /\ act[h].pc = "return"
    /\ msg' = Acknowledged(act[h].msg)
    /\ Ends(h)
    /\ UNCHANGED <<session, reserved, blobs, found, job, clean, faults>>

Throw(h) ==
    /\ act[h].pc = "throw"
    /\ msg' = Redelivered(act[h].msg)
    /\ Ends(h)
    /\ UNCHANGED <<session, reserved, blobs, found, job, clean, faults>>

(* pg-boss fails the message of a handler that takes longer than it allows; *)
(* the handler goes on.                                                     *)
Outlasts(h) ==
    /\ act[h].msg # None /\ Faulty("slow")
    /\ msg' = Redelivered(act[h].msg)
    /\ act' = [act EXCEPT ![h] = [@ EXCEPT !.msg = None]]
    /\ UNCHANGED <<session, reserved, blobs, found, job, clean>>

HandlerDies(h) ==
    /\ act[h].pc # "idle" /\ Faulty("crash")
    /\ Ends(h)
    /\ UNCHANGED <<session, reserved, blobs, found, queue, clean>>

(* Another upload of the same content creates its version.                  *)
TwinUploaded ==
    /\ ~twin /\ "twin" \in Faults
    /\ twin' = TRUE
    /\ UNCHANGED <<session, reserved, blobs, version, queue, act, clean, faults>>

-------------------------------------------------------------------------------
(* cleanupExpiredChunkedUploads.                                            *)

(* Mutants: sessions that are being finalized are taken too; sessions that  *)
(* failed are not taken.                                                    *)
CleanableFinalizing == session.status \in {"open", "finalizing", "failed", "expired"} /\ session.late
CleanableExpired    == session.status = "expired" /\ session.late

Cleanable == session.status \in {"open", "failed", "expired"} /\ session.late

(* The session is locked, expired and its parts listed; where there is      *)
(* nothing left to do the transaction changes nothing.                      *)
CleanClaim ==
    /\ clean.pc = "idle" /\ Cleanable /\ (session.status = "open" \/ reserved \/ rows # {})
    /\ SessionIs(IF session.status = "open" THEN "expired" ELSE session.status)
    /\ reserved' = FALSE
    /\ clean' = [pc |-> "file", parts |-> rows, at |-> None]
    /\ UNCHANGED <<blobs, found, queue, act, faults>>

(* The parts are removed one after the other, a file before its row; a part *)
(* whose file cannot be removed keeps its row.                              *)
CleanFile(p) ==
    /\ clean.pc = "file" /\ p \in clean.parts
    /\ \/ /\ file' = [file EXCEPT ![p] = "none"]
          /\ clean' = [clean EXCEPT !.pc = "row", !.at = p] /\ UNCHANGED faults
       \/ /\ Faulty("disk") /\ UNCHANGED file
          /\ clean' = [clean EXCEPT !.parts = @ \ {p}]
    /\ UNCHANGED <<session, reserved, rows, found, queue, act>>

CleanRow ==
    /\ clean.pc = "row"
    /\ rows' = rows \ {clean.at}
    /\ clean' = [pc |-> "file", parts |-> clean.parts \ {clean.at}, at |-> None]
    /\ UNCHANGED <<session, reserved, file, found, queue, act, faults>>

CleanEnds ==
    /\ \/ clean.pc = "file" /\ clean.parts = {} /\ UNCHANGED faults
       \/ clean.pc # "idle" /\ Faulty("crash")
    /\ clean' = NoClean
    /\ UNCHANGED <<session, reserved, blobs, found, queue, act>>

Cleanup == CleanClaim \/ (\E p \in Parts : CleanFile(p)) \/ CleanRow \/ CleanEnds

-------------------------------------------------------------------------------
Owned(a) == OwnedRead(a) \/ OwnedCheck(a) \/ OwnedExpire(a) \/ Release(a)

Request(c) ==
    \/ Owned(c) \/ InsertSession(c)
    \/ PutLookup(c) \/ PutWrite(c) \/ PutInsert(c) \/ PutUndo(c)
    \/ CountParts(c) \/ ClaimFinalizing(c)

Finalizer(h) ==
    \/ Owned(h) \/ Look(h) \/ Assemble(h) \/ Reject(h) \/ Dedupe(h) \/ SettleDuplicate(h)
    \/ Compose(h) \/ Persist(h) \/ RemoveParts(h) \/ FinishJob(h)
    \/ MarkFailure(h) \/ Return(h) \/ Throw(h)

Next ==
    \/ \E c \in Clients : Request(c) \/ Create(c) \/ Get(c) \/ Put(c) \/ Complete(c) \/ RequestDies(c)
    \/ \E h \in Handlers : \/ Finalizer(h) \/ Outlasts(h) \/ HandlerDies(h)
                           \/ \E m \in Messages : Fetch(h, m)
    \/ \E m \in Messages : Publish(m) \/ MessageExpires(m)
    \/ Cleanup \/ Expires \/ TwinUploaded

Spec == Init /\ [][Next]_vars

(* Handlers go on, the outbox and pg-boss deliver and expire, the worker's  *)
(* timer starts a cleanup every five minutes.  Nothing is assumed of users. *)
Fairness ==
    /\ \A h \in Handlers : WF_vars(Finalizer(h))
    /\ WF_vars(\E m \in Messages : Publish(m))
    /\ \A m \in Messages : WF_vars(MessageExpires(m)) /\ WF_vars(\E h \in Handlers : Fetch(h, m))
    /\ WF_vars(Cleanup)

FairSpec == Spec /\ Fairness

-------------------------------------------------------------------------------
(* Properties.                                                              *)

Steps == {"idle", "insert-session", "own", "check", "expire", "release", "lookup", "write",
          "insert", "undo", "count", "claim", "look", "assemble", "dedupe", "settle",
          "compose", "persist", "remove", "finish", "mark", "return", "throw"}

Statuses == {"absent", "open", "finalizing", "completed", "failed", "expired"}

(* Every variable keeps to its type.                                        *)
TypeOK ==
    /\ session \in [status : Statuses, late : BOOLEAN]
    /\ reserved \in BOOLEAN /\ twin \in BOOLEAN /\ version \in Nat
    /\ rows \subseteq Parts /\ file \in [Parts -> {"none", "torn", "whole"}]
    /\ job \in [status : {"absent", "queued", "completed", "failed"},
                outbox : {"none", "pending", "sent"}]
    /\ msg \in [Messages -> [state : {"absent", "ready", "active", "gone"},
                             tries : 0 .. RetryLimit]]
    /\ act \in [Actors -> [pc : Steps, op : {"none", "get", "put", "complete", "finalize"},
                           seen : Statuses, part : Parts \cup {None},
                           msg : Messages \cup {None}, last : BOOLEAN,
                           error : {"transient", "terminal", "settled"}]]
    /\ clean \in [pc : {"idle", "file", "row"}, parts : SUBSET Parts, at : Parts \cup {None}]
    /\ faults \in 0 .. MaxFaults

(* However often the finalization is delivered, interrupted or overtaken,   *)
(* the session creates one version, and none once it has failed.            *)
OneVersion == version <= 1 /\ (session.status = "failed" => version = 0)

(* While the session is open or being finalized, every part it has recorded *)
(* is there: neither the cleanup nor a request that undoes its own write    *)
(* takes it away.                                                           *)
PartsSafe == session.status \in {"open", "finalizing"} => \A p \in rows : file[p] = "whole"

(* The reservation of the declared size is held until the session expires   *)
(* or settles, and not beyond.                                              *)
ReservationFollows ==
    /\ session.status \in {"open", "finalizing"} /\ ~session.late => reserved
    /\ session.status \in {"completed", "failed"} => ~reserved

Putting(p) == \E c \in Clients : act[c].part = p /\ act[c].pc \in {"insert", "undo"}

StrayFile(p) == file[p] # "none" /\ p \notin rows /\ ~Putting(p)

(* A write that loses the race with the expiry or the finalization takes    *)
(* its file back: without faults no file is left that no row names.         *)
NoStrayFile == faults = 0 => \A p \in Parts : clean.at # p => ~StrayFile(p)

(* The disk and the part rows agree, in both directions.                    *)
PartsOnDisk == PartsSafe /\ NoStrayFile

(* A settled session does not change any more, except to expired: a late    *)
(* failure does not overwrite a completed upload and nothing reopens it.    *)
SettledStays ==
    [][session.status \in {"completed", "failed", "expired"}
         => session'.status \in {session.status, "expired"}]_vars

(* A session whose finalization was requested does not stay finalizing.     *)
FinalizingSettles == session.status = "finalizing" ~> session.status # "finalizing"

(* The recorded parts of an expired session that is not being finalized are *)
(* removed in the end.                                                      *)
PartsReclaimed ==
    session.late /\ session.status \in {"open", "failed", "expired"} ~> rows = {}

===============================================================================
