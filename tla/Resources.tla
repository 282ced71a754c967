------------------------------- MODULE Resources -------------------------------
(***************************************************************************)
(* The ways a resource gets a version: the direct upload of a new one, the *)
(* replacement of its file, and its recompilation with another profile.    *)
(* An upload or a replacement looks for the same file before it reserves   *)
(* storage and stores the blob, and inserts the version only then; a       *)
(* recompilation does all under the lock of the resource.                  *)
(*                                                                         *)
(* A transaction that holds the lock of the resource is one step: the      *)
(* versions it reads are written under the same lock.                      *)
(***************************************************************************)
EXTENDS Naturals, FiniteSets, FiniteSetsExt

CONSTANTS
    Requests, Documents,    \* documents are the resources of one space
    Files,                  \* contents, told apart by their sha256
    Profiles,               \* compile profiles
    MaxBlobs,               \* bounds the files stored
    MaxVersions,            \* bounds the versions of all documents
    None

VARIABLES
    versions,       \* the resource_version rows, each with its processing job
    blob,           \* the content of each immutable blob
    reservation,    \* the storage reservations of requests
    upload          \* what a request has found and done

resourceVars == <<versions, blob, reservation, upload>>

Idle == [op |-> "none", at |-> "idle", document |-> None, file |-> None, profile |-> None,
         blob |-> 0, seen |-> 0]

Init ==
    /\ versions = {}
    /\ blob = <<>>
    /\ reservation = {}
    /\ upload = [q \in Requests |-> Idle]

Of(d) == {v \in versions : v.document = d}
Latest(d) == CHOOSE v \in Of(d) : \A w \in Of(d) : w.number <= v.number
Same(found, file, profile) == {v \in found : v.file = file /\ v.profile = profile}

\* A resource id is drawn by the upload that creates it.
Fresh(d) == Of(d) = {} /\ \A q \in Requests : upload[q].document # d

Goes(q, at) == upload' = [upload EXCEPT ![q].at = at]
Ends(q) == upload' = [upload EXCEPT ![q] = Idle]

-----------------------------------------------------------------------------
\* What is there already is returned, and the request ends without a step.
Begins(q, op, d, file, profile, reused) ==
    /\ upload[q].op = "none"
    /\ upload' = [upload EXCEPT ![q] =
          [op |-> op, at |-> IF reused = 0 THEN "reserve" ELSE "insert", document |-> d,
           file |-> file, profile |-> profile, blob |-> reused, seen |-> Cardinality(versions)]]
    /\ UNCHANGED <<versions, blob, reservation>>

UploadResource(q, d, file, profile) ==
    /\ Fresh(d)
    /\ Same(versions, file, profile) = {}
    /\ Begins(q, "upload", d, file, profile, 0)

\* The blob of the same file in another resource of the space is used again, if the
\* store still has it.
ReplaceResourceVersion(q, d, file, profile) ==
    /\ Of(d) # {}
    /\ Same(Of(d), file, profile) = {}
    /\ LET reusable == Same(versions, file, profile) IN
       IF reusable = {} THEN Begins(q, "replace", d, file, profile, 0)
       ELSE \E v \in reusable :
               Begins(q, "replace", d, file, profile, IF v.blob \in DOMAIN blob THEN v.blob ELSE 0)

Reserve(q) ==
    /\ upload[q].at = "reserve"
    /\ reservation' = reservation \cup {q}
    /\ Goes(q, "put")
    /\ UNCHANGED <<versions, blob>>

QuotaExceeded(q) ==
    upload[q].at = "reserve" /\ Ends(q) /\ UNCHANGED <<versions, blob, reservation>>

\* The path holds the id of the version: no two requests write the same blob.
PutImmutable(q) ==
    LET b == Max(DOMAIN blob \cup {0}) + 1 IN
    /\ upload[q].at = "put"
    /\ b <= MaxBlobs
    /\ blob' = [k \in DOMAIN blob \cup {b} |-> IF k = b THEN upload[q].file ELSE blob[k]]
    /\ upload' = [upload EXCEPT ![q].at = "insert", ![q].blob = b]
    /\ UNCHANGED <<versions, reservation>>

FailsCleaning(q) ==
    /\ upload[q].at \in {"put", "insert"}
    /\ reservation' = reservation \ {q}
    /\ blob' = [b \in DOMAIN blob \ {upload[q].blob} |-> blob[b]]
    /\ Ends(q)
    /\ UNCHANGED versions

\* The blob cannot be stored, or the transaction fails: what was stored stays.
Fails(q) ==
    /\ upload[q].at \in {"put", "insert"}
    /\ reservation' = reservation \ {q}
    /\ Ends(q)
    /\ UNCHANGED <<versions, blob>>

Inserted(d, file, profile, b, raced) ==
    LET number == IF Of(d) = {} THEN 1 ELSE Latest(d).number + 1 IN
    /\ Cardinality(versions) < MaxVersions
    /\ versions' = versions \cup {[document |-> d, number |-> number, file |-> file,
                                   profile |-> profile, blob |-> b, raced |-> raced]}

\* The row takes the number after the latest, read under the lock; the reservation
\* goes with it.  raced: other versions were inserted since the request looked.
InsertVersion(q) ==
    LET u == upload[q] IN
    /\ u.at = "insert"
    /\ Inserted(u.document, u.file, u.profile, u.blob, Cardinality(versions) # u.seen)
    /\ reservation' = reservation \ {q}
    /\ Ends(q)
    /\ UNCHANGED blob

RecompileResourceVersion(d, profile) ==
    /\ Of(d) # {}
    /\ Same(Of(d), Latest(d).file, profile) = {}
    /\ Inserted(d, Latest(d).file, profile, Latest(d).blob, FALSE)
    /\ UNCHANGED <<blob, reservation, upload>>

\* The process dies; the reservation it leaves lapses, and the next one deletes it.
Die(q) == upload[q].op # "none" /\ Ends(q) /\ UNCHANGED <<versions, blob, reservation>>
Lapse(q) ==
    /\ q \in reservation /\ upload[q].op = "none"
    /\ reservation' = reservation \ {q}
    /\ UNCHANGED <<versions, blob, upload>>

Next ==
    \/ \E q \in Requests :
          \/ \E d \in Documents, file \in Files, profile \in Profiles :
                UploadResource(q, d, file, profile) \/ ReplaceResourceVersion(q, d, file, profile)
          \/ Reserve(q) \/ QuotaExceeded(q) \/ PutImmutable(q) \/ Fails(q) \/ InsertVersion(q)
          \/ Die(q) \/ Lapse(q)
    \/ \E d \in Documents, profile \in Profiles : RecompileResourceVersion(d, profile)

Spec == Init /\ [][Next]_resourceVars

-----------------------------------------------------------------------------
TypeOK ==
    /\ versions \subseteq [document : Documents, number : 1..MaxVersions, file : Files,
                           profile : Profiles, blob : 1..MaxBlobs, raced : BOOLEAN]
    /\ DOMAIN blob \subseteq 1..MaxBlobs /\ \A b \in DOMAIN blob : blob[b] \in Files
    /\ reservation \subseteq Requests
    /\ \A q \in Requests : upload[q].at \in {"idle", "reserve", "put", "insert"}

\* auditLocalBlobConsistency: the versions whose blob is not in the store.
Missing == {v \in versions : v.blob \notin DOMAIN blob}

\* The versions of a document are numbered from one without a gap or a double,
\* whichever requests overlap; every one of them refers to a blob that is stored and
\* holds its file, its own or one it shares; and a file occurs twice with one profile
\* in a document, or a new upload repeats one of the space, only when the request was
\* overtaken between its look and its insert.
VersionsLinked ==
    /\ \A d \in Documents :
          /\ {v.number : v \in Of(d)} = 1..Cardinality(Of(d))
          /\ \A v, w \in Of(d) :
                v.number < w.number /\ v.file = w.file /\ v.profile = w.profile => w.raced
    /\ Missing = {}
    /\ \A v \in versions : blob[v.blob] = v.file
=============================================================================
