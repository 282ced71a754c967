----------------------------- MODULE DeliveryIntent -----------------------------
(***************************************************************************)
(* What a transactional outbox promises, whatever dispatcher stands behind *)
(* it: a record that waits in the queue is owed a message until a message  *)
(* for it is on its way, and is eventually taken up.  Messages may be      *)
(* duplicated and may outlive the state they were sent for; the taker of a *)
(* message looks at the record and drops what it has no use for.           *)
(***************************************************************************)
EXTENDS Naturals

CONSTANT Rows      \* records, each with one outbox row

VARIABLES
    status,        \* state of the record
    owed,          \* the outbox still owes the record a message
    copies         \* messages on their way or in the hands of a taker

vars == <<status, owed, copies>>

Init ==
    /\ status = [r \in Rows |-> "queued"]
    /\ owed = [r \in Rows |-> TRUE]
    /\ copies = [r \in Rows |-> 0]

(* At least once: nothing forbids another copy.                             *)
Deliver(r) ==
    /\ copies' = [copies EXCEPT ![r] = @ + 1]
    /\ UNCHANGED <<status, owed>>

(* The delivery that is due: nothing else would wake the record up.         *)
Due(r) == owed[r] /\ status[r] = "queued" /\ copies[r] = 0

(* The debt is settled once a copy is there or nobody waits for one.        *)
Discharge(r) ==
    /\ status[r] = "queued" => copies[r] > 0
    /\ owed' = [owed EXCEPT ![r] = FALSE]
    /\ UNCHANGED <<status, copies>>

Take(r) ==
    /\ status[r] = "queued" /\ copies[r] > 0
    /\ status' = [status EXCEPT ![r] = "taken"]
    /\ UNCHANGED <<owed, copies>>

(* The taker is done with the record and its message.                       *)
Settle(r) ==
    /\ status[r] = "taken"
    /\ \E s \in {"settled", "cancelled"} : status' = [status EXCEPT ![r] = s]
    /\ copies' = [copies EXCEPT ![r] = @ - 1]
    /\ UNCHANGED owed

(* The taker hands the record back with its message, to be delivered again. *)
HandBack(r) ==
    /\ status[r] = "taken"
    /\ status' = [status EXCEPT ![r] = "queued"]
    /\ UNCHANGED <<owed, copies>>

(* A message that finds nothing to take; the taker's own is not dropped.    *)
Drop(r) ==
    /\ status[r] # "queued"
    /\ copies[r] > IF status[r] = "taken" THEN 1 ELSE 0
    /\ copies' = [copies EXCEPT ![r] = @ - 1]
    /\ UNCHANGED <<status, owed>>

Cancel(r) ==
    /\ status[r] = "queued"
    /\ status' = [status EXCEPT ![r] = "cancelled"]
    /\ UNCHANGED <<owed, copies>>

(* A cancelled record waits again, and is owed a message again.             *)
Renew(r) ==
    /\ status[r] = "cancelled"
    /\ status' = [status EXCEPT ![r] = "queued"]
    /\ owed' = [owed EXCEPT ![r] = TRUE]
    /\ UNCHANGED copies

Next == \E r \in Rows :
    \/ Deliver(r) \/ Discharge(r) \/ Take(r) \/ Settle(r) \/ HandBack(r)
    \/ Drop(r) \/ Cancel(r) \/ Renew(r)

Spec == Init /\ [][Next]_vars

Fairness == \A r \in Rows : WF_vars(Due(r) /\ Deliver(r)) /\ WF_vars(Take(r))

FairSpec == Spec /\ Fairness

===============================================================================
