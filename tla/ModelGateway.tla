----------------------------- MODULE ModelGateway -----------------------------
(***************************************************************************)
(* ModelGateway.invoke under the daily budgets of an organization, and the *)
(* counters both the budgets and the limits of HTTP mutations are kept in. *)
(*                                                                         *)
(* A call tries the providers its capability and data policy allow, in the *)
(* order of their registration.  Before a healthy one is invoked, one      *)
(* transaction adds the call to the counters of the organization, the      *)
(* provider and the user, each under the lock of its row; a counter over   *)
(* its limit rolls all of them back.  The call is charged when it commits, *)
(* whatever becomes of the invocation.                                     *)
(***************************************************************************)
EXTENDS Naturals, Sequences, FiniteSetsExt

CONSTANTS
    Calls,          \* calls of the gateway, one invocation each
    Providers,      \* the registered providers that have the capability, in order
    Cloud,          \* those of them that are not local
    Users,
    OrganizationLimit, ProviderLimit, UserLimit, MutationLimit,
    Window,         \* the length of a counter's window
    MaxTime,        \* bounds the clock
    None

VARIABLES
    clock,
    row,        \* request_rate_limit: the committed counters
    lock,       \* who holds the lock of a counter's row
    call,       \* where a call stands
    aborted,    \* calls whose signal was aborted
    paid,       \* the counters, with their windows, a call was added to
    sentTo,     \* the provider a call's payload was sent to
    accepted    \* mutations accepted in the window of their counter

gatewayVars == <<clock, row, lock, call, aborted, paid, sentTo, accepted>>

Counters == {"organization", "mutation"} \cup Range(Providers) \cup Users
Limit(k) ==
    CASE k = "organization" -> OrganizationLimit
      [] k = "mutation" -> MutationLimit
      [] k \in Users -> UserLimit
      [] OTHER -> ProviderLimit

Counter == [count : Nat, since : 0..MaxTime]

Errors == {"MODEL_CAPABILITY_UNAVAILABLE", "MODEL_PROVIDER_BUDGET_EXCEEDED",
           "MODEL_BUDGET_EXCEEDED", "MODEL_PROVIDER_CANCELLED", "MODEL_PROVIDER_TIMEOUT",
           "MODEL_PROVIDER_UNAVAILABLE"}
Places == {"idle", "health", "charge", "request", "wait", "done", "died"}

NoCall == [at |-> "idle", policy |-> "local_only", user |-> None, provider |-> 1,
           over |-> FALSE, begun |-> 0, pending |-> <<>>, result |-> None]

Init ==
    /\ clock = 0
    /\ row = [k \in Counters |-> [count |-> 0, since |-> 0]]
    /\ lock = [k \in Counters |-> None]
    /\ call = [c \in Calls |-> NoCall]
    /\ aborted = {}
    /\ paid = [c \in Calls |-> {}]
    /\ sentTo = [c \in Calls |-> None]
    /\ accepted = 0

\* The upsert both kinds of limit use; now() is when the transaction began.
Counted(counter, now) ==
    IF counter.since + Window <= now THEN [count |-> 1, since |-> now]
                                     ELSE [counter EXCEPT !.count = @ + 1]

-----------------------------------------------------------------------------
CandidatesAny(c) == {i \in DOMAIN Providers : i >= call[c].provider}

\* The places in the registration that a call has left to try.
Candidates(c) ==
    {i \in DOMAIN Providers :
        /\ i >= call[c].provider
        /\ Providers[i] \in Cloud => call[c].policy = "cloud_allowed"}

Left(c) == Candidates(c) # {}
Turn(c) == Min(Candidates(c))
Provider(c) == Providers[Turn(c)]

Goes(c, place) == call' = [call EXCEPT ![c].at = place]
Ends(c, result) == call' = [call EXCEPT ![c].at = "done", ![c].result = result]

Begin(c, policy, user) ==
    /\ call[c].at = "idle"
    /\ call' = [call EXCEPT ![c] = [NoCall EXCEPT !.at = "health", !.policy = policy,
                                                  !.user = user]]
    /\ UNCHANGED <<clock, row, lock, aborted, paid, sentTo, accepted>>

Healthy(c) ==
    /\ call[c].at = "health" /\ Left(c)
    /\ call' = [call EXCEPT ![c].at = "charge", ![c].begun = clock, ![c].pending = <<>>]
    /\ UNCHANGED <<clock, row, lock, aborted, paid, sentTo, accepted>>

Unhealthy(c) ==
    /\ call[c].at = "health" /\ Left(c)
    /\ call' = [call EXCEPT ![c].provider = Turn(c) + 1]
    /\ UNCHANGED <<clock, row, lock, aborted, paid, sentTo, accepted>>

NoneLeft(c) ==
    /\ call[c].at = "health" /\ ~ Left(c)
    /\ Ends(c, IF call[c].over THEN "MODEL_PROVIDER_BUDGET_EXCEEDED"
                               ELSE "MODEL_CAPABILITY_UNAVAILABLE")
    /\ UNCHANGED <<clock, row, lock, aborted, paid, sentTo, accepted>>

EntriesByScope(c) ==
    IF call[c].user = None THEN <<Provider(c), "organization">>
                           ELSE <<"organization", Provider(c), call[c].user>>

\* The counters a call is added to, in the order of their statements.
Entries(c) ==
    <<"organization", Provider(c)>> \o (IF call[c].user = None THEN <<>> ELSE <<call[c].user>>)

Charging(c) == call[c].at = "charge" /\ Len(call[c].pending) < Len(Entries(c))
NextKey(c) == Entries(c)[Len(call[c].pending) + 1]
NewCounter(c) == Counted(row[NextKey(c)], call[c].begun)
Released(c) == [k \in Counters |-> IF lock[k] = c THEN None ELSE lock[k]]

ChargeLate(c) ==
    /\ Charging(c)
    /\ lock[NextKey(c)] = None
    /\ row[NextKey(c)].count <= Limit(NextKey(c))
    /\ lock' = [lock EXCEPT ![NextKey(c)] = c]
    /\ call' = [call EXCEPT ![c].pending = Append(@, NewCounter(c))]
    /\ UNCHANGED <<clock, row, aborted, paid, sentTo, accepted>>

\* One statement of the transaction: it waits for the row's lock and keeps it.
Charge(c) ==
    /\ Charging(c)
    /\ lock[NextKey(c)] = None
    /\ NewCounter(c).count <= Limit(NextKey(c))
    /\ lock' = [lock EXCEPT ![NextKey(c)] = c]
    /\ call' = [call EXCEPT ![c].pending = Append(@, NewCounter(c))]
    /\ UNCHANGED <<clock, row, aborted, paid, sentTo, accepted>>

\* RateLimitExceeded rolls the transaction back; the next provider is tried only
\* when it was the provider's counter.
Refuse(c) ==
    /\ Charging(c)
    /\ lock[NextKey(c)] = None
    /\ NewCounter(c).count > Limit(NextKey(c))
    /\ lock' = Released(c)
    /\ IF NextKey(c) = Provider(c)
          THEN call' = [call EXCEPT ![c].at = "health", ![c].over = TRUE,
                                    ![c].provider = Turn(c) + 1]
          ELSE Ends(c, "MODEL_BUDGET_EXCEEDED")
    /\ UNCHANGED <<clock, row, aborted, paid, sentTo, accepted>>

\* What committing writes, and what the call then has paid.
Stored(c) ==
    [k \in Counters |->
        IF k \in Range(Entries(c))
           THEN call[c].pending[CHOOSE i \in DOMAIN Entries(c) : Entries(c)[i] = k]
           ELSE row[k]]

Commit(c) ==
    /\ call[c].at = "charge" /\ ~ Charging(c)
    /\ row' = Stored(c)
    /\ lock' = Released(c)
    /\ paid' = [paid EXCEPT ![c] = @ \cup {<<k, Stored(c)[k].since>> : k \in Range(Entries(c))}]
    /\ Goes(c, "request")
    /\ UNCHANGED <<clock, aborted, sentTo, accepted>>

-----------------------------------------------------------------------------
\* provider.invoke: resolving the endpoint takes time, and the signal is looked at
\* before the request is sent.
Send(c) ==
    /\ call[c].at = "request"
    /\ c \notin aborted
    /\ sentTo' = [sentTo EXCEPT ![c] = Provider(c)]
    /\ Goes(c, "wait")
    /\ UNCHANGED <<clock, row, lock, aborted, paid, accepted>>

\* Nothing was sent: the endpoint is denied or cannot be resolved, or the time is over.
SendFails(c) ==
    /\ call[c].at = "request"
    /\ \/ c \in aborted /\ Ends(c, "MODEL_PROVIDER_CANCELLED")
       \/ c \notin aborted /\ \E e \in {"MODEL_PROVIDER_TIMEOUT", "MODEL_PROVIDER_UNAVAILABLE"} : Ends(c, e)
    /\ UNCHANGED <<clock, row, lock, aborted, paid, sentTo, accepted>>

Answered(c) ==
    /\ call[c].at = "wait"
    /\ c \notin aborted
    /\ Ends(c, "answer")
    /\ UNCHANGED <<clock, row, lock, aborted, paid, sentTo, accepted>>

\* An error status, an invalid body, a broken connection or the timeout; a call that
\* was aborted meanwhile reports that.
AnswerFails(c) ==
    /\ call[c].at = "wait"
    /\ \/ c \in aborted /\ Ends(c, "MODEL_PROVIDER_CANCELLED")
       \/ c \notin aborted /\ \E e \in {"MODEL_PROVIDER_TIMEOUT", "MODEL_PROVIDER_UNAVAILABLE"} : Ends(c, e)
    /\ UNCHANGED <<clock, row, lock, aborted, paid, sentTo, accepted>>

Abort(c) ==
    /\ call[c].at \notin {"idle", "done", "died"} /\ c \notin aborted
    /\ aborted' = aborted \cup {c}
    /\ UNCHANGED <<clock, row, lock, call, paid, sentTo, accepted>>

\* The process dies; the database rolls an open transaction back.
Die(c) ==
    /\ call[c].at \notin {"idle", "done", "died"}
    /\ lock' = Released(c)
    /\ Goes(c, "died")
    /\ UNCHANGED <<clock, row, aborted, paid, sentTo, accepted>>

-----------------------------------------------------------------------------
\* enforceAuthenticatedMutation and enforcePublicMutation: a statement of its own,
\* which counts the request whether or not it is accepted.
Mutate ==
    LET counter == Counted(row["mutation"], clock) IN
    /\ counter.count <= MutationLimit + 1
    /\ row' = [row EXCEPT !["mutation"] = counter]
    /\ accepted' = (IF counter.since = row["mutation"].since THEN accepted ELSE 0)
                   + (IF counter.count <= MutationLimit THEN 1 ELSE 0)
    /\ UNCHANGED <<clock, lock, call, aborted, paid, sentTo>>

Tick == clock < MaxTime /\ clock' = clock + 1
        /\ UNCHANGED <<row, lock, call, aborted, paid, sentTo, accepted>>

CallNext ==
    \/ \E c \in Calls :
          \/ \E policy \in {"local_only", "cloud_allowed"}, user \in Users \cup {None} :
                Begin(c, policy, user)
          \/ Healthy(c) \/ Unhealthy(c) \/ NoneLeft(c)
          \/ Charge(c) \/ Refuse(c) \/ Commit(c)
          \/ Send(c) \/ SendFails(c) \/ Answered(c) \/ AnswerFails(c) \/ Abort(c) \/ Die(c)
    \/ Tick

MutationNext == Mutate \/ Tick

Next == CallNext \/ MutationNext

Spec == Init /\ [][Next]_gatewayVars

-----------------------------------------------------------------------------
TypeOK ==
    /\ clock \in 0..MaxTime
    /\ row \in [Counters -> Counter]
    /\ lock \in [Counters -> Calls \cup {None}]
    /\ call \in [Calls -> [at : Places, policy : {"local_only", "cloud_allowed"},
                           user : Users \cup {None}, provider : 1..(Len(Providers) + 1),
                           over : BOOLEAN, begun : 0..MaxTime, pending : Seq(Counter),
                           result : Errors \cup {"answer", None}]]
    /\ aborted \subseteq Calls
    /\ \A c \in Calls : paid[c] \subseteq Counters \X (0..MaxTime)
    /\ sentTo \in [Calls -> Range(Providers) \cup {None}]
    /\ accepted \in Nat

\* Who was added to a counter in its present window.
Payers(k) == {c \in Calls : <<k, row[k].since>> \in paid[c]}

\* The counters agree with the calls: each counts exactly the calls charged in its
\* window, never more than its limit, and no more mutations are accepted either; a
\* call is charged to all of its counters or to none, for one provider and once; a
\* refused call is charged nothing; and nothing is sent to a provider before the call
\* was charged to it.
BudgetKept ==
    /\ \A k \in Counters \ {"mutation"} :
          /\ row[k].count = Cardinality(Payers(k))
          /\ row[k].count <= Limit(k)
    /\ accepted <= MutationLimit
    /\ \A c \in Calls :
          /\ paid[c] # {} =>
                {entry[1] : entry \in paid[c]} = Range(Entries(c))
                /\ Cardinality(paid[c]) = Cardinality(Range(Entries(c)))
          /\ call[c].result \in {"MODEL_BUDGET_EXCEEDED", "MODEL_PROVIDER_BUDGET_EXCEEDED",
                                 "MODEL_CAPABILITY_UNAVAILABLE"} => paid[c] = {}
          /\ sentTo[c] # None => \E entry \in paid[c] : entry[1] = sentTo[c]

\* What a call may be kept waiting by.
Waits(c) == {d \in Calls : Charging(c) /\ lock[NextKey(c)] = d}

\* No calls wait for each other in a circle, which the database would have to break
\* by failing one of them.
NoWaitCycle ==
    ~ \E S \in SUBSET Calls : S # {} /\ \A c \in S : Waits(c) \cap S # {}

\* A call whose data must stay local is never sent to a cloud provider, whichever
\* providers were unhealthy or over their budget before.
LocalStaysLocal ==
    \A c \in Calls : call[c].policy = "local_only" => sentTo[c] \notin Cloud
=============================================================================
