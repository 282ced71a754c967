----------------------------- MODULE Organization -----------------------------
(* The storage, the accounts, the documents and the skills of an organization, *)
(* a turn of its assistant, and its model calls and their budgets.  They share *)
(* no state, so a behaviour is one of one of them: part says of which, and the *)
(* variables of the others keep their initial values.                          *)
EXTENDS StorageQuota, Sequences
CONSTANTS
    Calls, Providers, Cloud, Users, OrganizationLimit, ProviderLimit, UserLimit, MutationLimit,
    Window, MaxTime,
    MaxCalls, Requests, People, Founder, Invitations, Codes,
    Documents, Files, Profiles, MaxBlobs, MaxVersions, MaxInstalled, MaxEdits
VARIABLES
    clock, row, rowLock, call, aborted, paid, sentTo, accepted,
    turn, readable, stopped, passed, overtaken, late,
    made, member, spaceRole, owner, invitation, code, request,
    versions, blob, held, upload,
    directory, edits, installed, installing, resolved,
    part

gatewayVars == <<clock, row, rowLock, call, aborted, paid, sentTo, accepted>>
turnVars == <<turn, readable, stopped, passed, overtaken, late>>
accessVars == <<made, member, spaceRole, owner, invitation, code, request>>
resourceVars == <<versions, blob, held, upload>>
installationVars == <<directory, edits, installed, installing, resolved>>
organizationVars ==
    <<vars, gatewayVars, turnVars, accessVars, resourceVars, installationVars>>

G == INSTANCE ModelGateway WITH lock <- rowLock
T == INSTANCE KnowledgeTurn WITH aborted <- stopped
A == INSTANCE Access
R == INSTANCE Resources WITH reservation <- held
I == INSTANCE SkillInstallations WITH request <- installing

\* Providers, users and the other counters are told apart by their keys.
ASSUME GatewayAssumption ==
    /\ IsFiniteSet(Calls)
    /\ Providers \in Seq({Providers[i] : i \in DOMAIN Providers})
    /\ {OrganizationLimit, ProviderLimit, UserLimit, MutationLimit, MaxTime} \subseteq Nat
    /\ Window \in Nat \ {0}
ASSUME KeysAssumption ==
    LET registered == {Providers[i] : i \in DOMAIN Providers} IN
    /\ registered \cap Users = {}
    /\ {None, "organization", "mutation"} \cap (registered \cup Users \cup Cloud) = {}
    /\ None \notin Calls \cup G!Errors
ASSUME TurnAssumption   == MaxCalls \in Nat
ASSUME AccessAssumption == Founder \in People /\ None \notin People
ASSUME StoreAssumption  == MaxBlobs \in Nat /\ MaxVersions \in Nat /\ MaxEdits \in Nat

OrganizationInit == Init /\ G!Init /\ T!Init /\ A!Init /\ R!Init /\ I!Init

OrganizationNext ==
    \/ /\ part = "storage" /\ Next
       /\ UNCHANGED <<gatewayVars, turnVars, accessVars, resourceVars, installationVars>>
    \/ /\ \/ part = "gateway" /\ G!CallNext
          \/ part = "mutations" /\ G!MutationNext
       /\ UNCHANGED <<vars, turnVars, accessVars, resourceVars, installationVars>>
    \/ /\ part = "turn" /\ T!Next
       /\ UNCHANGED <<vars, gatewayVars, accessVars, resourceVars, installationVars>>
    \/ /\ part = "access" /\ A!Next
       /\ UNCHANGED <<vars, gatewayVars, turnVars, resourceVars, installationVars>>
    \/ /\ part = "resources" /\ R!Next
       /\ UNCHANGED <<vars, gatewayVars, turnVars, accessVars, installationVars>>
    \/ /\ part = "installations" /\ I!Next
       /\ UNCHANGED <<vars, gatewayVars, turnVars, accessVars, resourceVars>>

OrganizationSpec ==
    OrganizationInit /\ [][OrganizationNext /\ part' = part]_<<organizationVars, part>>

OrganizationTypeOK ==
    /\ part = "storage" => TypeOK
    /\ part \in {"gateway", "mutations"} => G!TypeOK
    /\ part = "turn" => T!TypeOK
    /\ part = "access" => A!TypeOK
    /\ part = "resources" => R!TypeOK
    /\ part = "installations" => I!TypeOK

\* Reservations fit the quota, what exceeds it slipped through one of three named
\* gaps, and an operation that ended holds nothing back (StorageQuota).
AccountKept == part = "storage" => ReservationsFit /\ OvershootBounded /\ NothingHeldBack

\* The counters of the budgets agree with the calls charged, none is ever over its
\* limit, nothing is sent to a provider the call was not charged for or its data may
\* not reach, and calls that lock several counters never wait in a circle
\* (ModelGateway).
BudgetKept ==
    part \in {"gateway", "mutations"} => G!BudgetKept /\ G!LocalStaysLocal /\ G!NoWaitCycle

\* An answer is what it is shown as, and once the bindings are revoked a session begins
\* nothing but the one thing that had passed its look before (KnowledgeTurn).
TurnHonest == part = "turn" => T!AnswerHonest /\ T!RevocationStops

\* An account is made once, by the one code or invitation that was used, and the
\* organization and the space keep their owners (Access).
AccessKept == part = "access" => A!EntryOnce /\ A!OwnersStay

\* The versions of a document are numbered, stored and told apart (Resources).
VersionsLinked == part = "resources" => R!VersionsLinked

\* One installation of a skill is enabled, pinned to what was read (SkillInstallations).
OneEnabled == part = "installations" => I!OneEnabled
=============================================================================
