-------------------------------- MODULE Access --------------------------------
(***************************************************************************)
(* Who may enter an organization and one of its spaces: trial signup with  *)
(* an emailed code, invitations, and the management of members.  The two   *)
(* ways to an account are transactions of several statements, the others   *)
(* read in one statement what they write after in another.  A statement    *)
(* waits for the rows that another transaction wrote and did not commit    *)
(* yet; a transaction that fails or dies leaves none.                      *)
(***************************************************************************)
EXTENDS Naturals, FiniteSets

CONSTANTS
    Requests,       \* requests under way at a time
    People,         \* email addresses
    Founder,        \* the owner of the organization
    Invitations, Codes,
    None

VARIABLES
    made,       \* what an account was made by: the row of app_user
    member,     \* organization_membership
    spaceRole,  \* space_membership of the space
    owner,      \* knowledge_space.created_by
    invitation, \* organization_invitation
    code,       \* signup_verification_code
    request     \* what a request is about to do, and what it wrote uncommitted

accessVars == <<made, member, spaceRole, owner, invitation, code, request>>

Roles == {"viewer", "admin", "owner"}
NoMember == [role |-> "none", disabled |-> FALSE]
NoInvitation == [status |-> "none", person |-> None, role |-> "none", space |-> "none", accepted |-> 0]
NoCode == [status |-> "none", person |-> None]

Idle == [op |-> "none", at |-> "idle", person |-> None, id |-> None, flag |-> FALSE, role |-> "none",
         wrote |-> {}]

Init ==
    /\ made = [p \in People |-> IF p = Founder THEN {"setup"} ELSE {}]
    /\ member = [p \in People |-> IF p = Founder THEN [role |-> "owner", disabled |-> FALSE]
                                                ELSE NoMember]
    /\ spaceRole = [p \in People |-> "none"]
    /\ owner = None
    /\ invitation = [i \in Invitations |-> NoInvitation]
    /\ code = [k \in Codes |-> NoCode]
    /\ request = [q \in Requests |-> Idle]

Account(p) == made[p] # {}
Active(p) == member[p].role # "none" /\ ~ member[p].disabled
OrganizationAdmin(p) == Active(p) /\ member[p].role \in {"admin", "owner"}
SpaceAdmin(p) == Active(p) /\ spaceRole[p] \in {"admin", "owner"}

\* The row is not locked by another transaction.
Unlocked(q, row) == \A r \in Requests \ {q} : row \notin request[r].wrote

Begins(q, op, at, person, id) ==
    request[q].op = "none"
    /\ request' = [request EXCEPT ![q] = [Idle EXCEPT !.op = op, !.at = at, !.person = person,
                                                      !.id = id]]
Goes(q, at) == request' = [request EXCEPT ![q].at = at]
Writes(q, row, at) == request' = [request EXCEPT ![q].wrote = @ \cup {row}, ![q].at = at]
Ends(q) == request' = [request EXCEPT ![q] = Idle]

Tables == <<made, member, spaceRole, owner, invitation, code>>

-----------------------------------------------------------------------------
CreateSpace(p) ==
    /\ Active(p)
    /\ owner = None
    /\ owner' = p
    /\ spaceRole' = [spaceRole EXCEPT ![p] = "owner"]
    /\ UNCHANGED <<made, member, invitation, code, request>>

CreateInvitation(i, p, role, space) ==
    /\ \E admin \in People : OrganizationAdmin(admin)
    /\ invitation[i].status = "none"
    /\ space # "none" => owner # None
    /\ invitation' = [invitation EXCEPT ![i].status = "open", ![i].person = p, ![i].role = role,
                                        ![i].space = space]
    /\ UNCHANGED <<made, member, spaceRole, owner, code, request>>

\* One conditional statement, which waits for an acceptance under way.
RevokeInvitation(i) ==
    /\ \E admin \in People : OrganizationAdmin(admin)
    /\ invitation[i].status = "open"
    /\ \A q \in Requests : <<"invitation", i>> \notin request[q].wrote
    /\ invitation' = [invitation EXCEPT ![i].status = "revoked"]
    /\ UNCHANGED <<made, member, spaceRole, owner, code, request>>

-----------------------------------------------------------------------------
\* An expired invitation, or code, is refused here as if there was none.
Accept(q, i) ==
    /\ invitation[i].status = "open"
    /\ Begins(q, "accept", "look", invitation[i].person, i)
    /\ UNCHANGED Tables

\* Looks for the account.  Signup refuses an existing one, and looks for the code.
Look(q) ==
    /\ request[q].at = "look"
    /\ CASE request[q].op = "accept" ->
               Goes(q, IF Account(request[q].person) THEN "member" ELSE "account")
         [] request[q].op = "signup" ->
               LET k == request[q].id IN
               IF ~ Account(request[q].person) /\ code[k].status = "stored"
                  THEN Goes(q, "consume") ELSE Ends(q)
    /\ UNCHANGED Tables

\* The unique email: a second insert waits for the first and fails when it commits.
InsertAccount(q) ==
    LET p == request[q].person IN
    /\ request[q].at = "account"
    /\ Unlocked(q, <<"account", p>>)
    /\ IF Account(p) THEN Ends(q)
       ELSE Writes(q, <<"account", p>>, IF request[q].op = "accept" THEN "member" ELSE "commit")
    /\ UNCHANGED Tables

\* onConflictDoNothing: a member stays what and as disabled as they were.
InsertMember(q) ==
    LET row == <<"member", request[q].person>> IN
    /\ request[q].at = "member"
    /\ Unlocked(q, row)
    /\ IF member[request[q].person].role = "none" THEN Writes(q, row, "space")
                                                 ELSE Goes(q, "space")
    /\ UNCHANGED Tables

InsertSpaceMember(q) ==
    LET row == <<"space", request[q].person>> IN
    /\ request[q].at = "space"
    /\ Unlocked(q, row)
    /\ IF invitation[request[q].id].space # "none" /\ spaceRole[request[q].person] = "none"
          THEN Writes(q, row, "mark") ELSE Goes(q, "mark")
    /\ UNCHANGED Tables

MarkAcceptedAgain(q) ==
    /\ request[q].at = "mark"
    /\ Unlocked(q, <<"invitation", request[q].id>>)
    /\ Writes(q, <<"invitation", request[q].id>>, "commit")
    /\ UNCHANGED Tables

MarkAccepted(q) ==
    LET i == request[q].id IN
    /\ request[q].at = "mark"
    /\ Unlocked(q, <<"invitation", i>>)
    /\ IF invitation[i].status = "open" THEN Writes(q, <<"invitation", i>>, "commit") ELSE Ends(q)
    /\ UNCHANGED Tables

CommitAcceptance(q) ==
    LET i == request[q].id
        p == request[q].person
        wrote == {row[1] : row \in request[q].wrote}
    IN
    /\ request[q].op = "accept" /\ request[q].at = "commit"
    /\ made' = [made EXCEPT ![p] = IF "account" \in wrote THEN @ \cup {i} ELSE @]
    /\ member' = [member EXCEPT ![p] =
                    IF "member" \in wrote THEN [role |-> invitation[i].role, disabled |-> FALSE] ELSE @]
    /\ spaceRole' = [spaceRole EXCEPT ![p] = IF "space" \in wrote THEN invitation[i].space ELSE @]
    /\ invitation' = [invitation EXCEPT ![i].status = "accepted", ![i].accepted = @ + 1]
    /\ Ends(q)
    /\ UNCHANGED <<owner, code>>

-----------------------------------------------------------------------------
\* The code is stored, and valid, before it is sent.
RequestCode(q, k, p) ==
    /\ ~ Account(p)
    /\ code[k].status = "none"
    /\ code' = [code EXCEPT ![k].status = "stored", ![k].person = p]
    /\ Begins(q, "code", "send", p, k)
    /\ UNCHANGED <<made, member, spaceRole, owner, invitation>>

CodeSent(q) == request[q].at = "send" /\ Ends(q) /\ UNCHANGED Tables

\* A sender that fails may have delivered the code all the same.
SendFails(q) ==
    /\ request[q].at = "send"
    /\ Unlocked(q, <<"code", request[q].id>>)
    /\ code' = [code EXCEPT ![request[q].id].status = "deleted"]
    /\ Ends(q)
    /\ UNCHANGED <<made, member, spaceRole, owner, invitation>>

Verify(q, k) ==
    /\ code[k].status # "none"
    /\ Begins(q, "signup", "look", code[k].person, k)
    /\ UNCHANGED Tables

Consume(q) ==
    LET k == request[q].id IN
    /\ request[q].at = "consume"
    /\ Unlocked(q, <<"code", k>>)
    /\ IF code[k].status = "stored" THEN Writes(q, <<"code", k>>, "account") ELSE Ends(q)
    /\ UNCHANGED Tables

\* The account comes with an organization and a space of its own; the wiki of that
\* space is initialized and the session created after.
CommitSignup(q) ==
    /\ request[q].op = "signup" /\ request[q].at = "commit"
    /\ made' = [made EXCEPT ![request[q].person] = @ \cup {request[q].id}]
    /\ code' = [code EXCEPT ![request[q].id].status = "consumed"]
    /\ Ends(q)
    /\ UNCHANGED <<member, spaceRole, owner, invitation>>

\* The process dies; of a code to be sent the row stays.
Die(q) == request[q].op # "none" /\ Ends(q) /\ UNCHANGED Tables

-----------------------------------------------------------------------------
LookAnySpaceMember(q, op, p, role) ==
    /\ request[q].op = "none"
    /\ \E admin \in People : SpaceAdmin(admin)
    /\ IF op = "role" THEN member[p].role # "none" /\ ~ member[p].disabled
                      ELSE spaceRole[p] # "none"
    /\ request' = [request EXCEPT ![q] = [Idle EXCEPT !.op = op, !.at = "write", !.person = p,
                                                      !.role = role]]
    /\ UNCHANGED Tables

\* The managers of members look first, and write the row by its key.
LookSpaceMember(q, op, p, role) ==
    /\ request[q].op = "none"
    /\ \E admin \in People : SpaceAdmin(admin)
    /\ spaceRole[p] # "owner"
    /\ IF op = "role" THEN member[p].role # "none" /\ ~ member[p].disabled
                      ELSE spaceRole[p] # "none"
    /\ request' = [request EXCEPT ![q] = [Idle EXCEPT !.op = op, !.at = "write", !.person = p,
                                                      !.role = role]]
    /\ UNCHANGED Tables

WriteSpaceMember(q) ==
    LET p == request[q].person IN
    /\ request[q].at = "write" /\ request[q].op \in {"role", "remove"}
    /\ Unlocked(q, <<"space", p>>)
    /\ spaceRole' = [spaceRole EXCEPT ![p] = request[q].role]
    /\ Ends(q)
    /\ UNCHANGED <<made, member, owner, invitation, code>>

LookUser(q, p, disabled) ==
    /\ request[q].op = "none"
    /\ \E admin \in People \ {p} : OrganizationAdmin(admin)
    /\ member[p].role \notin {"none", "owner"}
    /\ request' = [request EXCEPT ![q] = [Idle EXCEPT !.op = "disable", !.at = "write",
                                                      !.person = p, !.flag = disabled]]
    /\ UNCHANGED Tables

WriteUser(q) ==
    /\ request[q].at = "write" /\ request[q].op = "disable"
    /\ member' = [member EXCEPT ![request[q].person].disabled = request[q].flag]
    /\ Ends(q)
    /\ UNCHANGED <<made, spaceRole, owner, invitation, code>>

Next ==
    \/ \E p \in People :
          \/ CreateSpace(p)
          \/ p # Founder /\ \E i \in Invitations, role \in {"viewer", "admin"}, space \in {"none", "viewer"} :
                CreateInvitation(i, p, role, space)
    \/ \E i \in Invitations : RevokeInvitation(i)
    \/ \E q \in Requests :
          \/ \E i \in Invitations : Accept(q, i)
          \/ \E k \in Codes : Verify(q, k) \/ \E p \in People \ {Founder} : RequestCode(q, k, p)
          \/ Look(q) \/ InsertAccount(q) \/ InsertMember(q) \/ InsertSpaceMember(q)
          \/ MarkAccepted(q) \/ CommitAcceptance(q)
          \/ CodeSent(q) \/ SendFails(q) \/ Consume(q) \/ CommitSignup(q) \/ Die(q)
          \/ \E p \in People \ {Founder} :
                \/ LookSpaceMember(q, "role", p, "admin")
                \/ LookSpaceMember(q, "remove", p, "none")
          \/ \E p \in People, disabled \in BOOLEAN : LookUser(q, p, disabled)
          \/ WriteSpaceMember(q) \/ WriteUser(q)

Spec == Init /\ [][Next]_accessVars

-----------------------------------------------------------------------------
TypeOK ==
    /\ \A p \in People : made[p] \subseteq {"setup"} \cup Invitations \cup Codes
    /\ member \in [People -> [role : Roles \cup {"none"}, disabled : BOOLEAN]]
    /\ spaceRole \in [People -> Roles \cup {"none"}]
    /\ owner \in People \cup {None}
    /\ \A i \in Invitations : invitation[i].status \in {"none", "open", "accepted", "revoked"}
    /\ \A k \in Codes : code[k].status \in {"none", "stored", "consumed", "deleted"}
    /\ \A q \in Requests : request[q].op \in
          {"none", "accept", "signup", "code", "role", "remove", "disable"}

Invited(p) == {i \in Invitations : invitation[i].status = "accepted" /\ invitation[i].person = p}

\* An account has one origin, however many codes and invitations its address got and
\* however they overlap; an invitation is accepted by one commit, never after it was
\* revoked; a code that was used up made the account of its address; and whoever is
\* a member was invited, with the role they have.
EntryOnce ==
    /\ \A p \in People :
          /\ Cardinality(made[p]) <= 1
          /\ p # Founder /\ member[p].role # "none" =>
                Account(p) /\ \E i \in Invited(p) : invitation[i].role = member[p].role
    /\ \A i \in Invitations :
          /\ invitation[i].accepted = (IF invitation[i].status = "accepted" THEN 1 ELSE 0)
          /\ invitation[i].accepted = 1 => member[invitation[i].person].role # "none"
    /\ \A k \in Codes : code[k].status = "consumed" => made[code[k].person] = {k}

\* The organization keeps its owner and the space the one who created it: no request
\* under way disables, removes or demotes them, nor makes another; and the members
\* of the space are members of its organization.
OwnersStay ==
    /\ member[Founder] = [role |-> "owner", disabled |-> FALSE]
    /\ {p \in People : member[p].role = "owner"} = {Founder}
    /\ {p \in People : spaceRole[p] = "owner"} = {owner} \ {None}
    /\ \A p \in People : spaceRole[p] # "none" => member[p].role # "none"
=============================================================================
