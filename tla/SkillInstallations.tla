-------------------------- MODULE SkillInstallations --------------------------
(***************************************************************************)
(* The installations of one Agent Skill of an organization, pinned to what *)
(* discovery read of the managed directory.  Installing locks the enabled  *)
(* row, disables it and inserts the new one, of which a unique index       *)
(* allows a single enabled; revoking disables it in one statement.  A      *)
(* statement that had to wait for the row it found looks at that row       *)
(* again, and at no row inserted meanwhile.                                *)
(***************************************************************************)
EXTENDS Naturals, Sequences, FiniteSets

CONSTANTS
    Requests,
    MaxInstalled,   \* bounds the rows
    MaxEdits        \* bounds the changes of the directory

VARIABLES
    directory,  \* the skill's directory, if there is one
    edits,
    installed,  \* agent_skill_installation, in the order of their insertion
    request,    \* where a request stands
    resolved    \* what the last resolution made visible

installationVars == <<directory, edits, installed, request, resolved>>

\* manifest: the listing has wknowledge.manifest.json; text stands for the bytes of
\* SKILL.md and the manifest.
Directory == [manifest : BOOLEAN, text : {"one", "two"}]
NoDirectory == [manifest |-> FALSE, text |-> "none"]
Row == [digest : Directory, executable : BOOLEAN, enabled : BOOLEAN]

Idle == [op |-> "none", at |-> "idle", digest |-> NoDirectory, row |-> 0, locks |-> {}]

Init ==
    /\ directory \in Directory
    /\ edits = 0
    /\ installed = <<>>
    /\ request = [q \in Requests |-> Idle]
    /\ resolved = NoDirectory

\* What a request locks: the row it disables, and the entry of the index.
Index == 0

Enabled == {i \in DOMAIN installed : installed[i].enabled}
Unlocked(q, lock) == \A r \in Requests \ {q} : lock \notin request[r].locks
Goes(q, at) == request' = [request EXCEPT ![q].at = at]
Ends(q) == request' = [request EXCEPT ![q] = Idle]

-----------------------------------------------------------------------------
\* The administrator of the server changes the directory, or takes it away.
Edit(content) ==
    /\ edits < MaxEdits
    /\ directory' = content
    /\ edits' = edits + 1
    /\ UNCHANGED <<installed, request, resolved>>

\* discoverAgentSkillCatalog lists the directory first and reads its files after;
\* a file that is gone by then fails the discovery.
List(q, op) ==
    /\ request[q].op = "none"
    /\ directory # NoDirectory
    /\ request' = [request EXCEPT ![q] = [Idle EXCEPT !.op = op, !.at = "read",
                                                      !.digest.manifest = directory.manifest]]
    /\ UNCHANGED <<directory, edits, installed, resolved>>

ReadFiles(q) ==
    /\ request[q].at = "read"
    /\ IF directory = NoDirectory \/ (request[q].digest.manifest /\ ~ directory.manifest)
          THEN Ends(q)
          ELSE request' = [request EXCEPT
                  ![q].at = IF request[q].op = "install" THEN "find" ELSE "resolve",
                  ![q].digest.text = directory.text]
    /\ UNCHANGED <<directory, edits, installed, resolved>>

\* The snapshot of the statement: the row that is enabled now.
Find(q) ==
    /\ request[q].at = "find"
    /\ request' = [request EXCEPT
          ![q].row = IF Enabled = {} THEN 0 ELSE CHOOSE i \in Enabled : TRUE,
          ![q].at = IF Enabled = {} THEN "insert" ELSE "lock"]
    /\ UNCHANGED <<directory, edits, installed, resolved>>

\* The same pin is returned as it is; a row that was disabled meanwhile is not found.
LockCurrent(q) ==
    LET row == request[q].row IN
    /\ request[q].at = "lock"
    /\ Unlocked(q, row)
    /\ IF ~ installed[row].enabled
          THEN request' = [request EXCEPT ![q].at = "insert", ![q].row = 0]
       ELSE IF installed[row].digest = request[q].digest THEN Ends(q)
       ELSE request' = [request EXCEPT ![q].at = "insert", ![q].locks = @ \cup {row}]
    /\ UNCHANGED <<directory, edits, installed, resolved>>

InsertRowAnyway(q) ==
    /\ request[q].at = "insert"
    /\ Unlocked(q, Index)
    /\ request' = [request EXCEPT ![q].at = "commit", ![q].locks = @ \cup {Index}]
    /\ UNCHANGED <<directory, edits, installed, resolved>>

\* agent_skill_installation_enabled_unique: waits for an uncommitted row, and fails
\* for a committed one that is not the row disabled just before.
InsertRow(q) ==
    /\ request[q].at = "insert"
    /\ Unlocked(q, Index)
    /\ IF Enabled \subseteq {request[q].row}
          THEN request' = [request EXCEPT ![q].at = "commit", ![q].locks = @ \cup {Index}]
          ELSE Ends(q)
    /\ UNCHANGED <<directory, edits, installed, resolved>>

Disabled(rows, i) == [k \in DOMAIN rows |-> IF k = i THEN [rows[k] EXCEPT !.enabled = FALSE]
                                                     ELSE rows[k]]

CommitInstall(q) ==
    /\ request[q].at = "commit"
    /\ Len(installed) < MaxInstalled
    /\ installed' = Append(Disabled(installed, request[q].row),
                           [digest |-> request[q].digest,
                            executable |-> request[q].digest.manifest, enabled |-> TRUE])
    /\ Ends(q)
    /\ UNCHANGED <<directory, edits, resolved>>

\* The statement of a revocation finds its row, and may have to wait for it.
Revoke(q) ==
    /\ request[q].op = "none"
    /\ Enabled # {}
    /\ request' = [request EXCEPT ![q] = [Idle EXCEPT !.op = "revoke", !.at = "revoke",
                                                      !.row = CHOOSE i \in Enabled : TRUE]]
    /\ UNCHANGED <<directory, edits, installed, resolved>>

RevokeRow(q) ==
    /\ request[q].at = "revoke"
    /\ Unlocked(q, request[q].row)
    /\ installed' = Disabled(installed, request[q].row)
    /\ Ends(q)
    /\ UNCHANGED <<directory, edits, resolved>>

\* resolveInstalledAgentSkills: a skill that drifted from its pin fails the whole
\* resolution.
Resolve(q) ==
    /\ request[q].at = "resolve"
    /\ \E i \in Enabled :
          IF installed[i].digest = request[q].digest THEN resolved' = installed[i].digest
                                                     ELSE UNCHANGED resolved
    /\ Ends(q)
    /\ UNCHANGED <<directory, edits, installed>>

\* The request fails or its process dies, and its transaction with it.
Die(q) == request[q].op # "none" /\ Ends(q) /\ UNCHANGED <<directory, edits, installed, resolved>>

Next ==
    \/ \E content \in Directory \cup {NoDirectory} : Edit(content)
    \/ \E q \in Requests :
          \/ \E op \in {"install", "resolve"} : List(q, op)
          \/ ReadFiles(q) \/ Find(q) \/ LockCurrent(q) \/ InsertRow(q) \/ CommitInstall(q)
          \/ Revoke(q) \/ RevokeRow(q) \/ Resolve(q) \/ Die(q)

Spec == Init /\ [][Next]_installationVars

-----------------------------------------------------------------------------
TypeOK ==
    /\ directory \in Directory \cup {NoDirectory}
    /\ edits \in 0..MaxEdits
    /\ installed \in Seq(Row)
    /\ \A q \in Requests : request[q].at \in
          {"idle", "read", "find", "lock", "insert", "commit", "revoke", "resolve"}
    /\ resolved \in Directory \cup {NoDirectory}

\* One installation is enabled at most, and it is the last one inserted, however the
\* installations and revocations overlap; a skill is executable only if the listing
\* its digest is of had a manifest; and what a resolution made visible was installed
\* just so, whatever the directory held by then.
OneEnabled ==
    /\ Enabled \subseteq {Len(installed)}
    /\ \A i \in DOMAIN installed : installed[i].executable <=> installed[i].digest.manifest
    /\ resolved # NoDirectory => \E i \in DOMAIN installed : installed[i].digest = resolved
=============================================================================
