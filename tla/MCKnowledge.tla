------------------------------ MODULE MCKnowledge ------------------------------
(* Model checking the pages of a space and a session that is asked about the *)
(* knowledge.  They share no state, so a behaviour is one of one of the two. *)
(* The session has two spaces, two turns and a request that binds contexts.  *)
EXTENDS AgentSessions, WikiPages, TLC

CONSTANTS s1, s2, t1, t2, o1, a, b
VARIABLE part

TwoSpaces == {s1, s2}
WholeAndTarget == {[space |-> s1, whole |-> TRUE], [space |-> s2, whole |-> FALSE]}
TwoTurns == {t1, t2}
OneBinder == {o1}
TurnSymmetry == Permutations(TwoTurns)

\* The compilations: the sections a and b; b alone, changed, which moves it to the
\* first file; a again, b changed once more.
D(p, text) == [id |-> p, content |-> text]
Results == {<<D(a, 1), D(b, 1)>>, <<D(b, 2)>>, <<D(a, 1), D(b, 3)>>}

KnowledgeInit == Init /\ PagesInit /\ part \in {"session", "pages"}
KnowledgeNext == \/ part = "session" /\ Next /\ UNCHANGED <<pagesVars, part>>
                 \/ part = "pages" /\ PagesNext /\ UNCHANGED <<vars, part>>
KnowledgeSpec == KnowledgeInit /\ [][KnowledgeNext]_<<vars, pagesVars, part>>
===============================================================================
