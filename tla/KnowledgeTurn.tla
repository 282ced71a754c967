----------------------------- MODULE KnowledgeTurn -----------------------------
(***************************************************************************)
(* How one question is answered, by any of the three loops: "pi", the      *)
(* default of a session, runs the model and the tools it asks for through  *)
(* the Pi library; "internal", the rollback of it, drives a fixed protocol *)
(* of search, read and answer itself; "query" is the protocol without      *)
(* tools, a signal or a session.                                           *)
(*                                                                         *)
(* The model is outside and answers anything.  Memberships may be revoked  *)
(* and the run stopped at any moment; both are noticed only where the code *)
(* looks.  A look reads the database, and what it allows is done by a later *)
(* step: passed is what the turn has looked for and not yet done, and what *)
(* matters is what is still done once the bindings are revoked.            *)
(***************************************************************************)
EXTENDS Naturals, Sequences, Functions

CONSTANT MaxCalls       \* bounds the model calls of a turn

VARIABLES
    turn,       \* where the turn stands
    readable,   \* the session's bindings are active and its spaces still the member's
    aborted,    \* the run was stopped
    passed,     \* the look that succeeded and whose object is still to be begun
    overtaken,  \* what had passed when the bindings were revoked
    late        \* what was begun after a revocation

turnVars == <<turn, readable, aborted, passed, overtaken, late>>

Loops == {"internal", "pi", "query"}
Texts == {"valid", "invalid"}       \* a grounded answer citing the bundle, or anything else
ToolsAsked == {"search", "read", "nothing", "list", "unknown", "two"}
Failures == {"error", "budget"}
Answers == Texts \cup ToolsAsked \cup Failures \cup {"malformed"}
Outcomes == {"none", "completed", "revoked", "cancelled", "budget", "failed"}

\* What a look is for: a model call, the telling of a tool event, a tool of the pi loop,
\* a chunk of the answer, the result.
Fetches == {"search", "read", "list"}
Things == {"call", "notice", "answer", "result"} \cup Fetches

Notice == [phase : {"requested", "completed"}, tool : {"search", "read"}]
Requested(t) == [phase |-> "requested", tool |-> t]
Completed(t) == [phase |-> "completed", tool |-> t]
Both(t) == <<Requested(t), Completed(t)>>

Idle == [loop |-> "query", gateway |-> FALSE, evidence |-> FALSE, at |-> "idle",
         todo |-> <<>>, batch |-> <<>>, next |-> "idle", told |-> <<>>, asked |-> 0, searched |-> FALSE,
         read |-> FALSE, denied |-> FALSE, last |-> "none", call |-> "none",
         answer |-> "none", outcome |-> "none"]

Init == /\ turn = Idle /\ readable = TRUE /\ aborted = FALSE
        /\ passed = "none" /\ overtaken = "none" /\ late = <<>>

-----------------------------------------------------------------------------
Goes(place) == turn' = [turn EXCEPT !.at = place]
Ends(outcome) == turn' = [turn EXCEPT !.at = "ended", !.outcome = outcome]
Quiet == UNCHANGED <<readable, aborted, passed, overtaken, late>>

\* assertReadable and throwIfAborted, in this order; a query has neither.
Checked == turn.loop = "query" \/ (readable /\ ~ aborted)
Denied == ~ Checked /\ Ends(IF readable THEN "cancelled" ELSE "revoked") /\ Quiet

\* The two apart: the bindings are read, and the signal is looked at when they are known.
Look(what) ==
    /\ \/ (readable \/ turn.loop = "query") /\ passed' = what /\ UNCHANGED turn
       \/ ~ readable /\ turn.loop # "query" /\ passed' = "none" /\ Ends("revoked")
    /\ UNCHANGED <<readable, aborted, overtaken, late>>
Stops == /\ aborted /\ turn.loop # "query" /\ Ends("cancelled")
         /\ passed' = "none" /\ UNCHANGED <<readable, aborted, overtaken, late>>
GoesOn == ~ aborted \/ turn.loop = "query"

Begins(what) == /\ late' = (IF readable THEN late ELSE Append(late, what))
                /\ passed' = "none"
                /\ UNCHANGED <<readable, aborted, overtaken>>

\* The answer the turn falls back on is the text of the evidence itself.
FallBack(call) ==
    turn' = [turn EXCEPT !.at = "answered", !.answer = "fallback", !.call = call]
Generate(text) == turn' = [turn EXCEPT !.at = "answered", !.answer = "generated",
                                       !.call = "succeeded", !.last = text]

Start(loop, gateway) ==
    /\ turn.at = "idle"
    /\ turn' = [turn EXCEPT !.loop = loop, !.gateway = gateway, !.at = "search"]
    /\ Quiet

\* The session's component of the pi loop searches without looking at the bindings.
SearchBound ==
    /\ turn.at = "search"
    /\ \/ turn.loop # "pi" /\ Denied
       \/ turn.loop = "pi" /\ aborted /\ Ends("cancelled") /\ Quiet
       \/ /\ IF turn.loop = "pi" THEN ~ aborted ELSE Checked
          /\ Goes("searching")
          /\ Quiet

Found(evidence) ==
    /\ turn.at = "searching"
    /\ turn.loop = "pi" \/ Checked
    /\ turn' = [turn EXCEPT !.evidence = evidence,
                            !.at = IF turn.gateway /\ evidence THEN "invoke" ELSE "answered",
                            !.answer = IF turn.gateway /\ evidence THEN "none" ELSE "fallback"]
    /\ Quiet

FoundTooLate == turn.at = "searching" /\ turn.loop # "pi" /\ Denied

-----------------------------------------------------------------------------
\* A model call of the two loops that look before every one of them.  "ground" is
\* the second try, without tools and with the evidence in the prompt.  What begins is
\* the request to the provider: the gateway charges the budget in a transaction of
\* its own first, which lies between the look and it.
LookToInvoke ==
    /\ turn.at \in {"invoke", "ground"} /\ turn.loop # "pi" /\ passed = "none"
    /\ Look("call") \/ (turn.at = "invoke" /\ Stops)

Invoke ==
    /\ turn.at \in {"invoke", "ground"} /\ turn.loop # "pi" /\ passed = "call"
    /\ \/ Stops
       \/ /\ GoesOn
          /\ turn' = [turn EXCEPT !.asked = @ + 1,
                                  !.at = IF turn.at = "ground" THEN "waitGround" ELSE "wait"]
          /\ Begins("call")

\* The protocol asks for search, then for read, then for the answer.
Protocol == turn.loop = "internal"
Fitting == Protocol => turn.searched /\ turn.read

AnswerText(text) ==
    /\ turn.at = "wait" /\ turn.loop # "pi"
    /\ IF text = "valid" /\ Fitting
          THEN Generate(text)
          ELSE turn' = [turn EXCEPT
                  !.at = IF Protocol THEN "notify" ELSE "ground",
                  !.next = "ground",
                  !.todo = IF turn.searched THEN <<>> ELSE Both("search") \o Both("read")]
    /\ Quiet

AskTool(tool) ==
    /\ turn.at = "wait" /\ turn.loop # "pi"
    /\ IF \/ tool = "search" /\ ~ turn.searched
          \/ tool \in {"read", "nothing"} /\ turn.searched /\ ~ turn.read
       THEN turn' = [turn EXCEPT
               !.at = "notify",
               !.next = IF tool = "nothing" THEN "failing" ELSE "invoke",
               !.todo = IF tool = "nothing" THEN <<Requested("read")>> ELSE Both(tool),
               !.searched = TRUE,
               !.read = @ \/ tool = "read"]
       ELSE Goes("failing")
    /\ Quiet

AnswerGroundAny(answer) ==
    /\ turn.at = "waitGround"
    /\ IF answer \in Texts THEN Generate(answer) ELSE Goes("failing")
    /\ Quiet

AnswerGround(answer) ==
    /\ turn.at = "waitGround"
    /\ IF answer = "valid" THEN Generate(answer) ELSE Goes("failing")
    /\ Quiet

CallFails(failure) ==
    /\ turn.at \in {"wait", "waitGround"} /\ turn.loop # "pi"
    /\ IF failure = "budget" THEN Ends("budget") ELSE Goes("failing")
    /\ Quiet

\* What is caught becomes a failed model call, unless the run was stopped meanwhile.
CatchFailure ==
    /\ turn.at = "failing"
    /\ IF aborted /\ turn.loop # "query" THEN Ends("failed") ELSE FallBack("failed")
    /\ Quiet

\* A tool event of the protocol is told after a look by the runtime, one at the
\* signal and a second one by the route; a query has nobody to tell.
LookToNotify ==
    /\ turn.at = "notify" /\ turn.todo # <<>> /\ passed = "none"
    /\ Look(IF Protocol THEN "noticing" ELSE "notice")

Listen ==
    /\ passed = "noticing" \/ (turn.at = "publish" /\ passed = "none")
    /\ \/ Stops
       \/ GoesOn /\ passed' = "asking" /\ UNCHANGED <<turn, readable, aborted, overtaken, late>>

LookAgain ==
    /\ passed = "asking"
    /\ Look(IF turn.at = "publish" THEN "answer" ELSE "notice")

Notify ==
    /\ turn.at \in {"notify", "show"} /\ turn.todo # <<>> /\ passed = "notice"
    /\ turn' = [turn EXCEPT !.told = IF turn.loop = "query" THEN @ ELSE Append(@, Head(turn.todo)),
                            !.todo = Tail(@)]
    /\ Begins("notice")

Notified ==
    /\ turn.at = "notify" /\ turn.todo = <<>>
    /\ Goes(turn.next)
    /\ Quiet

-----------------------------------------------------------------------------
\* The pi loop asks again after every batch of tools, without a check of its own
\* and without a bound on the rounds; late leaves these calls out.
InvokePi ==
    /\ turn.at = "invoke" /\ turn.loop = "pi"
    /\ turn.asked < MaxCalls
    /\ turn' = [turn EXCEPT !.at = "wait", !.asked = @ + 1]
    /\ Quiet

PiText(text) ==
    /\ turn.at = "wait" /\ turn.loop = "pi"
    /\ IF text = "valid" THEN Generate(text) ELSE FallBack("succeeded")
    /\ Quiet

Batch(asked) == IF asked = "two" THEN {<<s, t>> : s, t \in {"read", "unknown"}}
                ELSE {<<IF asked = "nothing" THEN "read" ELSE asked>>}

PiTools(asked) ==
    /\ turn.at = "wait" /\ turn.loop = "pi"
    /\ \E batch \in Batch(asked) :
          turn' = [turn EXCEPT !.at = "tools", !.batch = batch, !.denied = TRUE]
    /\ Quiet

PolicyOfBatch(tool) == tool # "unknown" /\ (readable \/ turn.read)

\* The policy bridge asserts the bindings before a tool it knows; the Pi library
\* answers an unknown one itself.
Policy(tool) == tool # "unknown" /\ readable

\* What the session is shown of a tool; a denied one is reported as completed, too,
\* and one the stream does not know as a completed search.
Shown(tool) == IF tool \in {"search", "read"} THEN Both(tool) ELSE <<Completed("search")>>

PiAllow ==
    /\ turn.at = "tools" /\ turn.batch # <<>> /\ passed = "none"
    /\ Policy(Head(turn.batch)) /\ passed' = Head(turn.batch)
    /\ UNCHANGED <<turn, readable, aborted, overtaken, late>>

\* The tools of a batch run one after another, each after its own look.
PiTool ==
    /\ turn.at = "tools" /\ turn.batch # <<>>
    /\ LET tool == Head(turn.batch) IN
       /\ passed = tool \/ (passed = "none" /\ ~ Policy(tool))
       /\ turn' = [turn EXCEPT !.batch = Tail(@),
                               !.todo = @ \o Shown(tool),
                               !.denied = @ /\ tool # "unknown" /\ passed = "none",
                               !.read = @ \/ passed = "read"]
       /\ IF passed \in Fetches THEN Begins(passed)
          ELSE passed' = "none" /\ UNCHANGED <<readable, aborted, overtaken, late>>

\* A batch of which every tool was denied with terminate ends the loop, and the turn
\* is mapped to run.completed with no text.
PiBatchEnds ==
    /\ turn.at = "tools" /\ turn.batch = <<>>
    /\ IF turn.denied THEN FallBack("succeeded") ELSE Goes("invoke")
    /\ Quiet

\* Every failure, an exhausted budget too, is a run.failed of the turn, which the
\* route answers with the fallback.
PiFails(answer) ==
    /\ turn.at = "wait" /\ turn.loop = "pi"
    /\ FallBack(IF answer = "malformed" THEN "succeeded" ELSE "failed")
    /\ Quiet

-----------------------------------------------------------------------------
ModelAnswers ==
    /\ aborted => turn.loop = "query"
    /\ \/ \E text \in Texts : AnswerText(text) \/ PiText(text)
       \/ \E tool \in ToolsAsked : AskTool(tool) \/ PiTools(tool)
       \/ \E answer \in Answers \ Failures : AnswerGround(answer)
       \/ \E failure \in Failures : CallFails(failure)
       \/ \E failure \in Failures \cup {"malformed"} : PiFails(failure)

\* A call whose signal is aborted rejects, and nothing catches that as a failure.
ModelCancelled ==
    /\ aborted /\ turn.at \in {"wait", "waitGround"} /\ turn.loop # "query"
    /\ Ends("cancelled")
    /\ Quiet

\* The answer of a query is its response.  The route of the sessions looks at the
\* signal, sends the tool events of the pi loop, each after a look at the bindings,
\* then the answer in chunks, each after a look at both.
Answered ==
    /\ turn.at = "answered"
    /\ \/ turn.loop = "query" /\ Ends("completed") /\ Begins("answer")
       \/ Stops
       \/ /\ turn.loop # "query" /\ ~ aborted /\ Quiet
          /\ Goes(IF turn.loop = "pi" THEN "show" ELSE "publish")

LookToShow == turn.at = "show" /\ turn.todo # <<>> /\ passed = "none" /\ Look("notice")
Shows == turn.at = "show" /\ turn.todo = <<>> /\ Goes("publish") /\ Quiet

Publish ==
    /\ turn.at = "publish" /\ passed = "answer"
    /\ UNCHANGED turn \/ Goes("settle")
    /\ Begins("answer")

\* The completion reads the bindings again and commits; a stop that reached the run
\* first is noticed, one whose row is written later is not.
Settle == turn.at = "settle" /\ passed = "none" /\ (Stops \/ Look("result"))
ShowResult == turn.at = "settle" /\ passed = "result" /\ Ends("completed") /\ Begins("result")

Revoke == /\ readable /\ readable' = FALSE /\ overtaken' = passed
          /\ UNCHANGED <<turn, aborted, passed, late>>
Abort == ~ aborted /\ aborted' = TRUE /\ UNCHANGED <<turn, readable, passed, overtaken, late>>

Next ==
    \/ \E loop \in Loops, gateway \in BOOLEAN : Start(loop, gateway)
    \/ SearchBound \/ FoundTooLate \/ \E evidence \in BOOLEAN : Found(evidence)
    \/ LookToInvoke \/ Invoke \/ CatchFailure
    \/ LookToNotify \/ Listen \/ LookAgain \/ Notify \/ Notified
    \/ InvokePi \/ PiAllow \/ PiTool \/ PiBatchEnds
    \/ ModelAnswers \/ ModelCancelled
    \/ Answered \/ LookToShow \/ Shows \/ Publish \/ Settle \/ ShowResult
    \/ Revoke \/ Abort

Spec == Init /\ [][Next]_turnVars

-----------------------------------------------------------------------------
TypeOK ==
    /\ turn \in [loop : Loops, gateway : BOOLEAN, evidence : BOOLEAN,
                 at : {"idle", "search", "searching", "invoke", "ground", "wait", "waitGround",
                       "notify", "tools", "failing", "answered", "show", "publish", "settle", "ended"},
                 todo : Seq(Notice), batch : Seq(ToolsAsked),
                 next : {"idle", "invoke", "ground", "failing"},
                 told : Seq(Notice), asked : 0..(MaxCalls + 4), searched : BOOLEAN,
                 read : BOOLEAN, denied : BOOLEAN, last : Texts \cup {"none"},
                 call : {"none", "succeeded", "failed"},
                 answer : {"none", "fallback", "generated"}, outcome : Outcomes]
    /\ readable \in BOOLEAN /\ aborted \in BOOLEAN
    /\ {passed, overtaken} \subseteq Things \cup ToolsAsked \cup {"none", "noticing", "asking"}
    /\ late \in Seq(Things)

\* What is shown is what it claims to be: a generated answer is the valid text of a
\* call that succeeded and was given evidence, a failed call and a turn without a
\* model leave the extracts, and a turn is completed with an answer.  The protocol
\* asks the model four times at most, and a tool is reported completed once and
\* after it was requested.
AnswerHonest ==
    /\ turn.answer = "generated" => turn.call = "succeeded" /\ turn.last = "valid" /\ turn.evidence
    /\ turn.call = "none" => turn.answer # "generated"
    /\ turn.outcome = "completed" => turn.answer # "none"
    /\ turn.loop # "pi" => turn.asked <= 4
    /\ turn.loop = "internal" =>
          /\ \A i \in DOMAIN turn.told : turn.told[i].phase = "completed" =>
                i > 1 /\ turn.told[i - 1] = Requested(turn.told[i].tool)
          /\ IsInjective(turn.told)

\* Once the bindings are revoked, a session begins at most one thing more: the one it
\* had looked for and not begun yet.  The protocol calls no model, tells of no tool
\* and shows no piece of an answer beyond that one, and the pi loop, which may still
\* call the model, runs no tool, tells of none and shows no piece either.
RevocationStops == turn.loop # "query" => late \in {<<>>, <<overtaken>>}
=============================================================================
