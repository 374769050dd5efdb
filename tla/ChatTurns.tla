----------------------------- MODULE ChatTurns -----------------------------
(***************************************************************************)
(* Turns of the chat pipeline (pipeline.Runner) on one session.  A turn    *)
(* writes the user's message, loads the history, and then thinks, acts and *)
(* observes until the model answers with text.  Nothing keeps two turns of *)
(* a session apart: each writes its rows as it goes, and each loads what   *)
(* the others have written by then.  What a turn shows the model after     *)
(* that is its own copy of the history.                                    *)
(***************************************************************************)
EXTENDS ChatHistory

CONSTANTS
    Turns,     \* messages sent to the session
    MaxIter,   \* MaxIterations
    Cap,       \* HistoryCap
    MaxCalls,  \* bound on the tool calls of one reply
    Contents,  \* what the text of a stored assistant row may decode to
    MaxRequests,  \* bound on the replies with tool calls, of all turns
    MaxTroubles  \* bound on lost writes and restarts

\* The ids actObserve gives calls that come without one: call_<iter>_<i>.
CallId == (0 .. MaxIter - 1) \X (1 .. MaxCalls)

ASSUME TurnsAssumption ==
    /\ MaxIter \in Nat \ {0}
    /\ Cap \in Nat \ {0}
    /\ MaxCalls \in Nat \ {0}
    /\ Contents \subseteq [text : BOOLEAN, calls : SUBSET CallId, bare : BOOLEAN]
    /\ MaxRequests \in Nat
    /\ MaxTroubles \in Nat

VARIABLES
    rows,    \* the messages of the session, oldest first
    run,     \* turn -> its Runner
    met,     \* history: turn -> the turns it overlapped with
    troubles   \* lost writes and restarts so far

turnVars == <<rows, run, met, troubles>>

\* prompt is what the turn sends to the model, without the system message; todo
\* holds the ids of the tool calls not made yet; lost is history: a write of the
\* turn's was lost.
Fresh == [pc |-> "new", iter |-> 0, prompt |-> <<>>, todo |-> <<>>, lost |-> FALSE]

InitTurns ==
    /\ rows = <<>>
    /\ run = [t \in Turns |-> Fresh]
    /\ met = [t \in Turns |-> {}]
    /\ troubles = 0

Running == {t \in Turns : run[t].pc \notin {"new", "over", "posted"}}

\* What is left of a turn that goes no further than pc.
Ended(t, pc) == [run[t] EXCEPT !.pc = pc, !.prompt = <<>>, !.todo = <<>>]

\* t appears among the turns that are running.
Meet(t) ==
    met' = [u \in Turns |-> IF u = t THEN Running
                            ELSE IF u \in Running THEN met[u] \cup {t}
                            ELSE met[u]]

-----------------------------------------------------------------------------
\* addTurnMessage and AddMessage past the first message: the turn, which goes on
\* as next, does not look at the error.
Write(t, m, next) ==
    \/ /\ rows' = Append(rows, m)
       /\ run' = [run EXCEPT ![t] = next]
       /\ UNCHANGED troubles
    \/ /\ troubles < MaxTroubles
       /\ troubles' = troubles + 1
       /\ run' = [run EXCEPT ![t] = [next EXCEPT !.lost = TRUE]]
       /\ UNCHANGED rows

\* Run stores the user's message first.
Begin(t) ==
    /\ run[t].pc = "new"
    /\ rows' = Append(rows, UserRow(t))
    /\ run' = [run EXCEPT ![t].pc = "load"]
    /\ Meet(t)
    /\ UNCHANGED troubles

\* POST /api/sessions/{id}/messages stores a row of any role and runs no turn; t
\* is used up by it.
PostMessage(t, row) ==
    /\ run[t].pc = "new"
    /\ rows' = Append(rows, row)
    /\ run' = [run EXCEPT ![t] = Ended(t, "posted")]
    /\ Meet(t)
    /\ UNCHANGED troubles

\* Mutant of LoadHistory: the cap is applied to the sanitised history.
LoadHistoryCapLast(t) ==
    /\ run[t].pc = "load"
    /\ run' = [run EXCEPT ![t].pc = "think",
                          ![t].prompt = CapLast(Sanitize(rows), Cap)]
    /\ UNCHANGED <<rows, met, troubles>>

\* loadHistory
LoadHistory(t) ==
    /\ run[t].pc = "load"
    /\ run' = [run EXCEPT ![t].pc = "think",
                          ![t].prompt = Sanitize(CapLast(rows, Cap))]
    /\ UNCHANGED <<rows, met, troubles>>

\* think: the model answers with text and the turn ends.  The text is stored as it
\* is, and a later load decodes it: it may say anything, and may be empty.
Reply(t, says) ==
    /\ run[t].pc = "think"
    /\ Write(t, AssistantRow(t, says), Ended(t, "over"))
    /\ UNCHANGED met

\* The ids actObserve gives n calls that come without one.  They repeat from turn
\* to turn, which a provider's own ids do not, so what holds with these holds
\* with those; a provider gives no two calls of a reply the same id.
CallIds(t, n) == [i \in 1 .. n |-> <<run[t].iter, i>>]

\* think: the model asks for tools; actObserve stores the request.
Request(t, text, calls) ==
    LET row == AssistantRow(t, [text |-> text, calls |-> Range(calls), bare |-> FALSE])
    IN  /\ run[t].pc = "think"
        /\ MapThenSumSet(LAMBDA u : run[u].iter, Turns) < MaxRequests
        /\ Write(t, row, [run[t] EXCEPT !.pc = "act", !.iter = @ + 1,
                                        !.prompt = Append(@, row), !.todo = calls])
        /\ UNCHANGED met

\* actObserve makes the next call, which yields a result or an approval to wait
\* for.  The latter ends the loop and leaves the calls after it without a
\* result.
Act(t, pending) ==
    LET row  == ToolRow(t, Head(run[t].todo))
        todo == Tail(run[t].todo)
        over == pending \/ (todo = <<>> /\ run[t].iter = MaxIter)
    IN  /\ run[t].pc = "act"
        /\ Write(t, row, IF over THEN Ended(t, "conclude")
                         ELSE [run[t] EXCEPT !.pc = IF todo = <<>> THEN "think" ELSE "act",
                                             !.todo = todo,
                                             !.prompt = Append(@, row)])
        /\ UNCHANGED met

\* The text a turn ends with when it waits for an approval or has used up its
\* iterations: the model's last text, as it is when no approval has an id.
Conclude(t, says) ==
    /\ run[t].pc = "conclude"
    /\ Write(t, AssistantRow(t, says), Ended(t, "over"))
    /\ UNCHANGED met

\* The store, the model or the request's context ends a turn with an error.
Fail(t) ==
    /\ run[t].pc \in {"new", "load", "think"}
    /\ run' = [run EXCEPT ![t] = Ended(t, "over")]
    /\ UNCHANGED <<rows, met, troubles>>

\* The process stops, and its turns with it.
RestartTurns ==
    /\ troubles < MaxTroubles
    /\ Running # {}
    /\ run' = [t \in Turns |-> IF t \in Running THEN Ended(t, "over")
                               ELSE run[t]]
    /\ troubles' = troubles + 1
    /\ UNCHANGED <<rows, met>>

\* The rows a POST may store: any text but a blank one, which decodes to anything
\* a row of the pipeline decodes to.  A user row, or one of a role the pipeline
\* does not know, is what Begin and Fail leave.
Posted(t) ==
    {AssistantRow(t, says) : says \in {c \in Contents : c.text \/ HasCalls(c)}}
    \cup {ToolRow(t, id) : id \in CallId \cup {NoId}}

Step(t) ==
    \/ Begin(t)
    \/ \E row \in Posted(t) : PostMessage(t, row)
    \/ LoadHistory(t)
    \/ \E says \in Contents : Reply(t, says)
    \/ \E text \in BOOLEAN, n \in 1 .. MaxCalls : Request(t, text, CallIds(t, n))
    \/ \E pending \in BOOLEAN : Act(t, pending)
    \/ \E says \in Contents : Conclude(t, says)
    \/ Fail(t)

NextTurns == (\E t \in Turns : Step(t)) \/ RestartTurns

SpecTurns == InitTurns /\ [][NextTurns]_turnVars

-----------------------------------------------------------------------------
(* Properties *)

\* What is or may be next sent to the model: the prompts of the turns that think,
\* and the history a turn would load now.
Prompts == {run[t].prompt : t \in {u \in Turns : run[u].pc = "think"}}
           \cup {Sanitize(CapLast(rows, Cap))}

\* What Sanitize makes of the session's rows, in one pass, is what the
\* definition of a sound history says.
SanitizeIsSound ==
    LET h == CapLast(rows, Cap) IN Sound(Sanitize(h), h)

\* Whatever turns overlapped, broke off or lost a write before, and whatever was
\* posted, the model is sent a history in which every result follows its request
\* and every call with an id has its result: a provider refuses any other, and
\* would go on refusing it.  A call without an id stays, and has none (Sanitize
\* neither opens nor drops it).
PromptsWellFormed == \A h \in Prompts : WellFormed(h)

\* Row i of h is a result of a turn, and was not posted.
TurnResult(h, i) == h[i].role = "tool" /\ run[h[i].by].pc # "posted"

\* The last request before row i that asked for its id.
RequestOf(h, i) ==
    CHOOSE j \in 1 .. i - 1 :
        /\ h[i].id \in h[j].calls
        /\ \A k \in j + 1 .. i - 1 : h[i].id \notin h[k].calls

\* A result of a turn is shown as the answer to a request of that turn.  Ids the
\* runner made up repeat between turns, so this holds of turns that did not
\* overlap; a result that was posted answers whatever request it follows.
ResultsAreOwn ==
    \A h \in Prompts : \A i \in 1 .. Len(h) :
        TurnResult(h, i) => h[RequestOf(h, i)].by \in {h[i].by} \cup met[h[i].by]

\* The results of a turn that met no other and lost no write are all in the
\* history of later turns, those of a turn that waits for an approval too, while
\* the cap reaches back to their request.
ResultsAreKept ==
    LET h == CapLast(rows, Cap)
        asked(i) == \E j \in 1 .. i - 1 : h[i].id \in h[j].calls
                                          /\ h[j].by = h[i].by
    IN  \A i \in 1 .. Len(h) :
            /\ TurnResult(h, i) /\ asked(i)
            /\ met[h[i].by] = {} /\ ~run[h[i].by].lost
            => h[i] \in Range(Sanitize(h))
=============================================================================
