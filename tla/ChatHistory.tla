---------------------------- MODULE ChatHistory ----------------------------
(***************************************************************************)
(* The message rows of a session and how the pipeline turns them into the  *)
(* history of a prompt: the last Cap of them, sanitised so that a provider *)
(* accepts them (a tool result follows the request it answers, and every   *)
(* request has a result).                                                  *)
(*                                                                         *)
(* A row is what ToLLM decodes of it: its role, whether it has text, the   *)
(* ids of the tool calls it requests, whether it has a call without an id  *)
(* (bare), and the id of the call it answers.  What the texts say and the  *)
(* order of a row's calls are left out, which Sanitize keeps, and so are   *)
(* rows of role event, which ToLLM skips before the cap is applied.  by is *)
(* history: the turn that wrote the row.                                   *)
(***************************************************************************)
EXTENDS Integers, Sequences, SequencesExt

NoId == <<>>

UserRow(by) ==
    [role |-> "user", text |-> TRUE, calls |-> {}, bare |-> FALSE, id |-> NoId, by |-> by]

\* says is what the stored text decodes to.
AssistantRow(by, says) ==
    [role |-> "assistant", text |-> says.text, calls |-> says.calls, bare |-> says.bare,
     id |-> NoId, by |-> by]

ToolRow(by, id) ==
    [role |-> "tool", text |-> TRUE, calls |-> {}, bare |-> FALSE, id |-> id, by |-> by]

HasCalls(m) == m.calls # {} \/ m.bare

-----------------------------------------------------------------------------
(* What the code computes *)

\* CapLast
CapLast(msgs, n) ==
    IF n <= 0 \/ Len(msgs) <= n THEN msgs
    ELSE SubSeq(msgs, Len(msgs) - n + 1, Len(msgs))

\* The state of Sanitize: the rows kept so far and the calls still open, all of
\* them of the row at (a new request closes the one before).
Start == [out |-> <<>>, open |-> {}, at |-> 0]

\* Mutant of FlushUnmatched: the row is dropped with the calls it has left.
FlushUnmatchedWhole(acc) ==
    IF acc.open = {} THEN acc
    ELSE [Start EXCEPT !.out = RemoveAt(acc.out, acc.at)]

\* flushUnmatched: the calls left open are struck from their row, and a row left
\* with neither call nor text is dropped.
FlushUnmatched(acc) ==
    LET row == [acc.out[acc.at] EXCEPT !.calls = @ \ acc.open]
    IN  IF acc.open = {} THEN acc
        ELSE [Start EXCEPT !.out =
                IF ~HasCalls(row) /\ ~row.text THEN RemoveAt(acc.out, acc.at)
                ELSE [acc.out EXCEPT ![acc.at] = row]]

\* Mutant of TakeResult: a result closes every call of its row.
TakeResultClosing(acc, m) ==
    IF m.id \in acc.open
    THEN [acc EXCEPT !.out = Append(@, m), !.open = {}]
    ELSE acc

\* A tool row stays when it answers an open call.
TakeResult(acc, m) ==
    IF m.id \in acc.open
    THEN [acc EXCEPT !.out = Append(@, m), !.open = @ \ {m.id}]
    ELSE acc

\* An assistant row with tool calls opens those that have an id.
TakeRequest(acc, m) ==
    LET out == Append(FlushUnmatched(acc).out, m)
    IN  [out |-> out, open |-> m.calls, at |-> Len(out)]

\* Mutant of TakeOther: calls stay open across the conversation.
TakeOtherUnflushed(acc, m) == [acc EXCEPT !.out = Append(@, m)]

TakeOther(acc, m) == [FlushUnmatched(acc) EXCEPT !.out = Append(@, m)]

\* One row, in the order of the history.
Take(acc, m) ==
    CASE m.role = "tool"                       -> TakeResult(acc, m)
      [] m.role = "assistant" /\ HasCalls(m)   -> TakeRequest(acc, m)
      [] OTHER                                 -> TakeOther(acc, m)

Sanitize(msgs) ==
    LET scan[n \in 0 .. Len(msgs)] == IF n = 0 THEN Start ELSE Take(scan[n - 1], msgs[n])
    IN  FlushUnmatched(scan[Len(msgs)]).out

-----------------------------------------------------------------------------
(* What it is to compute *)

\* An assistant row that asks for results.
Requests(m) == m.role = "assistant" /\ m.calls # {}

\* Row i of h is the first result, in the run of results that follows the
\* request of row j, for one of its calls.
Answers(h, i, j) ==
    /\ j < i
    /\ Requests(h[j])
    /\ \A k \in (j + 1) .. i : h[k].role = "tool"
    /\ h[i].id \in h[j].calls
    /\ \A k \in (j + 1) .. (i - 1) : h[k].id # h[i].id

Answered(h, j) ==
    {h[i].id : i \in {k \in 1 .. Len(h) : Answers(h, k, j)}}

Remains(h, i) ==
    /\ h[i].role = "tool" => \E j \in 1 .. Len(h) : Answers(h, i, j)
    /\ Requests(h[i]) => h[i].text \/ h[i].bare \/ Answered(h, i) # {}

\* Row i with the calls that have a result; those without an id stay as they are.
Struck(h, i) == [h[i] EXCEPT !.calls = @ \cap Answered(h, i)]

\* g is made of the rows to keep, in their order.
Sound(g, h) ==
    LET kept == {i \in 1 .. Len(h) : Remains(h, i)}
    IN  /\ Len(g) = Cardinality(kept)
        /\ \A i \in kept : g[Cardinality({k \in kept : k <= i})] = Struck(h, i)

\* Every result follows its request, and every call with an id has its result: a
\* history a provider accepts, if no row of it has a call without an id.
WellFormed(h) ==
    \A i \in 1 .. Len(h) :
        /\ h[i].role = "tool" => \E j \in 1 .. Len(h) : Answers(h, i, j)
        /\ h[i].calls \subseteq Answered(h, i)
=============================================================================
