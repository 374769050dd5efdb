----------------------------- MODULE ConsoleChat -----------------------------
(***************************************************************************)
(* The Chat tab of the control plane: App holds the session that is open,  *)
(* the list on the left opens, creates and deletes sessions, and the page  *)
(* on the right shows the transcript of the open one and sends messages.   *)
(* An answer that arrives after another session was opened has to leave    *)
(* the page alone, and one that arrives after the tab was left still runs  *)
(* its continuation, with the callbacks it was given.                      *)
(*                                                                         *)
(* A message is [s, turn, who, text]: its session, the turn it belongs to, *)
(* whose it is, and how much of its text is there.  A change of the agent  *)
(* of a session is a message too, of no turn.                              *)
(*                                                                         *)
(* Left out: the load, the names and the archive of the list (PagesTalk);  *)
(* the composer (mentions, files, menus); which model was chosen.  The     *)
(* reads of a load are one.                                                *)
(***************************************************************************)
EXTENDS Integers, Sequences, FiniteSets, SequencesExt, TLC

CONSTANTS
  Sessions,       \* the sessions there can be
  NoSession,      \* none is open
  Budget          \* bound: uses of a control that send a request or leave the tab, requests
                  \* that are refused or cut, and sessions deleted elsewhere, together

ASSUME ChatAssumption ==
  /\ IsFiniteSet(Sessions) /\ NoSession \notin Sessions /\ Budget \in Nat

VARIABLES
  tab,            \* "chat", or "away"
  picked,         \* App: the session that is open
  list,           \* the state of the list
  view,           \* the state of the page
  calls,          \* the requests under way, with the continuation of each
  gw,             \* the gateway: its sessions, each with its messages and its agent
  turns,          \* the turns it is running
  spent           \* what the bounds count, whether all went in order, and the
                  \* sessions there were

vars == <<tab, picked, list, view, calls, gw, turns, spent>>

----------------------------------------------------------------------------
(* Requests *)

\* An agent is 1 or 2; the page says 0 before it knows.
NewSession == [rows |-> <<>>, agent |-> 1]
Message(s, turn, who, text) == [s |-> s, turn |-> turn, who |-> who, text |-> text]

\* gen and s are what the handler captured; cap is the session that was open then; by is
\* the handler that waits for a load; orphan says that its page was left, and cur what
\* stillCurrent says then.
Request(op, s) ==
  [n |-> 1, op |-> op, s |-> s, gen |-> view.gen, by |-> "", st |-> "sent", turn |-> 0, json |-> FALSE,
   prev |-> 0, cap |-> NoSession, orphan |-> FALSE, cur |-> FALSE, got |-> NewSession]

\* The requests under way are numbered as they are sent: one more than the last.
Later == {c.n + 1 : c \in calls} \cup {1}
FreshN == CHOOSE n \in Later : \A m \in Later : (\A k \in Later : k <= m) => m = n
Call(op, s) == [Request(op, s) EXCEPT !.n = FreshN]
Oldest(c, C) == \A d \in C : c.n <= d.n

Act == spent.n < Budget /\ spent' = [spent EXCEPT !.n = @ + 1]
Trouble == spent.n < Budget /\ spent' = [spent EXCEPT !.n = @ + 1, !.calm = FALSE]

Answered(op) == {c \in calls : c.op = op /\ c.st \notin {"sent", "run"}}

\* An answer that overtakes another one is out of order.
InOrder(c) == spent' = [spent EXCEPT !.calm = @ /\ Oldest(c, calls)]
Become(c, d) == calls' = (calls \ {c}) \cup {d}

\* Mutant of StillCurrent: the number of the opening is enough.
StillNumbered(c) == IF c.orphan THEN c.cur ELSE TRUE

\* stillCurrent: no other session was opened since.
StillCurrent(c) == IF c.orphan THEN c.cur ELSE c.gen = view.gen /\ c.s = picked

\* The page of a continuation is there to be changed.
Page(c, v) == IF c.orphan THEN view ELSE v

----------------------------------------------------------------------------
(* The page: opening a session *)

Blank(gen) ==
  [msgs |-> <<>>, err |-> "none", loading |-> FALSE, sending |-> FALSE, stream |-> "idle",
   agent |-> 0, saving |-> FALSE, gen |-> gen, ctrl |-> 0]

\* Mutant of Opened: the turn of the session before goes on.
OpenedSending(v, s) ==
  [Blank(v.gen + 1) EXCEPT !.loading = s # NoSession, !.saving = v.saving, !.sending = v.sending,
                           !.agent = IF s = NoSession THEN 0 ELSE v.agent]

\* The effect of [sessionId]: everything but the flag of a save is put back, and the stream
\* aborted; the agent of the session before stays until that of the new one is loaded.  A
\* turn whose stream is aborted may end at the gateway all the same.
Opened(v, s) ==
  [Blank(v.gen + 1) EXCEPT !.loading = s # NoSession, !.saving = v.saving,
                           !.agent = IF s = NoSession THEN 0 ELSE v.agent]

\* setSessionId(s) with the calls C there: the one that is open already has no effect.
Opens(s, C) ==
  /\ picked' = s
  /\ IF s = picked \/ tab # "chat" THEN view' = view /\ calls' = C
     ELSE /\ view' = Opened(view, s)
          /\ calls' = C \cup IF s = NoSession THEN {}
                             ELSE {[Call("load", s) EXCEPT !.gen = view'.gen, !.by = "effect"]}

\* dropSession, from a render in which cap was open.
Dropped(s, cap, C, v) ==
  IF s # cap THEN view' = v /\ calls' = C /\ UNCHANGED picked
  ELSE IF picked = NoSession \/ tab # "chat" THEN picked' = NoSession /\ view' = v /\ calls' = C
  ELSE picked' = NoSession /\ view' = Opened(v, NoSession) /\ calls' = C

\* onGone of an answer that is still current.
Gone(c, v) == Dropped(c.s, c.s, calls \ {c}, Page(c, v))

----------------------------------------------------------------------------
(* The list on the left *)

BlankList == [rows |-> {}, busy |-> FALSE]

\* onPick of a row.
PickSession ==
  /\ tab = "chat" /\ Act
  /\ \E s \in list.rows \ {picked} : Opens(s, calls)
  /\ UNCHANGED <<tab, list, gw, turns>>

\* create and remove: one at a time.
CreateSession ==
  /\ tab = "chat" /\ Act
  /\ ~list.busy
  /\ list' = [list EXCEPT !.busy = TRUE]
  /\ calls' = calls \cup {Call("create", NoSession)}
  /\ UNCHANGED <<tab, picked, view, gw, turns>>

DeleteSession ==
  /\ tab = "chat" /\ Act
  /\ ~list.busy
  /\ list' = [list EXCEPT !.busy = TRUE]
  /\ \E s \in list.rows : calls' = calls \cup {[Call("delete", s) EXCEPT !.cap = picked]}
  /\ UNCHANGED <<tab, picked, view, gw, turns>>

\* The list that was left has no state any more; its callbacks still reach App.
Listed(c, l) == IF c.orphan THEN list ELSE l

Created ==
  /\ \E c \in Answered("create") :
       /\ InOrder(c)
       /\ IF c.st = "ok"
          THEN /\ list' = Listed(c, [list EXCEPT !.rows = @ \cup {c.s}, !.busy = FALSE])
               /\ Opens(c.s, calls \ {c})
          ELSE /\ list' = Listed(c, [list EXCEPT !.busy = FALSE])
               /\ calls' = calls \ {c} /\ UNCHANGED <<picked, view>>
  /\ UNCHANGED <<tab, gw, turns>>

Removed ==
  /\ \E c \in Answered("delete") :
       /\ InOrder(c)
       /\ IF c.st = "ok"
          THEN /\ list' = Listed(c, [list EXCEPT !.rows = @ \ {c.s}, !.busy = FALSE])
               /\ Dropped(c.s, c.cap, calls \ {c}, view)
          ELSE /\ list' = Listed(c, [list EXCEPT !.busy = FALSE])
               /\ calls' = calls \ {c} /\ UNCHANGED <<picked, view>>
  /\ UNCHANGED <<tab, gw, turns>>

----------------------------------------------------------------------------
(* The transcript *)

\* load, and its answer: a transcript, an error, or 404.
LoadOfTurn(c, by) == [Call("load", c.s) EXCEPT !.gen = c.gen, !.by = by, !.orphan = c.orphan, !.cur = c.cur]

\* The end of the handler that waits for a load: send looks whether it is current, the
\* handlers of the agent do not.
Ends(v, c) ==
  LET w == IF c.by = "save" THEN [v EXCEPT !.saving = FALSE] ELSE v
  IN IF ~StillCurrent(c) THEN w
     ELSE IF c.by = "send"
     THEN [w EXCEPT !.sending = FALSE, !.loading = FALSE,
                    !.stream = IF @ \in {"connecting", "streaming", "reconnect"} THEN "idle" ELSE @]
     ELSE [w EXCEPT !.loading = FALSE]

LoadArrives ==
  /\ \E c \in Answered("load") :
       /\ InOrder(c)
       /\ IF StillCurrent(c) /\ c.st = "gone" THEN Gone(c, Ends([view EXCEPT !.err = "fail"], c))
          ELSE /\ view' = Page(c, Ends(IF ~StillCurrent(c) THEN view
                                       ELSE IF c.st # "ok" THEN [view EXCEPT !.err = "fail"]
                                       ELSE [view EXCEPT !.msgs = c.got.rows, !.agent = c.got.agent, !.err = "none"], c))
               /\ calls' = calls \ {c} /\ UNCHANGED picked
  /\ UNCHANGED <<tab, list, gw, turns>>

----------------------------------------------------------------------------
(* A turn *)

NextTurn == spent.turns + 1

\* send: the two rows are shown before the message is posted.
Send ==
  /\ tab = "chat" /\ picked # NoSession /\ ~view.sending /\ ~view.saving
  /\ spent.n < Budget /\ spent' = [spent EXCEPT !.n = @ + 1, !.turns = @ + 1]
  /\ view' = [view EXCEPT !.sending = TRUE, !.stream = "connecting", !.err = "none", !.ctrl = NextTurn,
                          !.msgs = @ \o <<Message(picked, NextTurn, "user", "all"), Message(picked, NextTurn, "ai", "none")>>]
  /\ calls' = calls \cup {[Call("send", picked) EXCEPT !.turn = NextTurn]}
  /\ UNCHANGED <<tab, picked, list, gw, turns>>

\* The local row of the reply, when no load has taken its place.
IsReply(m, c) == m.turn = c.turn /\ m.who = "ai" /\ m.text # "all"
Heard(v, c) ==
  [v EXCEPT !.msgs = [j \in DOMAIN @ |-> IF IsReply(@[j], c) THEN [@[j] EXCEPT !.text = "part"] ELSE @[j]]]

\* onDelta of a stream.
Delta ==
  /\ \E c \in calls : /\ c.op = "send" /\ c.st = "run" /\ ~c.json /\ StillCurrent(c) /\ ~c.orphan
                      /\ view' = [Heard(view, c) EXCEPT !.stream = "streaming"]
                      /\ view' # view
  /\ UNCHANGED <<tab, picked, list, calls, gw, turns, spent>>

\* stop: the signal of the last send.
Stop ==
  /\ tab = "chat" /\ view.sending
  /\ \E c \in calls : c.op = "send" /\ c.turn = view.ctrl /\ c.st \in {"sent", "run"} /\ Become(c, [c EXCEPT !.st = "abort"])
  /\ spent' = [spent EXCEPT !.calm = FALSE]
  /\ UNCHANGED <<tab, picked, list, view, gw, turns>>

\* The rows without the reply that was awaited.
Without(msgs, c) ==
  IF \E j \in DOMAIN msgs : IsReply(msgs[j], c) THEN RemoveAt(msgs, CHOOSE j \in DOMAIN msgs : IsReply(msgs[j], c)) ELSE msgs

\* A reply of which something was heard stays after a stop, and an error takes its place.
NothingHeard(msgs, c) == \A j \in DOMAIN msgs : IsReply(msgs[j], c) => msgs[j].text = "none"
AbortedView(v, c) ==
  [v EXCEPT !.msgs = IF NothingHeard(@, c) THEN Without(@, c) ELSE @,
            !.stream = "idle", !.err = "none", !.sending = FALSE]
FailedView(v, c) ==
  [v EXCEPT !.msgs = Append(Without(@, c), Message(c.s, c.turn, "err", "all")), !.err = "fail", !.stream = "reconnect"]

\* Mutant of SendAnswered: the reply that was streamed is left to stand for the transcript.
SendAnsweredOnly(c) ==
  /\ StillCurrent(c) /\ c.st = "ok"
  /\ view' = Page(c, [Heard(view, c) EXCEPT !.stream = "idle", !.sending = FALSE])
  /\ calls' = calls \ {c}

\* What follows the await of the stream: the transcript is loaded; or the reply is taken
\* out; or, on an error, an error takes its place and the page waits before it asks again.
SendAnswered(c) ==
  \/ /\ StillCurrent(c) /\ c.st = "ok"
     /\ view' = Page(c, [IF c.json THEN Heard(view, c) ELSE view EXCEPT !.stream = "idle"])
     /\ calls' = (calls \ {c}) \cup {LoadOfTurn(c, "send")}
  \/ /\ StillCurrent(c) /\ c.st = "abort"
     /\ view' = Page(c, AbortedView(view, c))
     /\ calls' = calls \ {c}
  \/ /\ StillCurrent(c) /\ c.st \in {"fail", "gone"}
     /\ view' = Page(c, FailedView(view, c))
     /\ Become(c, [c EXCEPT !.op = "wait", !.st = "sent"])
  \/ /\ ~StillCurrent(c)
     /\ calls' = calls \ {c} /\ UNCHANGED view

SendArrives ==
  /\ \E c \in Answered("send") : SendAnswered(c) /\ InOrder(c)
  /\ UNCHANGED <<tab, picked, list, gw, turns>>

\* Mutant of Retried: the message is posted again.
RepostedThen(c) == [c EXCEPT !.op = "send"]

\* After 400 ms the page asks for the messages, and looks only whether they are gone.
Retried(c) == [c EXCEPT !.op = "probe"]

WaitOver ==
  /\ \E c \in calls : /\ c.op = "wait"
                      /\ IF StillCurrent(c) THEN Become(c, Retried(c)) ELSE calls' = calls \ {c}
  /\ UNCHANGED <<tab, picked, list, view, gw, turns, spent>>

ProbeArrives ==
  /\ \E c \in Answered("probe") :
       /\ InOrder(c)
       /\ LET v == [view EXCEPT !.err = "fail", !.stream = "error", !.sending = FALSE] IN
          IF StillCurrent(c) /\ c.st = "gone" THEN Gone(c, v)
          ELSE /\ view' = IF StillCurrent(c) THEN Page(c, v) ELSE view
               /\ calls' = calls \ {c} /\ UNCHANGED picked
  /\ UNCHANGED <<tab, list, gw, turns>>

----------------------------------------------------------------------------
(* The agent and the model of the session *)

\* persistAgent: another agent than the one that is shown, which may be that of the session
\* before, is shown before it is saved.  The control is off while no agent is known.
SaveAgent ==
  /\ tab = "chat" /\ picked # NoSession /\ ~view.saving /\ view.agent # 0 /\ Act
  /\ view' = [view EXCEPT !.agent = 3 - @, !.saving = TRUE]
  /\ calls' = calls \cup {[Call("save", picked) EXCEPT !.by = "agent", !.prev = view.agent]}
  /\ UNCHANGED <<tab, picked, list, gw, turns>>

\* persistModel.
SaveModel ==
  /\ tab = "chat" /\ picked # NoSession /\ ~view.saving /\ Act
  /\ view' = [view EXCEPT !.saving = TRUE]
  /\ calls' = calls \cup {[Call("save", picked) EXCEPT !.by = "model"]}
  /\ UNCHANGED <<tab, picked, list, gw, turns>>

\* Neither looks whether its session is still open: the agent that was shown comes back.
Restored(c) ==
  [view EXCEPT !.err = "fail", !.saving = FALSE, !.agent = IF c.by = "agent" THEN c.prev ELSE @]

\* Mutant of Saved: the session is not loaded after its agent was saved.
SavedOnly(c) ==
  /\ view' = Page(c, [view EXCEPT !.err = "none", !.saving = FALSE])
  /\ calls' = calls \ {c}

\* After a save of the agent the session is loaded, if it is still open.
Saved(c) ==
  IF c.by = "agent"
  THEN /\ view' = Page(c, [view EXCEPT !.err = "none"])
       /\ Become(c, [Call("load", c.s) EXCEPT !.gen = view.gen, !.by = "save", !.orphan = c.orphan, !.cur = c.cur])
  ELSE /\ view' = Page(c, [view EXCEPT !.err = "none", !.saving = FALSE])
       /\ calls' = calls \ {c}

SaveArrives ==
  /\ \E c \in Answered("save") :
       /\ InOrder(c)
       /\ IF c.st # "ok" THEN view' = Page(c, Restored(c)) /\ calls' = calls \ {c} ELSE Saved(c)
  /\ UNCHANGED <<tab, picked, list, gw, turns>>

----------------------------------------------------------------------------
(* The tab is left and opened again *)

\* Nothing is aborted; what is under way goes on with the refs and callbacks it had.  What
\* was not current is forgotten: it has no effect any more.
LeaveChat ==
  /\ tab = "chat" /\ Act
  /\ tab' = "away"
  /\ view' = Blank(0) /\ list' = BlankList
  /\ LET cur(c) == IF c.orphan THEN c.cur ELSE c.s = picked /\ (c.gen = view.gen \/ c.op = "save")
     IN calls' = {[c EXCEPT !.orphan = TRUE, !.cur = cur(c)]
                  : c \in {d \in calls : cur(d) \/ d.op \notin {"load", "probe", "wait"}}}
  /\ UNCHANGED <<picked, gw, turns>>

\* From the Sessions tab another session may be opened.
OpenChat ==
  /\ tab = "away"
  /\ tab' = "chat"
  /\ \E s \in {picked} \cup DOMAIN gw :
       /\ picked' = s
       /\ view' = [Blank(1) EXCEPT !.loading = s # NoSession]
       /\ calls' = calls \cup IF s = NoSession THEN {} ELSE {[Call("load", s) EXCEPT !.gen = 1, !.by = "effect"]}
  /\ list' = [BlankList EXCEPT !.rows = DOMAIN gw]
  /\ UNCHANGED <<gw, turns, spent>>

----------------------------------------------------------------------------
(* The gateway *)

Running(s) == \E t \in turns : t[1] = s

\* What is read while a turn runs is out of order, and so is what overtakes a request.
ServedInOrder(c) ==
  spent' = [spent EXCEPT !.calm = @ /\ Oldest(c, {d \in calls : d.st \in {"sent", "run"}}) /\ ~Running(c.s),
                         !.used = @ \cup DOMAIN gw']

ServeRead ==
  /\ \E c \in calls :
       /\ c.st = "sent" /\ c.op \in {"load", "probe"}
       /\ Become(c, IF c.s \notin DOMAIN gw THEN [c EXCEPT !.st = "gone"]
                 ELSE [c EXCEPT !.st = "ok", !.got = gw[c.s]])
       /\ UNCHANGED gw /\ ServedInOrder(c)
  /\ UNCHANGED <<tab, picked, list, view, turns>>

WithSession(s) == [r \in DOMAIN gw \cup {s} |-> IF r = s THEN NewSession ELSE gw[r]]

\* handlePatchSession: a change of the agent is a row of the session, and no change is none.
WithAgent(g, s, agent) ==
  IF g[s].agent = agent THEN g
  ELSE [g EXCEPT ![s] = [rows |-> Append(@.rows, Message(s, 0, "event", "all")), agent |-> agent]]

ServeWrite ==
  /\ \E c \in calls :
       /\ c.st = "sent" /\ c.op \in {"create", "delete", "save"}
       /\ \/ /\ c.op = "create"
             /\ \E s \in Sessions \ (DOMAIN gw \cup spent.used) :
                  gw' = WithSession(s) /\ Become(c, [c EXCEPT !.st = "ok", !.s = s])
          \/ /\ c.op = "create" /\ Sessions = DOMAIN gw \cup spent.used
             /\ Become(c, [c EXCEPT !.st = "fail"]) /\ UNCHANGED gw
          \/ /\ c.op # "create" /\ c.s \notin DOMAIN gw
             /\ Become(c, [c EXCEPT !.st = "gone"]) /\ UNCHANGED gw
          \/ /\ c.op = "delete" /\ c.s \in DOMAIN gw
             /\ gw' = [s \in DOMAIN gw \ {c.s} |-> gw[s]] /\ Become(c, [c EXCEPT !.st = "ok"])
          \/ /\ c.op = "save" /\ c.s \in DOMAIN gw
             /\ gw' = IF c.by = "agent" THEN WithAgent(gw, c.s, 3 - c.prev) ELSE gw
             /\ Become(c, [c EXCEPT !.st = "ok"])
       /\ ServedInOrder(c)
  /\ UNCHANGED <<tab, picked, list, view, turns>>

\* A turn begins with its message, is refused with 406 (and posted again for one JSON
\* answer), and ends with its reply.
Accept ==
  /\ \E c \in calls :
       /\ c.op = "send" /\ c.st = "sent"
       /\ \/ /\ c.s \in DOMAIN gw
             /\ gw' = [gw EXCEPT ![c.s].rows = Append(@, Message(c.s, c.turn, "user", "all"))]
             /\ turns' = turns \cup {<<c.s, c.turn>>}
             /\ Become(c, [c EXCEPT !.st = "run"])
          \/ /\ c.s \notin DOMAIN gw
             /\ Become(c, [c EXCEPT !.st = "gone"]) /\ UNCHANGED <<gw, turns>>
          \/ /\ ~c.json
             /\ Become(c, [c EXCEPT !.json = TRUE]) /\ UNCHANGED <<gw, turns>>
       /\ ServedInOrder(c)
  /\ UNCHANGED <<tab, picked, list, view>>

Finish ==
  /\ \E t \in turns :
       /\ turns' = turns \ {t}
       /\ gw' = IF t[1] \in DOMAIN gw THEN [gw EXCEPT ![t[1]].rows = Append(@, Message(t[1], t[2], "ai", "all"))] ELSE gw
       /\ calls' = {IF c.op = "send" /\ c.st = "run" /\ c.turn = t[2] THEN [c EXCEPT !.st = "ok"] ELSE c : c \in calls}
       /\ spent' = [spent EXCEPT !.calm = @ /\ \A c \in calls : c.turn = t[2] => Oldest(c, calls)]
  /\ UNCHANGED <<tab, picked, list, view>>

\* A turn whose stream was aborted may end there.
Cancel ==
  /\ \E t \in turns :
       /\ \A c \in calls : c.op = "send" /\ c.st = "run" /\ c.turn = t[2] => ~c.orphan /\ ~StillCurrent(c)
       /\ turns' = turns \ {t}
       /\ calls' = {c \in calls : ~(c.op = "send" /\ c.st = "run" /\ c.turn = t[2])}
  /\ spent' = [spent EXCEPT !.calm = FALSE]
  /\ UNCHANGED <<tab, picked, list, view, gw>>

\* A request fails; a stream is cut, whether its turn goes on or not.
Refused ==
  /\ Trouble
  /\ \E c \in calls :
       /\ c.st \in {"sent", "run"} /\ c.op # "wait"
       /\ Become(c, [c EXCEPT !.st = "fail"])
       /\ \/ UNCHANGED turns
          \/ c.st = "run" /\ turns' = {t \in turns : t[2] # c.turn}
  /\ UNCHANGED <<tab, picked, list, view, gw>>

Elsewhere ==
  /\ Trouble
  /\ \E s \in DOMAIN gw : gw' = [r \in DOMAIN gw \ {s} |-> gw[r]]
  /\ UNCHANGED <<tab, picked, list, view, calls, turns>>

----------------------------------------------------------------------------
Init ==
  /\ \E S \in SUBSET Sessions, p \in Sessions \cup {NoSession} :
       /\ p \in S \cup {NoSession}
       /\ gw = [s \in S |-> NewSession]
       /\ picked = p
       /\ spent = [n |-> 0, turns |-> 0, calm |-> TRUE, used |-> S]
  /\ tab = "away" /\ view = Blank(0) /\ list = BlankList
  /\ calls = {} /\ turns = {}

Control == PickSession \/ CreateSession \/ DeleteSession \/ Send \/ Stop \/ SaveAgent \/ SaveModel \/ LeaveChat \/ OpenChat
Continuation ==
  \/ Created \/ Removed
  \/ LoadArrives \/ Delta \/ SendArrives \/ WaitOver \/ ProbeArrives \/ SaveArrives
Gateway == ServeRead \/ ServeWrite \/ Accept \/ Finish \/ Cancel
Next == Control \/ Continuation \/ Gateway \/ Refused \/ Elsewhere

Spec == Init /\ [][Next]_vars

----------------------------------------------------------------------------
(* Properties *)

\* What is shown is of the session that is open: no delta, reply or error of a turn, and no
\* load or failed save, of a session that was left shows in another one's transcript.
OwnTranscript == \A j \in DOMAIN view.msgs : view.msgs[j].s = picked

\* When nothing of the page is under way, the composer is free, whatever session was opened
\* or left meanwhile.
Own == {c \in calls : ~c.orphan}
FreeWhenQuiet ==
  Own = {} => ~view.loading /\ ~view.sending /\ ~view.saving /\ view.stream \in {"idle", "error"}

\* When all went in order, a page at rest shows the transcript and the agent that the
\* gateway has for the session that is open: also after a save of the agent, which adds a
\* row, and one that was made while the page still showed the agent of the session before.
RestIsTrue ==
  tab = "chat" /\ Own = {} /\ turns = {} /\ spent.calm /\ picked # NoSession =>
    /\ picked \in DOMAIN gw
    /\ view.msgs = gw[picked].rows /\ view.agent = gw[picked].agent

\* A message is posted once, whatever becomes of its stream.
PostedOnce ==
  \A s \in DOMAIN gw : \A j, k \in DOMAIN gw[s].rows :
    /\ gw[s].rows[j].who \in {"user", "ai"}
    /\ gw[s].rows[j].turn = gw[s].rows[k].turn /\ gw[s].rows[j].who = gw[s].rows[k].who
    => j = k
=============================================================================
