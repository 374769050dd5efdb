--------------------------- MODULE SessionMemory ---------------------------
(***************************************************************************)
(* The episodic note of a session and the two that write it: a chat turn,  *)
(* once the session is long enough (SummarizeStage), and the idle flusher, *)
(* once it has been quiet (IdleFlusher.Sweep and flush).  Each reads the   *)
(* messages, asks a model for a summary, and saves it with the time of the *)
(* saving; there is one note per session and the last writer wins.         *)
(*                                                                         *)
(* Messages are counted, not kept, and a time is the number of messages    *)
(* there were by then: a note saved at time n is newer than messages 1..n. *)
(* How long a session has been quiet is kept apart, in sweep intervals.    *)
(* Every message is a conversation turn, and a session has user text.      *)
(***************************************************************************)
EXTENDS Naturals, FiniteSets

CONSTANTS
    Sessions,
    None,        \* no session
    Runners,     \* chat turns that may be under way at once
    Idle,        \* GOSO_MEMORY_IDLE_FLUSH, in sweep intervals
    Lookback,    \* how far back a sweep looks, likewise
    BatchMax,    \* idleBatchMax
    SummarizeMessageMin,
    MaxMessages, \* bound on the messages of a session
    MaxFaults    \* bound on store errors, restarts and archivings

ASSUME MemoryAssumption ==
    /\ None \notin Sessions
    /\ Idle \in Nat \ {0}
    /\ Lookback \in Nat /\ Lookback >= 3 * Idle
    /\ BatchMax \in Nat \ {0}
    /\ SummarizeMessageMin \in Nat
    /\ {MaxMessages, MaxFaults} \subseteq Nat

VARIABLES
    messages,  \* session -> how many
    quiet,     \* session -> time since the last one
    note,      \* session -> its note: the messages it was made from, its time
    archived,  \* the archived sessions
    turn,      \* runner -> its chat turn
    sweep,     \* the sweep under way
    checked,   \* session -> IdleFlusher.checked, 0 for no entry
    faults,    \* store errors, restarts and archivings so far
    flushed,   \* history: session -> messages the flusher last made a note of
    passed     \* history: the sessions flush may have passed over, archived or unreadable

vars == <<messages, quiet, note, archived, turn, sweep, checked, faults, flushed,
          passed>>

NoTurn == [pc |-> "idle", session |-> None, read |-> 0]

\* The sweep between two sweeps; rested says that the next one is not due yet.
NoSweep == [pc |-> "off", rested |-> TRUE, todo |-> {}, seen |-> {},
            last |-> [s \in Sessions |-> 0], due |-> {}, noted |-> {},
            at |-> None, read |-> 0, wrote |-> 0]

Init ==
    /\ messages = [s \in Sessions |-> 0]
    /\ quiet = [s \in Sessions |-> 0]
    /\ note = [s \in Sessions |-> [read |-> 0, time |-> 0]]
    /\ archived = {}
    /\ turn = [r \in Runners |-> NoTurn]
    /\ sweep = NoSweep
    /\ checked = [s \in Sessions |-> 0]
    /\ faults = 0
    /\ flushed = [s \in Sessions |-> 0]
    /\ passed = {}

Fault ==
    /\ faults < MaxFaults
    /\ faults' = faults + 1

-----------------------------------------------------------------------------
\* AddMessage
AddMessage(s) ==
    /\ messages' = [messages EXCEPT ![s] = @ + 1]
    /\ quiet' = [quiet EXCEPT ![s] = 0]

\* Mutant of SaveSummary: the time of a note that is there is not renewed.
SaveSummaryUnstamped(s, read) ==
    note' = [note EXCEPT ![s] = [read |-> read,
                                 time |-> IF @.time = 0 THEN messages[s] ELSE @.time]]

\* SaveSummary: a summary of the first messages read becomes the session's note.
SaveSummary(s, read) ==
    note' = [note EXCEPT ![s] = [read |-> read, time |-> messages[s]]]

-----------------------------------------------------------------------------
(* A chat turn *)

Ask(r, s) ==
    /\ turn[r].pc = "idle"
    /\ messages[s] < MaxMessages
    /\ AddMessage(s)
    /\ turn' = [turn EXCEPT ![r] = [NoTurn EXCEPT !.pc = "think", !.session = s]]
    /\ UNCHANGED <<note, archived, sweep, checked, faults, flushed, passed>>

Answer(r) ==
    /\ turn[r].pc = "think"
    /\ AddMessage(turn[r].session)
    /\ turn' = [turn EXCEPT ![r].pc = "summarize"]
    /\ UNCHANGED <<note, archived, sweep, checked, faults, flushed, passed>>

\* The model fails and the turn ends, or the store does and the turn goes on
\* without its answer.
AnswerFails(r) ==
    /\ turn[r].pc = "think"
    /\ Fault
    /\ \E next \in {NoTurn, [turn[r] EXCEPT !.pc = "summarize"]} :
         turn' = [turn EXCEPT ![r] = next]
    /\ UNCHANGED <<messages, quiet, note, archived, sweep, checked, flushed, passed>>

\* SummarizeStage: nothing is written for a short session unless the caller
\* forces it.
Summarize(r, force) ==
    LET n == messages[turn[r].session]
    IN  /\ turn[r].pc = "summarize"
        /\ turn' = [turn EXCEPT ![r] =
                      IF force \/ n >= SummarizeMessageMin
                      THEN [@ EXCEPT !.pc = "save", !.read = n] ELSE NoTurn]
        /\ UNCHANGED <<messages, quiet, note, archived, sweep, checked, faults, flushed, passed>>

SaveTurn(r) ==
    /\ turn[r].pc = "save"
    /\ SaveSummary(turn[r].session, turn[r].read)
    /\ turn' = [turn EXCEPT ![r] = NoTurn]
    /\ UNCHANGED <<messages, quiet, archived, sweep, checked, faults, flushed, passed>>

SaveTurnFails(r) ==
    /\ turn[r].pc = "save"
    /\ Fault
    /\ turn' = [turn EXCEPT ![r] = NoTurn]
    /\ UNCHANGED <<messages, quiet, note, archived, sweep, checked, flushed, passed>>

-----------------------------------------------------------------------------
(* The idle flusher *)

\* Sweep lists the sessions with a message in the lookback: last, due and noted
\* are what it knows of them from then on.
StartSweep ==
    LET listed == {s \in Sessions : messages[s] > 0 /\ quiet[s] <= Lookback}
    IN  /\ sweep.pc = "off" /\ ~sweep.rested
        /\ sweep' = [NoSweep EXCEPT !.pc = "walk",
                                    !.todo = listed,
                                    !.last = messages,
                                    !.due = {s \in listed : quiet[s] >= Idle},
                                    !.noted = {s \in listed : note[s].time >= messages[s]}]
        /\ UNCHANGED <<messages, quiet, note, archived, turn, checked, faults, flushed, passed>>

\* The walk goes on without s.
Past(s) == [sweep EXCEPT !.pc = "walk", !.todo = @ \ {s}, !.seen = @ \cup {s},
                          !.at = None, !.read = 0]

Walks(s) == sweep.pc = "walk" /\ sweep.wrote < BatchMax /\ s \in sweep.todo

\* Sweep has flush look at s: it is not active, and was not checked with this
\* last message.
Looks(s) == Walks(s) /\ s \in sweep.due /\ checked[s] # sweep.last[s]

\* A session that is active, has a newer note (by more than a second), or was
\* checked with this last message.
Skip(s) ==
    /\ Walks(s)
    /\ ~Looks(s) \/ s \in sweep.noted
    /\ sweep' = Past(s)
    /\ UNCHANGED <<messages, quiet, note, archived, turn, checked, faults, flushed, passed>>

\* flush reads the session again: nothing new, and the note is older.  (An error
\* of LatestSummary, which counts as no note, is left out.)
NeedsNote(s) ==
    /\ s \notin archived
    /\ messages[s] = sweep.last[s]
    /\ note[s].time < messages[s]

\* Mutant of Remember: what flush has read is remembered as checked.
RememberRead(s) == checked' = [checked EXCEPT ![s] = messages[s]]

\* Sweep remembers the last message of the listing as checked.
Remember(s) == checked' = [checked EXCEPT ![s] = sweep.last[s]]

\* flush has read the session and takes its messages to be summarised, or is
\* done with it.
Flush(s) ==
    /\ Looks(s)
    /\ IF NeedsNote(s)
       THEN /\ sweep' = [sweep EXCEPT !.pc = "save", !.at = s, !.read = messages[s]]
            /\ UNCHANGED checked
       ELSE sweep' = Past(s) /\ Remember(s)
    /\ UNCHANGED <<messages, quiet, note, archived, turn, faults, flushed, passed>>

FlushSave ==
    LET s == sweep.at
    IN  /\ sweep.pc = "save"
        /\ SaveSummary(s, sweep.read)
        /\ sweep' = [Past(s) EXCEPT !.wrote = @ + 1]
        /\ Remember(s)
        /\ flushed' = [flushed EXCEPT ![s] = sweep.read]
        /\ UNCHANGED <<messages, quiet, archived, turn, faults, passed>>

\* Mutant of FlushFails: the session is remembered all the same.
FlushFailsRemembered(s) ==
    /\ \/ Looks(s)
       \/ sweep.pc = "save" /\ s = sweep.at
    /\ Fault
    /\ sweep' = Past(s)
    /\ Remember(s)
    /\ UNCHANGED <<messages, quiet, note, archived, turn, flushed, passed>>

\* An error of the store leaves the session to the next sweep.
FlushFails(s) ==
    /\ \/ Looks(s)
       \/ sweep.pc = "save" /\ s = sweep.at
    /\ Fault
    /\ sweep' = Past(s)
    /\ UNCHANGED <<messages, quiet, note, archived, turn, checked, flushed, passed>>

\* GetSession fails: flush takes it for a session to pass over, without an error,
\* and Sweep remembers it.
FlushUnread(s) ==
    /\ Looks(s)
    /\ Fault
    /\ sweep' = Past(s)
    /\ Remember(s)
    /\ passed' = passed \cup {s}
    /\ UNCHANGED <<messages, quiet, note, archived, turn, flushed>>

\* The listing fails, and the sweep with it.
StartFails ==
    /\ sweep.pc = "off" /\ ~sweep.rested
    /\ Fault
    /\ sweep' = NoSweep
    /\ UNCHANGED <<messages, quiet, note, archived, turn, checked, flushed, passed>>

\* Sweep ends with its list or its batch, and forgets the sessions it did not
\* come to; the one at which a full batch breaks off counts as come to.
EndSweep ==
    /\ sweep.pc = "walk"
    /\ \E came \in SUBSET sweep.todo :
         /\ IF sweep.todo = {} THEN came = {}
            ELSE sweep.wrote >= BatchMax /\ Cardinality(came) = 1
         /\ checked' = [s \in Sessions |-> IF s \in sweep.seen \cup came
                                           THEN checked[s] ELSE 0]
    /\ sweep' = NoSweep
    /\ UNCHANGED <<messages, quiet, note, archived, turn, faults, flushed, passed>>

-----------------------------------------------------------------------------
\* PATCH of a session archives it or takes it back.
Archive(s) ==
    /\ Fault
    /\ passed' = passed \cup {s}
    /\ archived' = IF s \in archived THEN archived \ {s} ELSE archived \cup {s}
    /\ UNCHANGED <<messages, quiet, note, turn, sweep, checked, flushed>>

\* The process stops and starts again over the same database.
Restart ==
    /\ Fault
    /\ turn' = [r \in Runners |-> NoTurn]
    /\ sweep' = NoSweep
    /\ checked' = [s \in Sessions |-> 0]
    /\ UNCHANGED <<messages, quiet, note, archived, flushed, passed>>

\* An interval passes and the next sweep is due.
Tick ==
    /\ sweep.pc = "off" /\ sweep.rested
    /\ \E s \in Sessions : messages[s] > 0 /\ quiet[s] <= Lookback
    /\ quiet' = [s \in Sessions |-> IF messages[s] > 0 /\ quiet[s] <= Lookback
                                    THEN quiet[s] + 1 ELSE quiet[s]]
    /\ sweep' = [sweep EXCEPT !.rested = FALSE]
    /\ UNCHANGED <<messages, note, archived, turn, checked, faults, flushed, passed>>

Run(r) ==
    \/ Answer(r)
    \/ \E force \in BOOLEAN : Summarize(r, force)
    \/ SaveTurn(r)

Sweep ==
    \/ StartSweep
    \/ \E s \in Sessions : Skip(s) \/ Flush(s)
    \/ FlushSave
    \/ EndSweep

Next ==
    \/ \E r \in Runners, s \in Sessions : Ask(r, s)
    \/ \E r \in Runners : Run(r)
    \/ Sweep
    \/ \E r \in Runners : AnswerFails(r) \/ SaveTurnFails(r)
    \/ \E s \in Sessions : FlushFails(s) \/ FlushUnread(s) \/ Archive(s)
    \/ StartFails
    \/ Restart
    \/ Tick

Spec == Init /\ [][Next]_vars

\* IdleFlushLoop sweeps at every interval for as long as the process runs, and
\* the summaries of a sweep have a timeout.  Turns need not end.
FairSpec == Spec /\ WF_vars(Sweep) /\ WF_vars(Tick)

-----------------------------------------------------------------------------
(* Properties *)

\* The flusher makes no second note of messages it has made one of, over failed
\* sweeps and restarts, which forget what was checked: a restart re-derives from
\* the database what needs a note.
OneFlushPerMessage ==
    [][FlushSave => flushed'[sweep.at] > flushed[sweep.at]]_vars

\* What is remembered as checked hides no session that needs a note, whatever
\* came between the listing and the second look.  Only a session flush passed
\* over, as archived or as one it could not read, may be remembered without.
CheckedHasNote ==
    \A s \in Sessions : checked[s] = messages[s] /\ messages[s] > 0 =>
        note[s].time >= messages[s] \/ s \in passed

\* A session left quiet gets a note newer than its last message before it drops
\* out of the lookback, whatever turns, errors or a full batch kept a sweep from
\* writing it.
QuietGetsNote ==
    \A s \in Sessions : messages[s] > 0 ~> note[s].time >= messages[s] \/ s \in passed

=============================================================================
