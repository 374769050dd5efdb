---------------------------- MODULE ApprovalGate ----------------------------
(***************************************************************************)
(* The approval gate (approval.Gate), the Tool Layer that submits gated    *)
(* tool calls to it and runs the builtin ones once approved                *)
(* (agent.Runtime), and the operators who decide.  A decision is taken     *)
(* under the gate's lock; the tool runs, and the connector that owns it is *)
(* told, after the lock is released, in the operator's HTTP request.       *)
(* Nothing of it is persisted.                                             *)
(***************************************************************************)
EXTENDS Naturals, Sequences

CONSTANTS
    Calls,      \* gated tool calls; each gets an approval id of its own
    None,       \* no call
    Operators,  \* decisions that may be under way at once
    TTL,        \* how long a call may wait for its decision
    MaxFaults   \* bound on restarts and broken-off decisions

ASSUME GateAssumption ==
    /\ None \notin Calls
    /\ TTL \in Nat \ {0}
    /\ MaxFaults \in Nat

VARIABLES
    item,    \* Gate.items: call -> its request
    proc,    \* operator -> the DecideReason it is in
    ran,     \* call -> whether each run of its tool went well
    told,    \* connector, per call: the decisions it was told
    faults   \* restarts and broken-off decisions so far

vars == <<item, proc, ran, told, faults>>

\* Whose tool is called: a builtin one, a connector's, or one of a connector's
\* that has the name of a builtin.
Kinds == {"builtin", "connector", "namesake"}

Decisions == {"approve", "reject"}

Init ==
    /\ item = [c \in Calls |-> [status |-> "none", kind |-> "builtin", left |-> 0,
                                decision |-> "none", error |-> "none"]]
    /\ proc = [o \in Operators |-> [pc |-> "idle", call |-> None]]
    /\ ran = [c \in Calls |-> <<>>]
    /\ told = [c \in Calls |-> <<>>]
    /\ faults = 0

-----------------------------------------------------------------------------
\* pendingApproval and SubmitMeta: a gated call is recorded and not run.
Submit(c, kind) ==
    /\ item[c].status = "none"
    /\ item' = [item EXCEPT ![c].status = "pending", ![c].kind = kind, ![c].left = TTL]
    /\ UNCHANGED <<proc, ran, told, faults>>

Overdue(c) == item[c].status = "pending" /\ item[c].left = 0

\* expirePending: whoever looks at an overdue request, an operator who would
\* decide it included, finds and leaves it expired.
Expire(c) ==
    /\ Overdue(c)
    /\ item' = [item EXCEPT ![c].status = "expired"]
    /\ UNCHANGED <<proc, ran, told, faults>>

Goto(o, pc) == proc' = [proc EXCEPT ![o].pc = pc]

\* Mutant of After: the decision is passed on and nothing is run.
AfterTelling(decision) == "tell"

\* Where the handler of a decision goes on once the lock is released.
After(decision) == IF decision = "approve" THEN "run" ELSE "tell"

Decided(c, decision) ==
    [item EXCEPT ![c].status = IF decision = "approve" THEN "approved" ELSE "rejected",
                 ![c].decision = decision]

\* Mutant of Decide: the expiry is not looked at.
DecideLate(o, c, decision) ==
    /\ proc[o].pc = "idle"
    /\ item[c].status = "pending"
    /\ item' = Decided(c, decision)
    /\ proc' = [proc EXCEPT ![o] = [pc |-> After(decision), call |-> c]]
    /\ UNCHANGED <<ran, told, faults>>

\* Mutant of Decide: a rejected request can be approved after all.
DecideAgain(o, c, decision) ==
    /\ proc[o].pc = "idle"
    /\ item[c].status \in {"pending", "rejected"}
    /\ ~Overdue(c)
    /\ item' = Decided(c, decision)
    /\ proc' = [proc EXCEPT ![o] = [pc |-> After(decision), call |-> c]]
    /\ UNCHANGED <<ran, told, faults>>

\* DecideReason, up to the release of the lock; any other status is an error.
Decide(o, c, decision) ==
    /\ proc[o].pc = "idle"
    /\ item[c].status = "pending"
    /\ ~Overdue(c)
    /\ item' = Decided(c, decision)
    /\ proc' = [proc EXCEPT ![o] = [pc |-> After(decision), call |-> c]]
    /\ UNCHANGED <<ran, told, faults>>

\* The tools the executor runs: those of the builtin connector, and any whose
\* name is a builtin's.
RunsHere(kind) == kind # "connector"

\* The executor: builtin.Invoke, or nothing.  A tool that is switched off by then
\* answers that it is not configured, which is a run that went well.
Run(o, ok) ==
    LET c == proc[o].call
    IN  /\ proc[o].pc = "run"
        /\ RunsHere(item[c].kind) \/ ok
        /\ ran' = IF RunsHere(item[c].kind) THEN [ran EXCEPT ![c] = Append(@, ok)]
                  ELSE ran
        /\ Goto(o, IF ok THEN "tell" ELSE "runError")
        /\ UNCHANGED <<item, told, faults>>

\* The error of a run is kept with the request, under the lock again.
KeepRunError(o) ==
    /\ proc[o].pc = "runError"
    /\ item' = [item EXCEPT ![proc[o].call].error = "run"]
    /\ Goto(o, "tell")
    /\ UNCHANGED <<ran, told, faults>>

\* The relayer: the connector is told; there is none of the name builtin.  A
\* relay that ends in an error may have reached it.
Tell(o, reached, ok) ==
    LET c == proc[o].call
    IN  /\ proc[o].pc = "tell"
        /\ IF item[c].kind = "builtin" THEN ok /\ ~reached ELSE ok => reached
        /\ told' = IF reached THEN [told EXCEPT ![c] = Append(@, item[c].decision)]
                   ELSE told
        /\ Goto(o, IF ok THEN "answer" ELSE "tellError")
        /\ UNCHANGED <<item, ran, faults>>

\* Mutant of KeepTellError: the error of the run is overwritten.
KeepTellErrorOver(o) ==
    /\ proc[o].pc = "tellError"
    /\ item' = [item EXCEPT ![proc[o].call].error = "tell"]
    /\ Goto(o, "answer")
    /\ UNCHANGED <<ran, told, faults>>

\* The error of a relay is kept unless there is one of the run.
KeepTellError(o) ==
    /\ proc[o].pc = "tellError"
    /\ item' = [item EXCEPT ![proc[o].call].error = IF @ = "none" THEN "tell" ELSE @]
    /\ Goto(o, "answer")
    /\ UNCHANGED <<ran, told, faults>>

\* The operator is answered with the request as it is now.
Answer(o) ==
    /\ proc[o].pc = "answer"
    /\ proc' = [proc EXCEPT ![o] = [pc |-> "idle", call |-> None]]
    /\ UNCHANGED <<item, ran, told, faults>>

-----------------------------------------------------------------------------
\* A panic in a tool or a relay ends the handler; the decision stands.
BreakOff(o) ==
    /\ faults < MaxFaults
    /\ proc[o].pc \in {"run", "tell"}
    /\ proc' = [proc EXCEPT ![o] = [pc |-> "idle", call |-> None]]
    /\ faults' = faults + 1
    /\ UNCHANGED <<item, ran, told>>

\* The process stops and starts again with an empty gate: an id that was given
\* is not found any more.
Restart ==
    /\ faults < MaxFaults
    /\ item' = [c \in Calls |-> IF item[c].status = "none" THEN item[c]
                                ELSE [item[c] EXCEPT !.status = "lost"]]
    /\ proc' = [o \in Operators |-> [pc |-> "idle", call |-> None]]
    /\ faults' = faults + 1
    /\ UNCHANGED <<ran, told>>

Aging == {c \in Calls : item[c].status = "pending" /\ item[c].left > 0}

Tick ==
    /\ Aging # {}
    /\ item' = [c \in Calls |-> IF c \in Aging THEN [item[c] EXCEPT !.left = @ - 1]
                                ELSE item[c]]
    /\ UNCHANGED <<proc, ran, told, faults>>

Handle(o) ==
    \/ \E ok \in BOOLEAN : Run(o, ok)
    \/ KeepRunError(o)
    \/ \E reached, ok \in BOOLEAN : Tell(o, reached, ok)
    \/ KeepTellError(o)
    \/ Answer(o)

Next ==
    \/ \E c \in Calls, kind \in Kinds : Submit(c, kind)
    \/ \E c \in Calls : Expire(c)
    \/ \E o \in Operators, c \in Calls, decision \in Decisions : Decide(o, c, decision)
    \/ \E o \in Operators : Handle(o)
    \/ \E o \in Operators : BreakOff(o)
    \/ Restart
    \/ Tick

Spec == Init /\ [][Next]_vars

\* A handler runs to its end: tools and relays have timeouts.
FairSpec == Spec /\ \A o \in Operators : WF_vars(Handle(o))

-----------------------------------------------------------------------------
(* Properties *)

TypeOK ==
    /\ item \in [Calls -> [status : {"none", "pending", "approved", "rejected",
                                     "expired", "lost"},
                           kind : Kinds, left : 0 .. TTL,
                           decision : Decisions \cup {"none"},
                           error : {"none", "run", "tell"}]]
    /\ proc \in [Operators -> [pc : {"idle", "run", "runError", "tell", "tellError",
                                     "answer"},
                               call : Calls \cup {None}]]
    /\ ran \in [Calls -> Seq(BOOLEAN)]
    /\ told \in [Calls -> Seq(Decisions)]
    /\ faults \in 0 .. MaxFaults

\* However many operators decide a call at once, its tool runs at most once, and
\* only if it was approved before its time was over.
RunOnceApproved ==
    \A c \in Calls :
        /\ Len(ran[c]) <= 1
        /\ Len(ran[c]) = 1 => item[c].decision = "approve" /\ item[c].left > 0

\* The connector is told one decision, the one that stands, and that it was
\* approved only after the tool has had its run here.
ToldTheDecision ==
    \A c \in Calls :
        /\ Len(told[c]) <= 1
        /\ \A n \in 1 .. Len(told[c]) :
             /\ told[c][n] = item[c].decision
             /\ told[c][n] = "approve" /\ RunsHere(item[c].kind) => ran[c] # <<>>

Handled(c) == \A o \in Operators : proc[o].call # c

\* Once the operator is answered, the request of a run that failed says so, also
\* when the relay failed as well.
FailedRunShows ==
    \A c \in Calls : item[c].status = "approved" /\ ran[c] = <<FALSE>> /\ Handled(c)
        => item[c].error = "run" \/ faults > 0

\* A decision, or the lack of one in time, is final: the status a request leaves
\* the pending state with is its last, as long as the process lives.
Resolved(c) == item[c].status \in {"approved", "rejected", "expired"}

SingleResolution ==
    [][\A c \in Calls : Resolved(c) =>
          \/ item'[c].status = item[c].status /\ item'[c].decision = item[c].decision
          \/ item'[c].status = "lost"]_vars

\* An approved builtin tool runs, unless a fault comes between the decision and
\* the run: nothing runs it later.
ApprovedRuns ==
    \A c \in Calls : item[c].status = "approved" /\ RunsHere(item[c].kind) ~>
        ran[c] # <<>> \/ faults > 0

=============================================================================
