------------------------------ MODULE McpStdio ------------------------------
(***************************************************************************)
(* A connector that talks MCP to a subprocess (mcpClient in stdio mode)    *)
(* behind the wrapper that gives each attempt of a call a deadline and     *)
(* tries again (resilient).  Calls share one pipe under one mutex; an      *)
(* attempt that runs out of time leaves its answer, and the goroutine that *)
(* would have read it, behind.  A reader takes any frame for its answer,   *)
(* also one the server writes unasked (a notification, a request of its    *)
(* own).  The process is never waited for: it stays a zombie, with the     *)
(* goroutine of os/exec that watched it and the pipes to it.               *)
(* The connector has no manifest of its own.                               *)
(***************************************************************************)
EXTENDS Naturals, Sequences

CONSTANTS
    Calls,      \* calls of the connector, each made once
    None,       \* no call
    KindOf,     \* call -> what is called
    Retries,    \* RetryConfig.Retries
    MaxFaults,  \* bound on faults
    PipeSize    \* requests the pipe to the server holds before a write blocks

\* The requests an attempt of each kind of call makes, one after the other.
Methods == [invoke |-> <<"tools/call">>,
            list   |-> <<"tools/list">>,
            health |-> <<"initialize", "tools/list">>]

ASSUME McpAssumption ==
    /\ None \notin Calls
    /\ KindOf \in [Calls -> DOMAIN Methods]
    /\ Retries \in Nat
    /\ MaxFaults \in Nat
    /\ PipeSize \in Nat \ {0}

VARIABLES
    call,       \* call -> where it stands
    lock,       \* mcpClient.mu: the call that holds it
    process,    \* the server: to be started, up, a zombie, or a test's pair of pipes
    owner,      \* the attempt whose context exec.CommandContext was given
    watch,      \* goroutine of os/exec: waits for that context, and then for a Wait
    toServer,   \* requests written and not yet read
    toClient,   \* frames written and not yet read
    left,       \* goroutines that wait for a frame for a call that has given up
    torn,       \* two readers have used the one bufio.Reader at once
    ran,        \* call -> how often the server has run its tool
    astray,     \* history: a context has ended under an attempt, or a frame was unasked
    faults      \* callers that left, failures of the server, frames torn or unasked

vars == <<call, lock, process, owner, watch, toServer, toClient, left, torn, ran,
          astray, faults>>

\* The attempts of a call.
Attempts == Retries + 1

NewCall == [pc |-> "idle", try |-> 0, step |-> 1,
            ctx |-> TRUE,        \* the caller's context is not over
            attempt |-> FALSE,   \* nor that of the attempt
            got |-> <<>>,        \* the channel its reader answers on
            failure |-> "none",  \* of the attempt
            own |-> FALSE,       \* the answer is the one to its own request
            result |-> "none"]

NoOwner == [call |-> None, try |-> 0]
NoRpc == [call |-> None, try |-> 0, step |-> 0]

Init ==
    /\ call = [c \in Calls |-> NewCall]
    /\ lock = None
    /\ process \in {"none", "pipes"}
    /\ owner = NoOwner
    /\ watch = "none"
    /\ toServer = <<>>
    /\ toClient = <<>>
    /\ left = 0
    /\ torn = FALSE
    /\ ran = [c \in Calls |-> 0]
    /\ astray = FALSE
    /\ faults = 0

Rpc(c) == [call |-> c, try |-> call[c].try, step |-> call[c].step]

Method(rpc) == Methods[KindOf[rpc.call]][rpc.step]

server == <<process, owner, watch, toServer, toClient, ran>>
pipe == <<lock, left, torn>>
trouble == <<astray, faults>>

Fault == faults < MaxFaults /\ faults' = faults + 1

-----------------------------------------------------------------------------
(* The loop of attempts *)

\* An attempt begins, with a context of its own.
Attempt(c) ==
    [call EXCEPT ![c].pc = "lock", ![c].try = @ + 1, ![c].step = 1,
                 ![c].attempt = TRUE, ![c].failure = "none"]

Start(c) ==
    /\ call[c].pc = "idle"
    /\ call' = Attempt(c)
    /\ UNCHANGED <<server, pipe, trouble>>

\* The loop returns; what it kept is gone.
Returned(c, result) ==
    [call EXCEPT ![c] = [NewCall EXCEPT !.pc = "done", !.result = result,
                                        !.own = call[c].own]]

\* What the loop does with an attempt: whatever is wrong with the pipe or the
\* answer is an ErrUnavailable, and tried again.
Finished(c) ==
    CASE call[c].failure = "none" -> "ok"
      [] call[c].failure = "final" /\ call[c].ctx -> "failed"
      [] call[c].failure = "offline" /\ call[c].ctx /\ call[c].try < Attempts -> "again"
      [] OTHER -> "unavailable"

\* cancel, and then the next attempt or the end of the loop.
End(c) ==
    /\ call[c].pc = "end"
    /\ call' = IF Finished(c) = "again" THEN Attempt(c) ELSE Returned(c, Finished(c))
    /\ UNCHANGED <<server, pipe, trouble>>

-----------------------------------------------------------------------------
(* One rpc *)

\* The calls whose reader waits for a frame.
Reading == {c \in Calls : call[c].pc = "read" /\ call[c].got = <<>>}

AttemptEnds(c, failure) ==
    call' = [call EXCEPT ![c].pc = "end", ![c].failure = failure, ![c].got = <<>>]

\* Mutant of Free: the lock is not asked for.
FreeAlways == TRUE

Free == lock = None

\* rpcStdio takes the lock, which does not look at a context, and finds the pipe.
Lock(c) ==
    /\ call[c].pc = "lock"
    /\ Free
    /\ process # "none"
    /\ lock' = c
    /\ call' = [call EXCEPT ![c].pc = "write"]
    /\ UNCHANGED <<server, left, torn, trouble>>

\* The first to get it starts the command (ensureStdio), and binds it to the context
\* of its attempt.
StartServer(c) ==
    /\ call[c].pc = "lock"
    /\ Free
    /\ process = "none"
    /\ call[c].attempt
    /\ lock' = c
    /\ call' = [call EXCEPT ![c].pc = "write"]
    /\ process' = "up"
    /\ owner' = [call |-> c, try |-> call[c].try]
    /\ watch' = "armed"
    /\ UNCHANGED <<toServer, toClient, ran, left, torn, trouble>>

\* It does not start: its context is over, or there is no such command.
StartFails(c) ==
    /\ call[c].pc = "lock"
    /\ Free
    /\ process = "none"
    /\ AttemptEnds(c, "offline")
    /\ IF call[c].attempt THEN Fault ELSE UNCHANGED faults
    /\ UNCHANGED <<server, pipe, astray>>

\* Mutant of Write: the lock is held for the write only.
WriteAndUnlock(c) ==
    /\ call[c].pc = "write"
    /\ process # "zombie"
    /\ Len(toServer) < PipeSize
    /\ toServer' = Append(toServer, Rpc(c))
    /\ torn' = (torn \/ Reading # {} \/ left > 0)
    /\ call' = [call EXCEPT ![c].pc = "read"]
    /\ lock' = None
    /\ UNCHANGED <<left, process, owner, watch, toClient, ran, trouble>>

\* The request is written, however long the pipe makes that take, and a reader is
\* started on the bufio.Reader all of them share.
Write(c) ==
    /\ call[c].pc = "write"
    /\ process # "zombie"
    /\ Len(toServer) < PipeSize
    /\ toServer' = Append(toServer, Rpc(c))
    /\ torn' = (torn \/ Reading # {} \/ left > 0)
    /\ call' = [call EXCEPT ![c].pc = "read"]
    /\ UNCHANGED <<lock, left, process, owner, watch, toClient, ran, trouble>>

\* The pipe to a process that is gone is broken.
WriteFails(c) ==
    /\ call[c].pc = "write"
    /\ process = "zombie"
    /\ AttemptEnds(c, "offline")
    /\ lock' = None
    /\ UNCHANGED <<server, left, torn, trouble>>

\* What the call makes of a frame: parseRPCResult looks at no id and no method, and a
\* frame without a result reads as an empty one; only the answer to tools/list is
\* checked, by toolsFromMCP.
Outcome(c, frame) ==
    LET listed == frame.of # NoRpc /\ Method(frame.of) = "tools/list"
    IN  CASE frame.body # "result" -> "offline"
          [] frame.body = "result" /\ Method(Rpc(c)) = "tools/list" /\ ~listed -> "final"
          [] OTHER -> "none"

\* The reader has answered; Health goes on to its second request.
Receive(c) ==
    /\ call[c].pc = "read"
    /\ call[c].got # <<>>
    /\ LET frame == call[c].got[1]
           failure == Outcome(c, frame)
           last == call[c].step = Len(Methods[KindOf[c]])
       IN  call' = IF failure = "none" /\ ~last
                   THEN [call EXCEPT ![c].pc = "lock", ![c].step = @ + 1, ![c].got = <<>>]
                   ELSE [call EXCEPT ![c].pc = "end", ![c].failure = failure,
                                     ![c].got = <<>>,
                                     ![c].own = failure = "none" /\ frame.of = Rpc(c)]
    /\ lock' = None
    /\ UNCHANGED <<server, left, torn, trouble>>

\* Mutant of GiveUp: the early return forgets the lock.
GiveUpLocked(c) ==
    /\ call[c].pc = "read"
    /\ ~call[c].attempt
    /\ AttemptEnds(c, "offline")
    /\ left' = IF c \in Reading THEN left + 1 ELSE left
    /\ UNCHANGED <<lock, torn, server, trouble>>

\* The context of the attempt is over; its reader stays.
GiveUp(c) ==
    /\ call[c].pc = "read"
    /\ ~call[c].attempt
    /\ AttemptEnds(c, "offline")
    /\ left' = IF c \in Reading THEN left + 1 ELSE left
    /\ lock' = None
    /\ UNCHANGED <<torn, server, trouble>>

-----------------------------------------------------------------------------
(* The readers *)

\* Any of the readers gets what there is to read: that of a call, or one that was
\* left and drops it.
Deliver(frame) ==
    /\ \/ \E c \in Reading : /\ call' = [call EXCEPT ![c].got = <<frame>>]
                              /\ UNCHANGED left
       \/ left > 0 /\ left' = left - 1 /\ UNCHANGED call
    /\ UNCHANGED <<lock, torn, process, owner, watch, toServer, ran, astray>>

ReadFrame ==
    /\ toClient # <<>>
    /\ Deliver(Head(toClient))
    /\ toClient' = Tail(toClient)
    /\ UNCHANGED faults

Broken == [of |-> NoRpc, body |-> "broken"]

\* The end of the stream.
ReadEnd ==
    /\ process = "zombie"
    /\ toClient = <<>>
    /\ Deliver(Broken)
    /\ UNCHANGED <<toClient, faults>>

\* Two readers have torn a frame: what one of them gets is none, and the frame may
\* be lost.
ReadTorn(lost) ==
    /\ torn
    /\ Fault
    /\ toClient # <<>>
    /\ Deliver(Broken)
    /\ toClient' = IF lost THEN Tail(toClient) ELSE toClient

Read == ReadFrame \/ ReadEnd \/ \E lost \in BOOLEAN : ReadTorn(lost)

-----------------------------------------------------------------------------
(* Contexts, and the server *)

\* The deadline of an attempt passes.
Deadline(c) ==
    /\ call[c].attempt
    /\ call' = [call EXCEPT ![c].attempt = FALSE]
    /\ astray' = TRUE
    /\ UNCHANGED <<server, pipe, faults>>

\* The caller's context ends, and that of the attempt with it.
Cancel(c) ==
    /\ call[c].pc \notin {"idle", "done"}
    /\ call[c].ctx
    /\ call' = [call EXCEPT ![c].ctx = FALSE, ![c].attempt = FALSE]
    /\ Fault
    /\ astray' = TRUE
    /\ UNCHANGED <<server, pipe>>

\* Mutant of OwnerOver: the command is given the context of the caller.
OwnerOverCaller == ~call[owner.call].ctx

\* The attempt that started the process is over, whatever came of it.
OwnerOver ==
    \/ call[owner.call].try # owner.try
    \/ ~call[owner.call].attempt

\* The process has ended, and nobody calls Wait: it is not reaped and its pipes are
\* not closed, though no one is at their other end.
Dies ==
    /\ process' = "zombie"
    /\ toServer' = <<>>
    /\ UNCHANGED <<call, pipe, toClient, ran>>

\* The goroutine of os/exec kills the process when its context is done, and then
\* waits for a Wait that never comes.
Kill ==
    /\ watch = "armed"
    /\ OwnerOver
    /\ Dies
    /\ owner' = NoOwner
    /\ watch' = "stuck"
    /\ UNCHANGED trouble

\* The server exits by itself.
Exit ==
    /\ process = "up"
    /\ Dies
    /\ Fault
    /\ UNCHANGED <<owner, watch, astray>>

\* The server takes a request, in its own time, and answers it, with an error
\* perhaps, or does not.
Serve(body) ==
    /\ process \in {"up", "pipes"}
    /\ toServer # <<>>
    /\ LET rpc == Head(toServer)
       IN  /\ ran' = IF Method(rpc) = "tools/call" THEN [ran EXCEPT ![rpc.call] = @ + 1]
                     ELSE ran
           /\ toServer' = Tail(toServer)
           /\ toClient' = IF body = "none" THEN toClient
                          ELSE Append(toClient, [of |-> rpc, body |-> body])
    /\ IF body = "result" THEN UNCHANGED faults ELSE Fault
    /\ UNCHANGED <<call, pipe, process, owner, watch, astray>>

\* It writes a frame nobody asked for, which the protocol allows: a notification, or a
\* request of its own.
Notify ==
    /\ process \in {"up", "pipes"}
    /\ toClient' = Append(toClient, [of |-> NoRpc, body |-> "result"])
    /\ astray' = TRUE
    /\ Fault
    /\ UNCHANGED <<call, pipe, process, owner, watch, toServer, ran>>

-----------------------------------------------------------------------------
\* What the goroutine of a call does next.
Step(c) ==
    \/ Lock(c)
    \/ StartServer(c)
    \/ StartFails(c)
    \/ Write(c)
    \/ WriteFails(c)
    \/ Receive(c)
    \/ GiveUp(c)
    \/ End(c)

Next ==
    \/ \E c \in Calls : Start(c)
    \/ \E c \in Calls : Step(c)
    \/ \E c \in Calls : Deadline(c)
    \/ \E c \in Calls : Cancel(c)
    \/ Read
    \/ Kill
    \/ Exit
    \/ \E body \in {"result", "error", "none"} : Serve(body)
    \/ Notify

Spec == Init /\ [][Next]_vars

\* Goroutines run, timers fire, and the kill takes effect.  The server owes nothing.
FairSpec ==
    /\ Spec
    /\ \A c \in Calls : WF_vars(Step(c)) /\ WF_vars(Deadline(c))
    /\ WF_vars(Read)
    /\ WF_vars(Kill)

-----------------------------------------------------------------------------
(* Properties *)

\* As long as no attempt has run out of time and the server has written nothing but
\* answers, a call that succeeds returns the answer to its own last request, although
\* nothing compares the ids: the mutex pairs them, also across errors, answers that
\* never come, torn pipes and retries.
OwnAnswer ==
    ~astray =>
        \A c \in Calls : call[c].result = "ok" => call[c].own

Untroubled == ~astray /\ faults = 0

\* A server that answers every request in time serves every call.
Served ==
    Untroubled => \A c \in Calls : call[c].pc = "done" => call[c].result = "ok"

\* It does over the pipes of the test.
PipesServed == process = "pipes" => Served

\* A tool is run again for a call only after a context has ended or the server has
\* failed: the loop never repeats a call that went well, nor one it cannot know of.
RunOnceUntroubled == Untroubled => \A c \in Calls : ran[c] <= 1

\* Over a command, every call that began comes back, also from a write the server
\* does not take and a lock that does not look at the context: the deadline of the
\* attempt that started the process ends them.
CallsEnd ==
    process # "pipes" ~> \A c \in Calls : call[c].pc \in {"idle", "done"}

\* The client has no Close and calls no Wait.  Its server never runs on, nor does a
\* reader wait on: both end with the attempt that started the process.  What stays is
\* one zombie, its pipes and the goroutine that watched it.
OnlyAZombieStays ==
    process = "up" ~> process = "zombie" /\ watch = "stuck" /\ left = 0
=============================================================================
