---------------------------- MODULE WebhookJobs ----------------------------
(***************************************************************************)
(* The outbound webhook worker of the gateway: the rows of webhook_jobs,   *)
(* the poller that claims them (tick), the goroutines that run the chat,   *)
(* post the callback and write the row back (process, scheduleRetry), and  *)
(* the receiver of the callbacks, which is external.                       *)
(*                                                                         *)
(* A goroutine works on the COPY of the row it claimed and writes that     *)
(* copy back whole, so a worker holds a copy here as well.  Replies are    *)
(* named by the run that produced them: a claim writes a fresh lease, and  *)
(* the reply of the run under lease n is the number n (0 is no reply).     *)
(* NextAttemptAt is kept as the time left until it, so the clock needs no  *)
(* bound.                                                                  *)
(***************************************************************************)
EXTENDS Integers, Sequences, FiniteSets

CONSTANTS
    Jobs,           \* the job ids that may be created
    None,           \* no job: what an idle worker holds
    Workers,        \* goroutines started by tick
    Retries,        \* the retry schedule, a sequence of delays
    RetryAfterCap,  \* maxRetryAfter
    JitterDiv,      \* jitter is a delay divided by this (10 in the code)
    MaxFaults       \* bound on restarts and abandoned runs

ASSUME JobsAssumption ==
    /\ None \notin Jobs
    /\ Retries \in Seq(Nat)
    /\ Len(Retries) > 0
    /\ RetryAfterCap \in Nat
    /\ JitterDiv \in Nat \ {0}
    /\ MaxFaults \in Nat

VARIABLES
    row,       \* webhook_jobs: job -> its row, "absent" when there is none
    made,      \* rows created so far; orders created_at
    proc,      \* worker -> the state of its goroutine
    receiver,  \* callback receiver, per job: what it was sent and what it said
    faults,    \* restarts and abandoned runs so far
    struck     \* history: the jobs whose goroutine a fault ended

vars == <<row, made, proc, receiver, faults, struck>>

Settled == {"done", "failed", "dead"}
Statuses == {"absent", "queued", "running"} \cup Settled

\* How the receiver, or the way to it, answers a POST: 2xx, 429, any other
\* 4xx, a URL refused by CheckCallbackURL before anything is sent, and the
\* rest (5xx, an unreachable host, an answer lost on the way).
Answers == {"ok", "throttled", "refused", "blocked", "failed"}

Row == [status : Statuses, callback : BOOLEAN, attempts : Nat, wait : Nat,
        born : Nat, lease : Nat, reply : Nat, error : BOOLEAN]

NoRow == [status |-> "absent", callback |-> FALSE, attempts |-> 0, wait |-> 0,
          born |-> 0, lease |-> 0, reply |-> 0, error |-> FALSE]

Worker == [pc : {"idle", "chat", "post", "save"}, job : Jobs \cup {None},
           copy : Row, answer : Answers, after : Nat]

Idle == [pc |-> "idle", job |-> None, copy |-> NoRow,
         answer |-> "failed", after |-> 0]

Receiver == [posts : Nat, acked : BOOLEAN, reply : Nat, refused : BOOLEAN]

Init ==
    /\ row = [j \in Jobs |-> NoRow]
    /\ made = 0
    /\ proc = [w \in Workers |-> Idle]
    /\ receiver = [j \in Jobs |-> [posts |-> 0, acked |-> FALSE, reply |-> 0,
                                   refused |-> FALSE]]
    /\ faults = 0
    /\ struck = {}

-----------------------------------------------------------------------------
(* Creating rows *)

\* Enqueue: an async request persists a queued job, due at once.
Enqueue(j, callback) ==
    /\ row[j].status = "absent"
    /\ row' = [row EXCEPT ![j] = [NoRow EXCEPT !.status = "queued",
                                               !.callback = callback,
                                               !.born = made]]
    /\ made' = made + 1
    /\ UNCHANGED <<proc, receiver, faults, struck>>

\* FinishSync: a sync request that got its reply records a finished job.  (The
\* handler answers 502 and records nothing when the chat fails.)  Its reply
\* comes from no run of the worker, so it has no number.
FinishSync(j) ==
    /\ row[j].status = "absent"
    /\ row' = [row EXCEPT ![j] = [NoRow EXCEPT !.status = "done",
                                               !.born = made]]
    /\ made' = made + 1
    /\ UNCHANGED <<proc, receiver, faults, struck>>

\* deliverEvent: a test or a replay posts once and only then records a row for
\* the delivery, already settled.  A blocked URL records nothing.
DeliverEvent(j, answer) ==
    /\ row[j].status = "absent"
    /\ answer # "blocked"
    /\ row' = [row EXCEPT ![j] =
                 [NoRow EXCEPT !.status = IF answer = "ok" THEN "done" ELSE "failed",
                               !.callback = TRUE,
                               !.attempts = 1,
                               !.born = made,
                               !.error = answer # "ok"]]
    /\ receiver' = [receiver EXCEPT ![j] = [posts |-> 1, acked |-> answer = "ok",
                                            reply |-> 0,
                                            refused |-> answer = "refused"]]
    /\ made' = made + 1
    /\ UNCHANGED <<proc, faults, struck>>

-----------------------------------------------------------------------------
(* The poller and the goroutine it starts *)

Due == {j \in Jobs : row[j].status = "queued" /\ row[j].wait = 0}

\* Mutant of Claim: the row is read but not marked, so it can be read again.
ClaimUnmarked(w, j) ==
    /\ proc[w].pc = "idle"
    /\ j \in Due
    /\ \A k \in Due : row[j].born <= row[k].born
    /\ proc' = [proc EXCEPT ![w] = [Idle EXCEPT !.pc = "chat", !.job = j,
                                               !.copy = row[j]]]
    /\ UNCHANGED <<row, made, receiver, faults, struck>>

\* tick: one critical section of the store picks the oldest due row, marks it
\* running under a fresh lease and hands a copy to a new goroutine.
Claim(w, j) ==
    /\ proc[w].pc = "idle"
    /\ j \in Due
    /\ \A k \in Due : row[j].born <= row[k].born
    /\ LET claimed == [row[j] EXCEPT !.status = "running", !.lease = @ + 1]
       IN  /\ row' = [row EXCEPT ![j] = claimed]
           /\ proc' = [proc EXCEPT ![w] = [Idle EXCEPT !.pc = "chat", !.job = j,
                                                       !.copy = claimed]]
    /\ UNCHANGED <<made, receiver, faults, struck>>

\* The runner returned: a reply, or an error and no reply.
Ran(copy, ok) == [copy EXCEPT !.reply = IF ok THEN copy.lease ELSE 0,
                              !.error = ~ok]

\* process, no callback_url: the outcome of the chat settles the job.
ChatSettles(w, ok) ==
    LET j == proc[w].job
        copy == Ran(proc[w].copy, ok)
    IN  /\ proc[w].pc = "chat"
        /\ ~copy.callback
        /\ row' = [row EXCEPT ![j] = [copy EXCEPT !.status =
                                        IF ok THEN "done" ELSE "failed"]]
        /\ proc' = [proc EXCEPT ![w] = Idle]
        /\ UNCHANGED <<made, receiver, faults, struck>>

\* process, with a callback_url: the outcome is kept in the copy only.
ChatThenPost(w, ok) ==
    /\ proc[w].pc = "chat"
    /\ proc[w].copy.callback
    /\ proc' = [proc EXCEPT ![w].pc = "post", ![w].copy = Ran(@, ok)]
    /\ UNCHANGED <<row, made, receiver, faults, struck>>

\* parseRetryAfter
CapRetryAfter(header) == IF header > RetryAfterCap THEN RetryAfterCap ELSE header

\* postCallback and postSigned: the receiver gets the reply of this run, except
\* when the URL is blocked before anything is sent.
Post(w, answer, header) ==
    LET j == proc[w].job
    IN  /\ proc[w].pc = "post"
        /\ answer # "throttled" => header = 0
        /\ receiver' =
             IF answer = "blocked" THEN [receiver EXCEPT ![j].refused = TRUE]
             ELSE [receiver EXCEPT ![j].posts = @ + 1,
                                   ![j].acked = @ \/ answer = "ok",
                                   ![j].reply = IF answer = "ok"
                                                THEN proc[w].copy.reply ELSE @,
                                   ![j].refused = @ \/ answer = "refused"]
        /\ proc' = [proc EXCEPT ![w].pc = "save", ![w].answer = answer,
                                ![w].after = CapRetryAfter(header)]
        /\ UNCHANGED <<row, made, faults, struck>>

\* jitter: a delay give or take a tenth of it.
Jitter(d) == LET span == d \div JitterDiv IN (d - span) .. (d + span)

\* The row a finished run writes back, and its goroutine ends.
WriteBack(w, copy) ==
    /\ row' = [row EXCEPT ![proc[w].job] = copy]
    /\ proc' = [proc EXCEPT ![w] = Idle]
    /\ UNCHANGED <<made, receiver, faults, struck>>

\* Mutant of Tried: the row is read again, and the reply of this run is lost.
TriedReread(w) == [row[proc[w].job] EXCEPT !.attempts = @ + 1]

Tried(w) == [proc[w].copy EXCEPT !.attempts = @ + 1]

\* 2xx settles the job as done, 4xx other than 429 as dead.
SaveAnswered(w) ==
    /\ proc[w].pc = "save"
    /\ proc[w].answer \in {"ok", "refused", "blocked"}
    /\ WriteBack(w, [Tried(w) EXCEPT !.status = IF proc[w].answer = "ok"
                                                THEN "done" ELSE "dead"])

\* Mutant of ScheduleOver: off by one.
ScheduleOverEarly(attempts) == attempts >= Len(Retries) - 1

ScheduleOver(attempts) == attempts >= Len(Retries)

\* Mutant of SaveExhausted: it returns at the end of the schedule and writes
\* nothing, so the row stays as it was claimed.
SaveExhaustedUnwritten(w) ==
    /\ proc[w].pc = "save"
    /\ proc[w].answer \in {"throttled", "failed"}
    /\ ScheduleOver(Tried(w).attempts)
    /\ WriteBack(w, row[proc[w].job])

\* scheduleRetry, schedule used up.
SaveExhausted(w) ==
    /\ proc[w].pc = "save"
    /\ proc[w].answer \in {"throttled", "failed"}
    /\ ScheduleOver(Tried(w).attempts)
    /\ WriteBack(w, [Tried(w) EXCEPT !.status = "dead"])

\* Mutants of SaveRetry: the attempt is not counted; a refusal is retried too.
SaveRetryUncounted(w) ==
    /\ proc[w].pc = "save"
    /\ proc[w].answer \in {"throttled", "failed"}
    /\ ~ScheduleOver(Tried(w).attempts)
    /\ WriteBack(w, [proc[w].copy EXCEPT !.status = "queued",
                                         !.wait = Retries[1]])

SaveRetryRefused(w) ==
    /\ proc[w].pc = "save"
    /\ proc[w].answer # "ok"
    /\ ~ScheduleOver(Tried(w).attempts)
    /\ WriteBack(w, [Tried(w) EXCEPT !.status = "queued",
                                     !.wait = Retries[Tried(w).attempts]])

\* Mutant of SaveRetry: the next attempt is set and the status forgotten.
SaveRetryStillRunning(w) ==
    /\ proc[w].pc = "save"
    /\ proc[w].answer \in {"throttled", "failed"}
    /\ ~ScheduleOver(Tried(w).attempts)
    /\ WriteBack(w, [Tried(w) EXCEPT !.wait = Retries[Tried(w).attempts]])

\* scheduleRetry: back to the queue, not before a jittered delay, which is the
\* receiver's Retry-After when it sent one.
SaveRetry(w) ==
    LET tried == Tried(w)
        delay == IF proc[w].after > 0 THEN proc[w].after
                 ELSE Retries[tried.attempts]
    IN  /\ proc[w].pc = "save"
        /\ proc[w].answer \in {"throttled", "failed"}
        /\ ~ScheduleOver(tried.attempts)
        /\ \E wait \in Jitter(delay) :
             WriteBack(w, [tried EXCEPT !.status = "queued", !.wait = wait])

-----------------------------------------------------------------------------
(* Faults and time *)

\* The jobs a set of goroutines is working on.
HeldBy(ws) == {proc[w].job : w \in ws} \ {None}

\* A panic in the runner is recovered, and an error of UpdateWebhookJob is
\* dropped: either way the goroutine ends and the row stays as claimed.
Abandon(w) ==
    /\ faults < MaxFaults
    /\ proc[w].pc \in {"chat", "save"}
    /\ proc' = [proc EXCEPT ![w] = Idle]
    /\ faults' = faults + 1
    /\ struck' = struck \cup HeldBy({w})
    /\ UNCHANGED <<row, made, receiver>>

\* Mutant of Restart: whatever was running is put back in the queue.
RestartRequeues ==
    /\ faults < MaxFaults
    /\ proc' = [w \in Workers |-> Idle]
    /\ faults' = faults + 1
    /\ struck' = struck \cup HeldBy(Workers)
    /\ row' = [j \in Jobs |-> IF row[j].status = "running"
                             THEN [row[j] EXCEPT !.status = "queued"] ELSE row[j]]
    /\ UNCHANGED <<made, receiver>>

\* The process stops and starts again over the same database: goroutines are
\* gone, rows are as they were, and Start begins polling.
Restart ==
    /\ faults < MaxFaults
    /\ proc' = [w \in Workers |-> Idle]
    /\ faults' = faults + 1
    /\ struck' = struck \cup HeldBy(Workers)
    /\ UNCHANGED <<row, made, receiver>>

Waiting(j) == row[j].status = "queued" /\ row[j].wait > 0

\* Time passes for every row that waits for its NextAttemptAt.
Tick ==
    /\ \E j \in Jobs : Waiting(j)
    /\ row' = [j \in Jobs |-> IF Waiting(j) THEN [row[j] EXCEPT !.wait = @ - 1]
                              ELSE row[j]]
    /\ UNCHANGED <<made, proc, receiver, faults, struck>>

-----------------------------------------------------------------------------
\* Retry-After headers worth telling apart: none, and one above the cap.
Headers == {0, RetryAfterCap + 1}

Create(j) ==
    \/ \E callback \in BOOLEAN : Enqueue(j, callback)
    \/ FinishSync(j)
    \/ \E answer \in Answers : DeliverEvent(j, answer)

Process(w) ==
    \/ \E ok \in BOOLEAN : ChatSettles(w, ok)
    \/ \E ok \in BOOLEAN : ChatThenPost(w, ok)
    \/ \E answer \in Answers, header \in Headers : Post(w, answer, header)
    \/ SaveAnswered(w)
    \/ SaveExhausted(w)
    \/ SaveRetry(w)

Next ==
    \/ \E j \in Jobs : Create(j)
    \/ \E w \in Workers, j \in Jobs : Claim(w, j)
    \/ \E w \in Workers : Process(w)
    \/ \E w \in Workers : Abandon(w)
    \/ Restart
    \/ Tick

Spec == Init /\ [][Next]_vars

\* The poller ticks for as long as the process runs, the runner and the HTTP
\* client have timeouts (30 s and 15 s), and time passes.
Fairness ==
    /\ WF_vars(\E w \in Workers, j \in Jobs : Claim(w, j))
    /\ \A w \in Workers : WF_vars(Process(w))
    /\ WF_vars(Tick)

FairSpec == Spec /\ Fairness

-----------------------------------------------------------------------------
(* Properties *)

TypeOK ==
    /\ row \in [Jobs -> Row]
    /\ made \in Nat
    /\ proc \in [Workers -> Worker]
    /\ receiver \in [Jobs -> Receiver]
    /\ faults \in 0 .. MaxFaults
    /\ struck \subseteq Jobs

Busy(w) == proc[w].pc # "idle"

\* A goroutine that works on a job holds it: the row is running under the
\* lease of its copy, and no other goroutine works on the same job.  Nothing
\* checks the lease when the copy is written back (UpdateWebhookJob), so this
\* is what keeps one run from overwriting another.
LeaseHeld ==
    \A w \in Workers : Busy(w) =>
        LET j == proc[w].job
        IN  /\ j \in Jobs
            /\ row[j].status = "running"
            /\ row[j].lease = proc[w].copy.lease
            /\ \A v \in Workers \ {w} : Busy(v) => proc[v].job # j

\* A job with a callback that reads done was acknowledged with a 2xx, and the
\* reply GET /jobs/{id} shows is the reply the receiver acknowledged, although
\* every retry runs the chat again and may get another one.
DoneMeansAcked ==
    \A j \in Jobs : row[j].status = "done" /\ row[j].callback =>
        receiver[j].acked /\ receiver[j].reply = row[j].reply

\* A job is dead only when the receiver never took it, and either refused it or
\* was tried once for each entry of the schedule.
DeadMeansGivenUp ==
    \A j \in Jobs : row[j].status = "dead" =>
        /\ ~receiver[j].acked
        /\ receiver[j].refused \/ row[j].attempts = Len(Retries)

\* Attempts counts the callbacks sent: exactly for a job that waits in the
\* queue, across restarts and lost writes, and it is never over the schedule.
AttemptsMatchPosts ==
    \A j \in Jobs :
        /\ row[j].status = "queued" => receiver[j].posts = row[j].attempts
        /\ receiver[j].posts <= Len(Retries)

\* No callback is sent for a job whose receiver has acknowledged or refused it,
\* nor for one that was settled.
NoPostAfterVerdict ==
    [][\A j \in Jobs : receiver'[j].posts > receiver[j].posts =>
          /\ ~receiver[j].acked /\ ~receiver[j].refused
          /\ row[j].status \notin Settled]_vars

\* A running row is worked on, unless a restart, a panic or a lost write ended
\* its goroutine: the worker itself never returns without settling the row or
\* putting it back in the queue, since nothing claims a running row again.
RunningIsWorkedOn ==
    \A j \in Jobs : row[j].status = "running" =>
        j \in struck \/ \E w \in Workers : Busy(w) /\ proc[w].job = j

\* What such a fault leaves behind: a running row whose goroutine it ended.
Stranded(j) ==
    /\ row[j].status = "running"
    /\ j \in struck

\* Every queued job settles, unless a fault ends the goroutine that works on it.
SettlesOrStranded ==
    \A j \in Jobs : row[j].status = "queued" ~>
        (row[j].status \in Settled \/ Stranded(j))

\* The callback of an accepted job is sent at least once, or its URL is blocked
\* (the specification of the feature: "Outbound callback at-least-once").
AtLeastOnce ==
    \A j \in Jobs : row[j].status = "queued" /\ row[j].callback ~>
        (receiver[j].posts > 0 \/ receiver[j].refused)

-----------------------------------------------------------------------------
(* What the worker promises: see WebhookDelivery. *)

Fate == [j \in Jobs |->
    CASE row[j].status = "absent" -> "none"
      [] row[j].status \in {"queued", "running"} -> "open"
      [] OTHER -> row[j].status]

Verdict == [j \in Jobs |-> IF receiver[j].acked THEN "acked"
                           ELSE IF receiver[j].refused THEN "refused"
                           ELSE "none"]

Posts == [j \in Jobs |-> receiver[j].posts]

Delivery == INSTANCE WebhookDelivery
              WITH MaxPosts <- Len(Retries), fate <- Fate,
                   verdict <- Verdict, posts <- Posts

\* Every behaviour of the worker is one WebhookDelivery allows.
DeliverySpec == Delivery!Spec
=============================================================================
