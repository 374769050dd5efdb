--------------------------- MODULE WebhookInbound ---------------------------
(***************************************************************************)
(* The inbound side of a webhook: POST /api/webhooks/llm with its          *)
(* Idempotency-Key (handleWebhookLLM, LookupIdempotency, Enqueue,          *)
(* FinishSync).  A request looks for a job of its key, and creates one     *)
(* when it finds none; the look and the creation are separate accesses of  *)
(* the store with a chat in between for a sync request, and no constraint  *)
(* of the table keeps two jobs of one key apart.                           *)
(*                                                                         *)
(* One webhook is modelled: the key of the table is (webhook_id, key).     *)
(* The mode of a request is part of the body, so its hash decides it.      *)
(***************************************************************************)
EXTENDS Integers, Sequences, FiniteSets

CONSTANTS
    Requests,     \* requests that may arrive
    Keys,         \* Idempotency-Key values
    NoKey,        \* a request without the header
    Hashes,       \* hashes of request bodies
    AsyncHashes,  \* those of bodies with mode "async"
    TTL,          \* idempotencyTTL
    MaxTime,      \* bound on the clock
    MaxFaults     \* bound on store errors and restarts

ASSUME InboundAssumption ==
    /\ NoKey \notin Keys
    /\ AsyncHashes \subseteq Hashes
    /\ TTL \in Nat
    /\ MaxTime \in Nat
    /\ MaxFaults \in Nat

VARIABLES
    jobs,    \* webhook_jobs in the order of their creation; a job's index is its id
    req,     \* request -> where its handler is
    now,     \* the clock
    faults   \* store errors and restarts so far

vars == <<jobs, req, now, faults>>

\* Where the handler of a request is, its key and hash, and its answer.  by (who created
\* a job), known (the jobs there were when the request arrived) and blind (a look of its
\* failed) are history.
Init ==
    /\ jobs = <<>>
    /\ req = [r \in Requests |->
                [pc |-> "new", key |-> NoKey, hash |-> CHOOSE h \in Hashes : TRUE,
                 answer |-> "none", job |-> 0, known |-> 0, blind |-> FALSE]]
    /\ now = 0
    /\ faults = 0

-----------------------------------------------------------------------------
\* Where the handler goes on when no job answers the request.
Accept(hash) == IF hash \in AsyncHashes THEN "recheck" ELSE "chat"

\* A request, authenticated and well formed; without a key nothing is looked up.
Arrive(r, key, hash) ==
    /\ req[r].pc = "new"
    /\ req' = [req EXCEPT ![r].pc = IF key = NoKey THEN Accept(hash) ELSE "lookup",
                          ![r].key = key,
                          ![r].hash = hash,
                          ![r].known = Len(jobs)]
    /\ UNCHANGED <<jobs, now, faults>>

Of(key) == {i \in 1 .. Len(jobs) : jobs[i].key = key}

\* Mutant of Newest: the oldest.
Oldest(key) ==
    IF Of(key) = {} THEN 0 ELSE CHOOSE i \in Of(key) : \A k \in Of(key) : k >= i

\* GetWebhookJobByIdempotency: the newest job of the key, 0 when there is none.
Newest(key) ==
    IF Of(key) = {} THEN 0 ELSE CHOOSE i \in Of(key) : \A k \in Of(key) : k <= i

\* Mutant of Fresh: not so at the very end of the TTL.
FreshStrict(i) == now - jobs[i].created < TTL

Fresh(i) == now - jobs[i].created <= TTL

\* Mutant of Found: the hash is not compared.
FoundAnyBody(r) ==
    LET i == Newest(req[r].key)
    IN  IF req[r].key = NoKey \/ i = 0 \/ ~Fresh(i) THEN "none" ELSE "job"

\* The answer the jobs of its key hold for a request.
Found(r) ==
    LET i == Newest(req[r].key)
    IN  IF req[r].key = NoKey \/ i = 0 \/ ~Fresh(i) THEN "none"
        ELSE IF jobs[i].hash # req[r].hash THEN "conflict"
        ELSE "job"

Goto(r, pc) == req' = [req EXCEPT ![r].pc = pc]

Answer(r, answer, job) ==
    req' = [req EXCEPT ![r].pc = "over", ![r].answer = answer, ![r].job = job]

\* Look for a job of the key: answer with it, or go on to pc.
Look(r, pc) ==
    /\ \/ Found(r) = "none" /\ Goto(r, pc)
       \/ Found(r) = "conflict" /\ Answer(r, "conflict", 0)
       \/ Found(r) = "job" /\ Answer(r, "job", Newest(req[r].key))
    /\ UNCHANGED <<jobs, now, faults>>

\* LookupIdempotency, called by the handler before anything else.
Lookup(r) == req[r].pc = "lookup" /\ Look(r, Accept(req[r].hash))

\* Enqueue looks again before it creates, and in another access of the store.
Recheck(r) == req[r].pc = "recheck" /\ Look(r, "create")

\* A look that fails is taken for one that found nothing.
LookFails(r) ==
    /\ faults < MaxFaults
    /\ req[r].pc = "lookup" \/ (req[r].pc = "recheck" /\ req[r].key # NoKey)
    /\ req' = [req EXCEPT ![r].pc = IF @ = "lookup" THEN Accept(req[r].hash)
                                                    ELSE "create",
                          ![r].blind = TRUE]
    /\ faults' = faults + 1
    /\ UNCHANGED <<jobs, now>>

\* CreateWebhookJob and the answer that names the job.
Record(r, finished) ==
    /\ jobs' = Append(jobs, [key |-> req[r].key, hash |-> req[r].hash,
                             created |-> now, finished |-> finished, by |-> r])
    /\ Answer(r, "job", Len(jobs) + 1)
    /\ UNCHANGED <<now, faults>>

Create(r) ==
    /\ req[r].pc = "create"
    /\ Record(r, FALSE)

\* An async request whose job cannot be written is refused.
CreateFails(r) ==
    /\ faults < MaxFaults
    /\ req[r].pc = "create"
    /\ Answer(r, "error", 0)
    /\ faults' = faults + 1
    /\ UNCHANGED <<jobs, now>>

\* The chat of a sync request; when it fails nothing is recorded.
Chat(r, ok) ==
    /\ req[r].pc = "chat"
    /\ IF ok THEN Goto(r, "finish") ELSE Answer(r, "error", 0)
    /\ UNCHANGED <<jobs, now, faults>>

\* FinishSync looks for nothing: it creates the finished job of the reply.
FinishSync(r) ==
    /\ req[r].pc = "finish"
    /\ Record(r, TRUE)

\* The reply is sent all the same when its job cannot be written, with id 0.
FinishSyncFails(r) ==
    /\ faults < MaxFaults
    /\ req[r].pc = "finish"
    /\ Answer(r, "job", 0)
    /\ faults' = faults + 1
    /\ UNCHANGED <<jobs, now>>

\* The worker settles a queued job (WebhookJobs).
Settle(i) ==
    /\ i \in 1 .. Len(jobs)
    /\ ~jobs[i].finished
    /\ jobs' = [jobs EXCEPT ![i].finished = TRUE]
    /\ UNCHANGED <<req, now, faults>>

\* The process stops and starts again: requests under way get no answer.
Restart ==
    /\ faults < MaxFaults
    /\ req' = [r \in Requests |-> IF req[r].pc = "new" THEN req[r]
                                  ELSE [req[r] EXCEPT !.pc = "over"]]
    /\ faults' = faults + 1
    /\ UNCHANGED <<jobs, now>>

Tick ==
    /\ now < MaxTime
    /\ now' = now + 1
    /\ UNCHANGED <<jobs, req, faults>>

Handle(r) ==
    \/ Lookup(r)
    \/ Recheck(r)
    \/ Create(r)
    \/ \E ok \in BOOLEAN : Chat(r, ok)
    \/ FinishSync(r)

Fail(r) == LookFails(r) \/ CreateFails(r) \/ FinishSyncFails(r)

Next ==
    \/ \E r \in Requests, key \in Keys \cup {NoKey}, hash \in Hashes :
         Arrive(r, key, hash)
    \/ \E r \in Requests : Handle(r)
    \/ \E r \in Requests : Fail(r)
    \/ \E i \in 1 .. Len(jobs) : Settle(i)
    \/ Restart
    \/ Tick

Spec == Init /\ [][Next]_vars

-----------------------------------------------------------------------------
(* Properties *)

\* A request that is answered with a job is answered with one of its own key and
\* body, and a sync request with one that has its reply: the handler reads the
\* reply off whatever job it finds, queued or not.
AnswerIsOwn ==
    \A r \in Requests : req[r].answer = "job" /\ req[r].job > 0 =>
        LET job == jobs[req[r].job]
        IN  /\ job.key = req[r].key
            /\ job.hash = req[r].hash
            /\ req[r].hash \notin AsyncHashes => job.finished

\* A request that arrives when a job of its key is there creates no other, for
\* as long as that one is fresh, unless the store failed it: a second job of a
\* key comes from requests that overlap, and from nothing else.
OneJobInSequence ==
    \A i, k \in 1 .. Len(jobs) :
        LET r == jobs[i].by
        IN  /\ jobs[i].key # NoKey
            /\ jobs[k].key = jobs[i].key
            /\ k <= req[r].known
            /\ jobs[i].created - jobs[k].created <= TTL
            => req[r].blind

\* A client that asks again gets the job of its first request while it is fresh,
\* unless a request that overlapped the first has put a newer job in its way.
RetryGetsJob ==
    \A s \in Requests : \A i \in Of(req[s].key) :
        /\ req[s].key # NoKey /\ req[s].answer # "none" /\ ~req[s].blind
        /\ i <= req[s].known
        /\ jobs[i].hash = req[s].hash
        /\ Fresh(i)
        => \/ req[s].answer = "job" /\ req[s].job = i
           \/ \E k \in Of(req[s].key) :
                k > i /\ (req[jobs[k].by].known < i \/ req[jobs[k].by].blind)

=============================================================================
