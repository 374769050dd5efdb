------------------------ MODULE WebhookInboundProofs ------------------------
(***************************************************************************)
(* Proofs about WebhookInbound, for any requests, keys, bodies, TTL, clock *)
(* and number of faults.                                                   *)
(*                                                                         *)
(* The properties compare jobs with requests that are over.  What makes    *)
(* them hold is what a look leaves behind: a request that goes on after    *)
(* one knows that no job it arrived to is fresh, and time does not make a  *)
(* job fresh again (Stale); one that was answered was answered from the    *)
(* newest job of its key (Settled).  Jobs are created in the order of time *)
(* (Sorted), so that what a look says of the newest holds of the others.   *)
(***************************************************************************)
EXTENDS WebhookInbound, SequenceTheorems, WellFoundedInduction, TLAPS

\* What the hash of a request is before it arrives.
SomeHash == CHOOSE h \in Hashes : TRUE

Job == [key : Keys \cup {NoKey}, hash : Hashes \cup {SomeHash}, created : Nat,
        finished : BOOLEAN, by : Requests]

Handler == [pc : {"new", "lookup", "recheck", "create", "chat", "finish", "over"},
            key : Keys \cup {NoKey}, hash : Hashes \cup {SomeHash},
            answer : {"none", "job", "conflict", "error"}, job : Nat, known : Nat,
            blind : BOOLEAN]

TypeOK ==
    /\ jobs \in Seq(Job)
    /\ req \in [Requests -> Handler]
    /\ now \in Nat
    /\ faults \in Nat

\* A job, and the request that created it.
JobInv(i) ==
    /\ jobs[i].created <= now
    /\ jobs[i].hash \notin AsyncHashes => jobs[i].finished
    /\ req[jobs[i].by].pc = "over"
    /\ req[jobs[i].by].key = jobs[i].key

Sorted == \A i, k \in 1 .. Len(jobs) : i <= k => jobs[i].created <= jobs[k].created

\* No look comes before the job that r creates, or the last one has been.
Going(r) == req[r].pc \in {"recheck", "create", "chat", "finish"}

\* No job that r arrived to can answer it any more.
Stale(r) == \A i \in Of(req[r].key) : i <= req[r].known => ~Fresh(i)

\* r was answered from the newest job of its key.
Settled(r) ==
    \E n \in Of(req[r].key) :
        /\ \A i \in Of(req[r].key) : i <= req[r].known => i <= n
        /\ (req[r].answer = "job" /\ req[r].job = n) \/ jobs[n].hash # req[r].hash

Looked(r) ==
    req[r].key # NoKey /\ ~req[r].blind =>
        /\ Going(r) => Stale(r)
        /\ req[r].answer # "none" => Stale(r) \/ Settled(r)

\* The job of an answer is of the request's key and body.
Own(r) ==
    req[r].answer = "job" /\ req[r].job > 0 =>
        /\ jobs[req[r].job].key = req[r].key
        /\ jobs[req[r].job].hash = req[r].hash

ReqInv(r) ==
    /\ req[r].known <= Len(jobs)
    /\ req[r].job <= Len(jobs)
    /\ req[r].pc \in {"recheck", "create"} => req[r].hash \in AsyncHashes
    /\ req[r].pc \in {"chat", "finish"} => req[r].hash \notin AsyncHashes
    /\ req[r].answer # "none" => req[r].pc = "over"
    /\ Own(r)
    /\ Looked(r)

IInv ==
    /\ TypeOK
    /\ Sorted
    /\ \A i \in 1 .. Len(jobs) : JobInv(i)
    /\ \A r \in Requests : ReqInv(r)
    /\ OneJobInSequence

-----------------------------------------------------------------------------
(* Jobs *)

\* A set of numbers up to n has a greatest.
LEMMA Greatest ==
    ASSUME NEW n \in Nat, NEW S \in SUBSET (1 .. n), S # {}
    PROVE  \E i \in S : \A k \in S : k <= i
<1>. DEFINE T == {n - i : i \in S}
<1>1. T \subseteq Nat
  OBVIOUS
<1>2. T # {}
  OBVIOUS
<1>3. PICK d \in T : \A e \in T : ~(<<e, d>> \in OpToRel(<, Nat))
  BY <1>1, <1>2, WFMin, NatLessThanWellFounded, Zenon
<1>4. PICK i \in S : d = n - i
  OBVIOUS
<1>5. ASSUME NEW k \in S PROVE k <= i
  <2>1. n - k \in T /\ d \in T
    OBVIOUS
  <2>2. ~(n - k < d)
    BY <1>1, <1>3, <2>1 DEF OpToRel
  <2>. QED
    BY <1>4, <2>2
<1>. QED
  BY <1>5

\* The job a look finds is the newest of its key.
LEMMA NewestIs ==
    ASSUME TypeOK, NEW key, Of(key) # {}
    PROVE  /\ Newest(key) \in Of(key)
           /\ \A k \in Of(key) : k <= Newest(key)
<1>1. Of(key) \in SUBSET (1 .. Len(jobs)) /\ Len(jobs) \in Nat
  BY DEF Of, TypeOK
<1>2. \E i \in Of(key) : \A k \in Of(key) : k <= i
  BY <1>1, Greatest
<1>. QED
  BY <1>2 DEF Newest

LEMMA JobTypes ==
    ASSUME TypeOK, NEW i \in 1 .. Len(jobs)
    PROVE  /\ jobs[i] \in Job
           /\ jobs[i].key \in Keys \cup {NoKey} /\ jobs[i].hash \in Hashes \cup {SomeHash}
           /\ jobs[i].created \in Nat /\ jobs[i].finished \in BOOLEAN /\ jobs[i].by \in Requests
<1>1. jobs[i] \in Job
  BY ElementOfSeq DEF TypeOK
<1>. QED
  BY <1>1 DEF Job

\* A look that finds none, and one that finds a job.
LEMMA FoundNone ==
    ASSUME IInv, NEW r \in Requests, req[r].key # NoKey, Found(r) = "none"
    PROVE  Stale(r)
<1>. SUFFICES ASSUME NEW i \in Of(req[r].key) PROVE ~Fresh(i)
  BY DEF Stale
<1>. DEFINE n == Newest(req[r].key)
<1>1. n \in Of(req[r].key) /\ i <= n
  BY NewestIs DEF IInv
<1>2. i \in 1 .. Len(jobs) /\ n \in 1 .. Len(jobs)
  BY <1>1 DEF Of
<1>3. jobs[i].created <= jobs[n].created /\ jobs[i].created \in Nat /\ jobs[n].created \in Nat
  BY <1>1, <1>2, JobTypes DEF IInv, Sorted
<1>4. ~Fresh(n)
  BY <1>2 DEF Found
<1>5. now \in Nat /\ TTL \in Nat
  BY InboundAssumption DEF IInv, TypeOK
<1>. QED
  BY <1>3, <1>4, <1>5 DEF Fresh

LEMMA FoundOne ==
    ASSUME IInv, NEW r \in Requests, Found(r) # "none"
    PROVE  LET n == Newest(req[r].key)
           IN  /\ n \in Of(req[r].key) /\ \A i \in Of(req[r].key) : i <= n
               /\ n \in 1 .. Len(jobs) /\ jobs[n].key = req[r].key
               /\ Found(r) = "job" => jobs[n].hash = req[r].hash
               /\ Found(r) = "conflict" => jobs[n].hash # req[r].hash
<1>. DEFINE n == Newest(req[r].key)
<1>1. Of(req[r].key) # {}
  BY DEF Found, Newest
<1>2. n \in Of(req[r].key) /\ \A i \in Of(req[r].key) : i <= n
  BY <1>1, NewestIs DEF IInv
<1>3. n \in 1 .. Len(jobs) /\ jobs[n].key = req[r].key
  BY <1>2 DEF Of
<1>4. /\ Found(r) = "job" => jobs[n].hash = req[r].hash
      /\ Found(r) = "conflict" => jobs[n].hash # req[r].hash
  BY DEF Found
<1>. QED
  BY <1>2, <1>3, <1>4, Zenon

-----------------------------------------------------------------------------
(* Steps *)

\* The jobs stay as they are, but may be finished, others may follow, and time goes on.
Later ==
    /\ now <= now' /\ Len(jobs) <= Len(jobs')
    /\ \A i \in 1 .. Len(jobs) :
         /\ jobs'[i].key = jobs[i].key /\ jobs'[i].hash = jobs[i].hash
         /\ jobs'[i].created = jobs[i].created /\ jobs'[i].by = jobs[i].by
         /\ jobs[i].finished => jobs'[i].finished

\* A job that is there does not get fresh again, and is of the key it was of.
LEMMA LaterJobs ==
    ASSUME TypeOK, TypeOK', Later, NEW key
    PROVE  /\ \A i \in 1 .. Len(jobs) : i \in Of(key)' <=> i \in Of(key)
           /\ \A i \in 1 .. Len(jobs) : Fresh(i)' => Fresh(i)
<1>1. \A i \in 1 .. Len(jobs) : i \in Of(key)' <=> i \in Of(key)
  BY DEF Of, Later, TypeOK
<1>2. ASSUME NEW i \in 1 .. Len(jobs), Fresh(i)' PROVE Fresh(i)
  BY <1>2, JobTypes, InboundAssumption DEF Fresh, Later, TypeOK
<1>. QED
  BY <1>1, <1>2

\* What was looked up stays looked up.
LEMMA LaterStale ==
    ASSUME TypeOK, TypeOK', Later, NEW r \in Requests, req[r].known <= Len(jobs),
           req'[r].key = req[r].key, req'[r].known = req[r].known, Stale(r)
    PROVE  Stale(r)'
<1>1. PICK key : key = req[r].key /\ key = req'[r].key
  OBVIOUS
<1>2. PICK known : known = req[r].known /\ known = req'[r].known /\ known \in Nat
  BY DEF TypeOK, Handler
<1>3. ASSUME NEW i \in Of(key)', i <= known PROVE ~Fresh(i)'
  <2>1. i \in 1 .. Len(jobs)
    BY <1>2, <1>3 DEF Of, TypeOK
  <2>2. i \in Of(key)
    BY <2>1, <1>3, LaterJobs
  <2>. QED
    BY <1>1, <1>2, <1>3, <2>1, <2>2, LaterJobs DEF Stale
<1>. QED
  BY <1>1, <1>2, <1>3 DEF Stale

LEMMA LaterRequest ==
    ASSUME IInv, TypeOK', Later, NEW r \in Requests, req'[r] = req[r]
    PROVE  ReqInv(r)'
<1>1. ReqInv(r) /\ req[r] \in Handler
  BY DEF IInv, TypeOK
<1>2. Own(r)'
  BY <1>1 DEF ReqInv, Own, Later, IInv, TypeOK, Handler
<1>3. Stale(r) => Stale(r)'
  BY <1>1, LaterStale DEF IInv, ReqInv
<1>4. ASSUME Settled(r) PROVE Settled(r)'
  <2>1. PICK n \in Of(req[r].key) :
          /\ \A i \in Of(req[r].key) : i <= req[r].known => i <= n
          /\ (req[r].answer = "job" /\ req[r].job = n) \/ jobs[n].hash # req[r].hash
    BY <1>4 DEF Settled
  <2>2. n \in 1 .. Len(jobs)
    BY DEF Of
  <2>3. n \in Of(req[r].key)' /\ jobs'[n].hash = jobs[n].hash
    BY <2>2, LaterJobs DEF Later, IInv
  <2>4. ASSUME NEW i \in Of(req[r].key)', i <= req[r].known PROVE i <= n
    <3>1. i \in 1 .. Len(jobs)
      BY <1>1, <2>4 DEF ReqInv, Of, TypeOK, Handler
    <3>. QED
      BY <2>1, <2>4, <3>1, LaterJobs DEF IInv
  <2>. QED
    BY <2>1, <2>3, <2>4 DEF Settled
<1>5. Looked(r)'
  BY <1>1, <1>3, <1>4 DEF ReqInv, Looked, Going
<1>. QED
  BY <1>1, <1>2, <1>5 DEF ReqInv, Later, IInv, TypeOK, Handler

\* A step that leaves the number of jobs alone, and every request that is over.
LEMMA OldJobs ==
    ASSUME IInv, TypeOK', Later, Len(jobs') = Len(jobs),
           \A r \in Requests : req[r].pc = "over" => req'[r] = req[r],
           \A r \in Requests : ReqInv(r)'
    PROVE  IInv'
<1>1. ASSUME NEW i \in 1 .. Len(jobs)' PROVE JobInv(i)'
  <2>1. i \in 1 .. Len(jobs) /\ JobInv(i) /\ jobs[i].by \in Requests /\ jobs[i].created \in Nat
    BY JobTypes DEF IInv
  <2>. QED
    BY <2>1 DEF JobInv, Later, IInv, TypeOK
<1>2. Sorted'
  BY DEF Sorted, Later, IInv
<1>3. OneJobInSequence'
  <2>. SUFFICES ASSUME NEW i \in 1 .. Len(jobs), NEW k \in 1 .. Len(jobs),
                       jobs[i].key # NoKey, jobs[k].key = jobs[i].key,
                       k <= req'[jobs[i].by].known, jobs[i].created - jobs[k].created <= TTL
                PROVE  req'[jobs[i].by].blind
    BY DEF OneJobInSequence, Later, IInv
  <2>1. req'[jobs[i].by] = req[jobs[i].by]
    BY JobTypes DEF IInv, JobInv
  <2>. QED
    BY <2>1 DEF IInv, OneJobInSequence
<1>. QED
  BY <1>1, <1>2, <1>3 DEF IInv

LEMMA SameJobs == ASSUME IInv, UNCHANGED <<jobs, now>> PROVE Later
BY JobTypes DEF Later, IInv, TypeOK

\* A step of one request that is not over and creates no job.
LEMMA RequestStep ==
    ASSUME IInv, NEW r \in Requests, NEW h \in Handler, req[r].pc # "over",
           req' = [req EXCEPT ![r] = h], UNCHANGED <<jobs, now>>, faults' \in Nat,
           ReqInv(r)'
    PROVE  IInv'
<1>1. TypeOK' /\ Later
  BY SameJobs DEF IInv, TypeOK
<1>2. ASSUME NEW s \in Requests PROVE ReqInv(s)' /\ (req[s].pc = "over" => req'[s] = req[s])
  BY <1>1, LaterRequest DEF IInv, TypeOK
<1>. QED
  BY <1>1, <1>2, OldJobs

LEMMA SomeTypes ==
    ASSUME IInv, NEW r \in Requests
    PROVE  req[r] \in Handler /\ ReqInv(r) /\ Len(jobs) \in Nat /\ faults \in Nat
BY DEF IInv, TypeOK

LEMMA ArriveInv ==
    ASSUME IInv, NEW r \in Requests, NEW key \in Keys \cup {NoKey}, NEW hash \in Hashes,
           Arrive(r, key, hash)
    PROVE  IInv'
<1>. DEFINE h == [req[r] EXCEPT !.pc = IF key = NoKey THEN Accept(hash) ELSE "lookup",
                                !.key = key, !.hash = hash, !.known = Len(jobs)]
<1>1. req[r] \in Handler /\ ReqInv(r) /\ req[r].pc = "new"
  BY SomeTypes DEF Arrive
<1>2. h \in Handler /\ Len(jobs) \in Nat
  BY <1>1, SomeTypes DEF Handler, Accept
<1>3. req' = [req EXCEPT ![r] = h] /\ UNCHANGED <<jobs, now, faults>> /\ req'[r] = h
  BY DEF Arrive, IInv, TypeOK
<1>4. /\ h.answer = "none" /\ h.job = req[r].job /\ h.known = Len(jobs) /\ h.key = key /\ h.hash = hash
      /\ key # NoKey => h.pc = "lookup"
      /\ h.pc = IF key = NoKey THEN Accept(hash) ELSE "lookup"
  BY <1>1 DEF Handler, ReqInv
<1>. HIDE DEF h
<1>5. ReqInv(r)'
  BY <1>1, <1>2, <1>3, <1>4 DEF ReqInv, Own, Looked, Going, Accept
<1>. QED
  BY <1>1, <1>2, <1>3, <1>5, RequestStep, SomeTypes

\* A request goes on: it has looked in vain, or its look failed, or it has no key.
LEMMA GoesOn ==
    ASSUME IInv, NEW r \in Requests, req[r].pc # "over", NEW h \in Handler,
           h.key = req[r].key, h.hash = req[r].hash, h.answer = req[r].answer,
           h.job = req[r].job, h.known = req[r].known,
           h.pc \in {"recheck", "create"} => h.hash \in AsyncHashes,
           h.pc \in {"chat", "finish"} => h.hash \notin AsyncHashes,
           h.blind \/ h.key = NoKey \/ Stale(r),
           req' = [req EXCEPT ![r] = h], UNCHANGED <<jobs, now>>, faults' \in Nat
    PROVE  IInv'
<1>1. ReqInv(r) /\ req'[r] = h /\ TypeOK' /\ Later
  BY SomeTypes, SameJobs DEF IInv, TypeOK
<1>2. h.answer = "none"
  BY <1>1 DEF ReqInv
<1>3. Stale(r) => Stale(r)'
  BY <1>1, LaterStale DEF IInv, ReqInv
<1>4. ReqInv(r)'
  BY <1>1, <1>2, <1>3 DEF ReqInv, Own, Looked
<1>. QED
  BY <1>1, <1>4, RequestStep, SomeTypes

\* A request is answered without a job of its own.
LEMMA GetsAnswer ==
    ASSUME IInv, NEW r \in Requests, req[r].pc # "over",
           NEW answer \in {"job", "conflict", "error"}, NEW job \in 0 .. Len(jobs),
           answer = "job" /\ job > 0 =>
             jobs[job].key = req[r].key /\ jobs[job].hash = req[r].hash,
           req[r].key # NoKey /\ ~req[r].blind =>
             \/ Stale(r)
             \/ \E n \in Of(req[r].key) :
                  /\ \A i \in Of(req[r].key) : i <= n
                  /\ (answer = "job" /\ job = n) \/ jobs[n].hash # req[r].hash,
           Answer(r, answer, job), UNCHANGED <<jobs, now>>, faults' \in Nat
    PROVE  IInv'
<1>. DEFINE h == [req[r] EXCEPT !.pc = "over", !.answer = answer, !.job = job]
<1>1. req[r] \in Handler /\ ReqInv(r) /\ Len(jobs) \in Nat
  BY SomeTypes
<1>2. /\ h \in Handler /\ h.pc = "over" /\ h.answer = answer /\ h.job = job /\ h.known = req[r].known
      /\ h.key = req[r].key /\ h.hash = req[r].hash /\ h.blind = req[r].blind
  <2>1. job \in Nat
    BY <1>1
  <2>2. h \in Handler
    BY <1>1, <2>1 DEF Handler
  <2>3. h.pc = "over" /\ h.answer = answer /\ h.job = job
    BY <1>1 DEF Handler
  <2>4. h.known = req[r].known /\ h.key = req[r].key /\ h.hash = req[r].hash /\ h.blind = req[r].blind
    BY <1>1 DEF Handler
  <2>. QED
    BY <2>2, <2>3, <2>4, Zenon
<1>3. req' = [req EXCEPT ![r] = h] /\ req'[r] = h
  BY DEF Answer, IInv, TypeOK
<1>. HIDE DEF h
<1>4. TypeOK' /\ Later
  BY <1>2, <1>3, SameJobs DEF IInv, TypeOK
<1>5. Stale(r) => Stale(r)'
  BY <1>1, <1>2, <1>3, <1>4, LaterStale DEF IInv, ReqInv
<1>6. Own(r)'
  BY <1>2, <1>3 DEF Own
<1>7. ASSUME NEW n \in Of(req[r].key), \A i \in Of(req[r].key) : i <= n,
             (answer = "job" /\ job = n) \/ jobs[n].hash # req[r].hash
      PROVE  Settled(r)'
  BY <1>2, <1>3, <1>7 DEF Settled, Of
<1>8. Looked(r)'
  BY <1>2, <1>3, <1>5, <1>7 DEF Looked, Going
<1>9. ReqInv(r)'
  BY <1>1, <1>2, <1>3, <1>6, <1>8 DEF ReqInv
<1>. QED
  BY <1>2, <1>3, <1>9, RequestStep

LEMMA LookInv ==
    ASSUME IInv, NEW r \in Requests, NEW pc \in {"recheck", "create", "chat"},
           req[r].pc \in {"lookup", "recheck"},
           pc = "chat" <=> req[r].hash \notin AsyncHashes, Look(r, pc)
    PROVE  IInv'
<1>. DEFINE n == Newest(req[r].key)
<1>1. req[r] \in Handler /\ ReqInv(r) /\ Len(jobs) \in Nat /\ faults \in Nat
  BY SomeTypes
<1>2. CASE Found(r) = "none"
  <2>. DEFINE h == [req[r] EXCEPT !.pc = pc]
  <2>1. req' = [req EXCEPT ![r] = h] /\ UNCHANGED <<jobs, now, faults>>
    BY <1>2 DEF Look, Goto
  <2>2. /\ h \in Handler /\ h.pc = pc /\ h.answer = req[r].answer /\ h.job = req[r].job
        /\ h.known = req[r].known /\ h.key = req[r].key /\ h.hash = req[r].hash /\ h.blind = req[r].blind
    BY <1>1 DEF Handler
  <2>. HIDE DEF h
  <2>3. h.key = NoKey \/ Stale(r)
    BY <1>2, <2>2, FoundNone
  <2>. QED
    BY <1>1, <2>1, <2>2, <2>3, GoesOn
<1>3. CASE Found(r) # "none"
  <2>1. /\ n \in Of(req[r].key) /\ \A i \in Of(req[r].key) : i <= n
        /\ n \in 1 .. Len(jobs) /\ jobs[n].key = req[r].key
        /\ Found(r) = "job" => jobs[n].hash = req[r].hash
        /\ Found(r) = "conflict" => jobs[n].hash # req[r].hash
    BY <1>3, FoundOne, Zenon
  <2>2. UNCHANGED <<jobs, now, faults>>
    BY DEF Look
  <2>3. CASE Found(r) = "conflict" /\ Answer(r, "conflict", 0)
    BY <1>1, <2>1, <2>2, <2>3, GetsAnswer
  <2>4. CASE Found(r) = "job" /\ Answer(r, "job", n)
    BY <1>1, <2>1, <2>2, <2>4, GetsAnswer
  <2>. QED
    BY <1>3, <2>3, <2>4 DEF Look
<1>. QED
  BY <1>2, <1>3

LEMMA LookFailsInv ==
    ASSUME IInv, NEW r \in Requests, LookFails(r)
    PROVE  IInv'
<1>. DEFINE pc == IF req[r].pc = "lookup" THEN Accept(req[r].hash) ELSE "create"
            h == [req[r] EXCEPT !.pc = pc, !.blind = TRUE]
<1>1. req[r] \in Handler /\ ReqInv(r) /\ faults \in Nat
  BY SomeTypes
<1>2. req' = [req EXCEPT ![r] = h] /\ UNCHANGED <<jobs, now>> /\ faults' \in Nat
  <2>1. req' = [req EXCEPT ![r] = h]
    BY DEF LookFails
  <2>2. UNCHANGED <<jobs, now>> /\ faults' = faults + 1
    BY DEF LookFails
  <2>. QED
    BY <1>1, <2>1, <2>2
<1>3. /\ pc \in {"recheck", "create"} => req[r].hash \in AsyncHashes
      /\ pc = "chat" => req[r].hash \notin AsyncHashes
      /\ pc \in {"recheck", "create", "chat"} /\ req[r].pc # "over"
  BY <1>1 DEF Accept, LookFails, ReqInv
<1>. HIDE DEF pc
<1>4. /\ h \in Handler /\ h.pc = pc /\ h.answer = req[r].answer /\ h.job = req[r].job
      /\ h.known = req[r].known /\ h.key = req[r].key /\ h.hash = req[r].hash /\ h.blind
  BY <1>1, <1>3 DEF Handler
<1>. HIDE DEF h
<1>. QED
  BY <1>2, <1>3, <1>4, GoesOn

LEMMA ChatInv ==
    ASSUME IInv, NEW r \in Requests, NEW ok \in BOOLEAN, Chat(r, ok)
    PROVE  IInv'
<1>1. req[r] \in Handler /\ ReqInv(r) /\ Len(jobs) \in Nat /\ faults \in Nat /\ req[r].pc = "chat"
  BY SomeTypes DEF Chat
<1>2. req[r].blind \/ req[r].key = NoKey \/ Stale(r)
  BY <1>1 DEF ReqInv, Looked, Going
<1>3. CASE ok
  <2>. DEFINE h == [req[r] EXCEPT !.pc = "finish"]
  <2>1. req' = [req EXCEPT ![r] = h] /\ UNCHANGED <<jobs, now, faults>>
    BY <1>3 DEF Chat, Goto
  <2>2. /\ h \in Handler /\ h.pc = "finish" /\ h.answer = req[r].answer /\ h.job = req[r].job
        /\ h.known = req[r].known /\ h.key = req[r].key /\ h.hash = req[r].hash /\ h.blind = req[r].blind
        /\ h.hash \notin AsyncHashes
    BY <1>1 DEF Handler, ReqInv
  <2>. HIDE DEF h
  <2>. QED
    BY <1>1, <1>2, <2>1, <2>2, GoesOn
<1>4. CASE ~ok
  <2>1. Answer(r, "error", 0) /\ UNCHANGED <<jobs, now, faults>>
    BY <1>4 DEF Chat
  <2>. QED
    BY <1>1, <1>2, <2>1, GetsAnswer
<1>. QED
  BY <1>3, <1>4

\* The job cannot be written.
LEMMA WriteFailsInv ==
    ASSUME IInv, NEW r \in Requests, CreateFails(r) \/ FinishSyncFails(r)
    PROVE  IInv'
<1>1. ReqInv(r) /\ Len(jobs) \in Nat /\ faults \in Nat /\ req[r].pc \in {"create", "finish"}
  BY SomeTypes DEF CreateFails, FinishSyncFails
<1>2. req[r].blind \/ req[r].key = NoKey \/ Stale(r)
  BY <1>1 DEF ReqInv, Looked, Going
<1>3. UNCHANGED <<jobs, now>> /\ faults' \in Nat /\ (Answer(r, "error", 0) \/ Answer(r, "job", 0))
  BY <1>1 DEF CreateFails, FinishSyncFails
<1>. QED
  BY <1>1, <1>2, <1>3, GetsAnswer

\* The job of a request is created: async once nothing is found, sync once there is a reply.
LEMMA RecordInv ==
    ASSUME IInv, NEW r \in Requests, NEW finished \in BOOLEAN,
           req[r].pc = (IF finished THEN "finish" ELSE "create"),
           Record(r, finished)
    PROVE  IInv'
<1>. DEFINE job == [key |-> req[r].key, hash |-> req[r].hash, created |-> now,
                    finished |-> finished, by |-> r]
            h == [req[r] EXCEPT !.pc = "over", !.answer = "job", !.job = Len(jobs) + 1]
            last == Len(jobs) + 1
<1>1. /\ req[r] \in Handler /\ ReqInv(r) /\ Len(jobs) \in Nat /\ faults \in Nat /\ now \in Nat
      /\ jobs \in Seq(Job)
  BY SomeTypes DEF IInv, TypeOK
<1>2. job \in Job
  BY <1>1 DEF Job, Handler
<1>3. /\ job.key = req[r].key /\ job.hash = req[r].hash /\ job.created = now
      /\ job.finished = finished /\ job.by = r
  OBVIOUS
<1>4. /\ h \in Handler /\ h.pc = "over" /\ h.answer = "job" /\ h.job = last /\ h.known = req[r].known
      /\ h.key = req[r].key /\ h.hash = req[r].hash /\ h.blind = req[r].blind
  <2>1. last \in Nat
    BY <1>1
  <2>2. h \in Handler
    BY <1>1, <2>1 DEF Handler
  <2>3. h.pc = "over" /\ h.answer = "job" /\ h.job = last
    BY <1>1 DEF Handler
  <2>4. h.known = req[r].known /\ h.key = req[r].key /\ h.hash = req[r].hash /\ h.blind = req[r].blind
    BY <1>1 DEF Handler
  <2>. QED
    BY <2>2, <2>3, <2>4, Zenon
<1>5. /\ jobs' = Append(jobs, job) /\ req' = [req EXCEPT ![r] = h] /\ req'[r] = h
      /\ UNCHANGED <<now, faults>>
  BY DEF Record, Answer, IInv, TypeOK
<1>. HIDE DEF job, h
<1>6. /\ Len(jobs') = last /\ jobs'[last] = job /\ jobs' \in Seq(Job)
      /\ \A i \in 1 .. Len(jobs) : jobs'[i] = jobs[i]
      /\ 1 .. Len(jobs') = (1 .. Len(jobs)) \cup {last}
  BY <1>1, <1>2, <1>5
<1>7. TypeOK' /\ Later
  BY <1>1, <1>4, <1>5, <1>6 DEF IInv, TypeOK, Later
<1>8. Stale(r) => Stale(r)'
  BY <1>1, <1>4, <1>5, <1>7, LaterStale DEF IInv, ReqInv
<1>9. req[r].blind \/ req[r].key = NoKey \/ Stale(r)
  BY <1>1 DEF ReqInv, Looked, Going
<1>10. ReqInv(r)'
  <2>1. Own(r)'
    BY <1>3, <1>4, <1>5, <1>6 DEF Own
  <2>2. Looked(r)'
    BY <1>4, <1>5, <1>8, <1>9 DEF Looked, Going
  <2>. QED
    BY <1>1, <1>4, <1>5, <1>6, <2>1, <2>2 DEF ReqInv, Handler
<1>11. ASSUME NEW s \in Requests, s # r PROVE req'[s] = req[s] /\ ReqInv(s)'
  BY <1>5, <1>7, <1>11, LaterRequest
<1>12. ASSUME NEW i \in 1 .. Len(jobs)
       PROVE  /\ JobInv(i) /\ jobs[i].by # r /\ jobs[i].by \in Requests
              /\ jobs[i].created \in Nat /\ jobs[i].created <= now
  BY JobTypes DEF IInv, JobInv
<1>13. ASSUME NEW i \in 1 .. Len(jobs') PROVE JobInv(i)'
  <2>1. CASE i \in 1 .. Len(jobs)
    <3>1. jobs'[i] = jobs[i] /\ req'[jobs[i].by] = req[jobs[i].by] /\ now' = now
      BY <1>5, <1>6, <1>11, <1>12, <2>1
    <3>. QED
      BY <1>12, <2>1, <3>1 DEF JobInv
  <2>2. CASE i = last
    <3>1. jobs'[i] = job /\ req'[job.by] = h /\ now' = now
      BY <1>3, <1>5, <1>6, <2>2
    <3>2. job.hash \notin AsyncHashes => job.finished
      BY <1>1, <1>3 DEF ReqInv
    <3>3. jobs'[i].created = now' /\ now' \in Nat /\ jobs'[i].by = r /\ jobs'[i].key = req'[r].key
          /\ req'[r].pc = "over"
      BY <1>1, <1>3, <1>4, <3>1
    <3>. QED
      BY <3>1, <3>2, <3>3 DEF JobInv
  <2>. QED
    BY <1>6, <2>1, <2>2
<1>14. Sorted'
  BY <1>1, <1>3, <1>5, <1>6, <1>12 DEF Sorted, IInv
<1>15. OneJobInSequence'
  <2>. SUFFICES ASSUME NEW i \in 1 .. Len(jobs'), NEW k \in 1 .. Len(jobs'),
                       jobs'[i].key # NoKey, jobs'[k].key = jobs'[i].key,
                       k <= req'[jobs'[i].by].known,
                       jobs'[i].created - jobs'[k].created <= TTL
                PROVE  req'[jobs'[i].by].blind
    BY DEF OneJobInSequence
  <2>1. CASE i \in 1 .. Len(jobs)
    <3>1. req'[jobs[i].by] = req[jobs[i].by] /\ req[jobs[i].by].known <= Len(jobs)
          /\ req[jobs[i].by].known \in Nat
      BY <1>11, <1>12, <2>1, SomeTypes DEF ReqInv, Handler
    <3>2. k \in 1 .. Len(jobs)
      BY <1>1, <1>6, <2>1, <3>1
    <3>. QED
      BY <1>6, <2>1, <3>1, <3>2 DEF IInv, OneJobInSequence
  <2>2. CASE i = last
    <3>1. req'[jobs'[i].by] = h /\ jobs'[i].key = req[r].key /\ jobs'[i].created = now
      BY <1>3, <1>5, <1>6, <2>2
    <3>2. k \in 1 .. Len(jobs) /\ k <= req[r].known /\ jobs'[k] = jobs[k]
      BY <1>1, <1>4, <1>6, <3>1 DEF ReqInv, Handler
    <3>3. k \in Of(req[r].key) /\ Fresh(k)
      BY <3>1, <3>2 DEF Of, Fresh
    <3>. QED
      BY <1>4, <1>9, <3>1, <3>2, <3>3 DEF Stale
  <2>. QED
    BY <1>6, <2>1, <2>2
<1>. QED
  BY <1>7, <1>10, <1>11, <1>13, <1>14, <1>15 DEF IInv

LEMMA SettleInv ==
    ASSUME IInv, NEW i \in 1 .. Len(jobs), Settle(i)
    PROVE  IInv'
<1>. DEFINE job == [jobs[i] EXCEPT !.finished = TRUE]
<1>1. jobs \in Seq(Job) /\ jobs[i] \in Job
  BY JobTypes DEF IInv, TypeOK
<1>2. /\ job \in Job /\ job.key = jobs[i].key /\ job.hash = jobs[i].hash
      /\ job.created = jobs[i].created /\ job.by = jobs[i].by /\ job.finished
  BY <1>1 DEF Job
<1>3. jobs' = [jobs EXCEPT ![i] = job] /\ UNCHANGED <<req, now, faults>>
  BY DEF Settle
<1>. HIDE DEF job
<1>4. /\ jobs' \in Seq(Job) /\ Len(jobs') = Len(jobs)
      /\ \A k \in 1 .. Len(jobs) : jobs'[k] = IF k = i THEN job ELSE jobs[k]
  BY <1>1, <1>2, <1>3, ExceptSeq
<1>5. TypeOK' /\ Later
  BY <1>2, <1>3, <1>4 DEF Later, IInv, TypeOK
<1>. QED
  BY <1>3, <1>4, <1>5, LaterRequest, OldJobs DEF IInv

LEMMA TickInv == ASSUME IInv, Tick PROVE IInv'
<1>1. TypeOK' /\ Later
  BY JobTypes DEF Tick, Later, IInv, TypeOK
<1>. QED
  BY <1>1, LaterRequest, OldJobs DEF Tick, IInv

LEMMA RestartInv == ASSUME IInv, Restart PROVE IInv'
<1>1. ASSUME NEW r \in Requests
      PROVE  /\ req'[r] \in Handler
             /\ req[r].pc = "over" => req'[r] = req[r]
             /\ req'[r] = req[r] \/ req'[r] = [req[r] EXCEPT !.pc = "over"]
  <2>1. req[r] \in Handler
    BY SomeTypes
  <2>2. req'[r] = req[r] \/ req'[r] = [req[r] EXCEPT !.pc = "over"]
    BY DEF Restart
  <2>. QED
    BY <2>1, <2>2 DEF Handler
<1>2. TypeOK' /\ Later
  BY <1>1, SameJobs DEF Restart, IInv, TypeOK
<1>3. ASSUME NEW r \in Requests PROVE ReqInv(r)'
  <2>1. CASE req'[r] = req[r]
    BY <1>2, <2>1, LaterRequest
  <2>2. CASE req'[r] # req[r]
    <3>1. /\ req[r].pc # "over" /\ req[r] \in Handler /\ ReqInv(r)
          /\ req'[r] = [req[r] EXCEPT !.pc = "over"]
      BY <1>1, <2>2, SomeTypes
    <3>2. /\ req'[r].pc = "over" /\ req'[r].answer = "none" /\ req'[r].job = req[r].job
          /\ req'[r].known = req[r].known
      BY <3>1 DEF Handler, ReqInv
    <3>. QED
      BY <3>1, <3>2 DEF ReqInv, Own, Looked, Going, Restart
  <2>. QED
    BY <2>1, <2>2
<1>. QED
  BY <1>1, <1>2, <1>3, OldJobs DEF Restart

LEMMA InitInv == Init => IInv
<1>. SUFFICES ASSUME Init PROVE IInv
  OBVIOUS
<1>1. TypeOK
  BY DEF Init, TypeOK, Handler, SomeHash
<1>2. Len(jobs) = 0
  BY DEF Init
<1>3. ASSUME NEW r \in Requests PROVE ReqInv(r)
  BY <1>2 DEF Init, ReqInv, Own, Looked, Going
<1>. QED
  BY <1>1, <1>2, <1>3 DEF IInv, Sorted, OneJobInSequence

LEMMA NextInv == IInv /\ [Next]_vars => IInv'
<1>. SUFFICES ASSUME IInv, [Next]_vars PROVE IInv'
  OBVIOUS
<1>1. ASSUME NEW r \in Requests, NEW key \in Keys \cup {NoKey}, NEW hash \in Hashes,
             Arrive(r, key, hash)
      PROVE  IInv'
  BY <1>1, ArriveInv
<1>2. ASSUME NEW r \in Requests, Lookup(r) PROVE IInv'
  BY <1>2, LookInv DEF Lookup, Accept
<1>3. ASSUME NEW r \in Requests, Recheck(r) PROVE IInv'
  <2>1. req[r].hash \in AsyncHashes
    BY <1>3, SomeTypes DEF Recheck, ReqInv
  <2>. QED
    BY <1>3, <2>1, LookInv DEF Recheck
<1>4. ASSUME NEW r \in Requests, Create(r) PROVE IInv'
  <2>1. req[r].pc = "create" /\ Record(r, FALSE)
    BY <1>4 DEF Create
  <2>. QED
    BY <2>1, RecordInv
<1>5. ASSUME NEW r \in Requests, NEW ok \in BOOLEAN, Chat(r, ok) PROVE IInv'
  BY <1>5, ChatInv
<1>6. ASSUME NEW r \in Requests, FinishSync(r) PROVE IInv'
  <2>1. req[r].pc = "finish" /\ Record(r, TRUE)
    BY <1>6 DEF FinishSync
  <2>. QED
    BY <2>1, RecordInv
<1>7. ASSUME NEW r \in Requests, Fail(r) PROVE IInv'
  BY <1>7, LookFailsInv, WriteFailsInv DEF Fail
<1>8. ASSUME NEW i \in 1 .. Len(jobs), Settle(i) PROVE IInv'
  BY <1>8, SettleInv
<1>9. CASE Restart
  BY <1>9, RestartInv
<1>10. CASE Tick
  BY <1>10, TickInv
<1>11. CASE UNCHANGED vars
  <2>1. UNCHANGED <<jobs, req, now, faults>>
    BY <1>11 DEF vars
  <2>2. TypeOK' /\ Later
    BY <2>1, SameJobs DEF IInv, TypeOK
  <2>. QED
    BY <2>1, <2>2, LaterRequest, OldJobs DEF IInv
<1>. QED
  BY <1>1, <1>2, <1>3, <1>4, <1>5, <1>6, <1>7, <1>8, <1>9, <1>10, <1>11 DEF Next, Handle

LEMMA Invariance == Spec => []IInv
BY InitInv, NextInv, PTL DEF Spec

-----------------------------------------------------------------------------
(* Theorems *)

\* The type invariant.
THEOREM TypeCorrect == Spec => []TypeOK
BY Invariance, PTL DEF IInv

\* A request that is answered with a job is answered with one of its own key and body, and a
\* sync request with one that has its reply (AnswerIsOwn), for any requests that overlap.
THEOREM AnswerIsOwnAlways == Spec => []AnswerIsOwn
<1>1. IInv => AnswerIsOwn
  <2>. SUFFICES ASSUME IInv, NEW r \in Requests, req[r].answer = "job", req[r].job > 0
                PROVE  /\ jobs[req[r].job].key = req[r].key
                       /\ jobs[req[r].job].hash = req[r].hash
                       /\ req[r].hash \notin AsyncHashes => jobs[req[r].job].finished
    BY DEF AnswerIsOwn
  <2>1. req[r].job \in 1 .. Len(jobs) /\ Own(r)
    BY SomeTypes DEF ReqInv, Handler
  <2>. QED
    BY <2>1 DEF IInv, JobInv, Own
<1>. QED
  BY <1>1, Invariance, PTL

\* A second job of a key comes from requests that overlap or from a look the store failed.
THEOREM OneJobInSequenceAlways == Spec => []OneJobInSequence
BY Invariance, PTL DEF IInv

\* A client that asks again gets the job of its first request while it is fresh, unless a
\* request that overlapped the first has put a newer job in its way.
THEOREM RetryGetsJobAlways == Spec => []RetryGetsJob
<1>1. IInv => RetryGetsJob
  <2>. SUFFICES ASSUME IInv, NEW s \in Requests, NEW i \in Of(req[s].key),
                       req[s].key # NoKey, req[s].answer # "none", ~req[s].blind,
                       i <= req[s].known, jobs[i].hash = req[s].hash, Fresh(i)
                PROVE  \/ req[s].answer = "job" /\ req[s].job = i
                       \/ \E k \in Of(req[s].key) :
                            k > i /\ (req[jobs[k].by].known < i \/ req[jobs[k].by].blind)
    BY DEF RetryGetsJob
  <2>1. Settled(s)
    BY SomeTypes DEF ReqInv, Looked, Stale
  <2>2. PICK n \in Of(req[s].key) :
          /\ i <= n
          /\ (req[s].answer = "job" /\ req[s].job = n) \/ jobs[n].hash # req[s].hash
    BY <2>1 DEF Settled
  <2>3. CASE n = i
    BY <2>2, <2>3
  <2>4. CASE n # i
    <3>1. /\ i \in 1 .. Len(jobs) /\ n \in 1 .. Len(jobs) /\ n > i
          /\ jobs[i].key = req[s].key /\ jobs[n].key = req[s].key
      BY <2>2, <2>4 DEF Of
    <3>2. /\ jobs[n].created <= now /\ jobs[i].created \in Nat /\ jobs[n].created \in Nat
          /\ jobs[n].by \in Requests
      BY <3>1, JobTypes DEF IInv, JobInv
    <3>3. jobs[n].created - jobs[i].created <= TTL
      <4>1. now \in Nat /\ TTL \in Nat
        BY InboundAssumption DEF IInv, TypeOK
      <4>. QED
        BY <3>2, <4>1 DEF Fresh
    <3>4. i <= req[jobs[n].by].known => req[jobs[n].by].blind
      BY <3>1, <3>3 DEF IInv, OneJobInSequence
    <3>5. req[jobs[n].by].known \in Nat
      BY <3>2, SomeTypes DEF Handler
    <3>. QED
      BY <3>1, <3>4, <3>5
  <2>. QED
    BY <2>3, <2>4
<1>. QED
  BY <1>1, Invariance, PTL
=============================================================================
