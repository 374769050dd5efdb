------------------------- MODULE WebhookJobsProofs -------------------------
(***************************************************************************)
(* Proofs about WebhookJobs, for any jobs, workers, schedule and faults.   *)
(*                                                                         *)
(* The invariants of the module are not inductive: what a worker writes    *)
(* back depends on what its copy has in common with the row and with the   *)
(* receiver.  Inv says so, in four parts: what holds of a job by its       *)
(* status, of the job of a worker before its callback is answered and      *)
(* after, and of a row nobody is working on.                               *)
(***************************************************************************)
EXTENDS WebhookJobs, TLAPS

N == Len(Retries)

\* A job no worker has reported on: every callback sent is in attempts, and the
\* receiver has not given its verdict.
Unanswered(j, attempts) ==
    /\ receiver[j].posts = attempts
    /\ ~receiver[j].acked
    /\ ~receiver[j].refused
    /\ attempts < N

RowInv(j) ==
    /\ row[j].status = "absent" =>
         receiver[j].posts = 0 /\ ~receiver[j].acked /\ ~receiver[j].refused
    /\ row[j].status = "queued" => Unanswered(j, row[j].attempts)
    /\ row[j].status = "done" => ~receiver[j].refused
    /\ row[j].status = "done" /\ row[j].callback =>
         receiver[j].acked /\ receiver[j].reply = row[j].reply
    /\ row[j].status = "dead" =>
         /\ ~receiver[j].acked
         /\ \/ receiver[j].refused
            \/ row[j].attempts = N /\ receiver[j].posts = N
    /\ ~row[j].callback => receiver[j].posts = 0 /\ ~receiver[j].acked
                           /\ ~receiver[j].refused
    /\ receiver[j].posts <= N

\* What the answer a worker holds says of the receiver.
Answered(w) ==
    LET r == receiver[proc[w].job]
        c == proc[w].copy
    IN  /\ r.acked <=> proc[w].answer = "ok"
        /\ r.refused <=> proc[w].answer \in {"refused", "blocked"}
        /\ r.acked => r.reply = c.reply
        /\ r.posts = IF proc[w].answer = "blocked" THEN c.attempts
                     ELSE c.attempts + 1
        /\ c.attempts < N

Own(w) ==
    LET j == proc[w].job
    IN  /\ j \in Jobs
        /\ row[j].status = "running"
        /\ row[j].lease = proc[w].copy.lease
        /\ row[j].callback = proc[w].copy.callback
        /\ proc[w].pc \in {"post", "save"} => proc[w].copy.callback
        /\ proc[w].pc \in {"chat", "post"} => Unanswered(j, proc[w].copy.attempts)
        /\ proc[w].pc = "save" => Answered(w)

Exclusive ==
    \A v, w \in Workers : v # w /\ Busy(v) /\ Busy(w) => proc[v].job # proc[w].job

Inv ==
    /\ TypeOK
    /\ \A j \in Jobs : RowInv(j)
    /\ \A w \in Workers : Busy(w) => Own(w)
    /\ Exclusive

-----------------------------------------------------------------------------
LEMMA JitterNat ==
    ASSUME NEW d \in Nat
    PROVE  Jitter(d) \subseteq Nat
<1>1. d \div JitterDiv \in 0 .. d
  BY JobsAssumption, SMTT(60)
<1>. QED
  BY <1>1 DEF Jitter

LEMMA TypeInit == Init => TypeOK
BY JobsAssumption DEF Init, TypeOK, NoRow, Idle, Receiver, Row, Worker, Statuses, Answers, Settled

LEMMA TypeCreate ==
    ASSUME TypeOK, NEW j \in Jobs, Create(j)
    PROVE  TypeOK'
<1>1. NoRow \in Row /\ made \in Nat
  BY DEF TypeOK, NoRow, Row, Statuses
<1>2. ASSUME NEW r \in Row, row' = [row EXCEPT ![j] = r], made' = made + 1,
             proc' = proc, faults' = faults, struck' = struck,
             receiver' \in [Jobs -> Receiver]
      PROVE  TypeOK'
  BY <1>2 DEF TypeOK
<1>3. ASSUME NEW callback \in BOOLEAN, Enqueue(j, callback)
      PROVE  TypeOK'
  <2>1. [NoRow EXCEPT !.status = "queued", !.callback = callback,
                      !.born = made] \in Row
    BY <1>1 DEF Row, Statuses
  <2>. QED
    BY <1>2, <1>3, <2>1 DEF Enqueue, TypeOK
<1>4. ASSUME FinishSync(j)
      PROVE  TypeOK'
  <2>1. [NoRow EXCEPT !.status = "done", !.born = made] \in Row
    BY <1>1 DEF Row, Statuses, Settled
  <2>. QED
    BY <1>2, <1>4, <2>1 DEF FinishSync, TypeOK
<1>5. ASSUME NEW answer \in Answers, DeliverEvent(j, answer)
      PROVE  TypeOK'
  <2>. DEFINE r == [NoRow EXCEPT !.status = IF answer = "ok" THEN "done" ELSE "failed",
                                 !.callback = TRUE, !.attempts = 1,
                                 !.born = made, !.error = answer # "ok"]
              s == [posts |-> 1, acked |-> answer = "ok", reply |-> 0,
                    refused |-> answer = "refused"]
  <2>1. r \in Row
    BY <1>1 DEF Row, Statuses, Settled
  <2>2. s \in Receiver
    BY DEF Receiver
  <2>3. /\ row' = [row EXCEPT ![j] = r]
        /\ receiver' = [receiver EXCEPT ![j] = s]
        /\ made' = made + 1 /\ proc' = proc /\ faults' = faults
        /\ struck' = struck
    BY <1>5 DEF DeliverEvent
  <2>. HIDE DEF r, s
  <2>. QED
    BY <1>2, <2>1, <2>2, <2>3 DEF TypeOK
<1>. QED
  BY <1>3, <1>4, <1>5 DEF Create

LEMMA TypeClaim ==
    ASSUME TypeOK, NEW w \in Workers, NEW j \in Jobs, Claim(w, j)
    PROVE  TypeOK'
<1>. DEFINE claimed == [row[j] EXCEPT !.status = "running", !.lease = @ + 1]
            started == [Idle EXCEPT !.pc = "chat", !.job = j, !.copy = claimed]
<1>0. row[j] \in Row
  BY DEF TypeOK
<1>1. claimed \in Row
  <2>. DEFINE r == row[j]
  <2>. HIDE DEF r
  <2>1. r \in Row
    BY <1>0 DEF r
  <2>2. "running" \in Statuses /\ r.lease + 1 \in Nat
    BY <2>1 DEF Row, Statuses
  <2>3. [r EXCEPT !.status = "running", !.lease = @ + 1] \in Row
    BY <2>1, <2>2 DEF Row
  <2>. QED
    BY <2>3 DEF r
<1>. HIDE DEF claimed
<1>2. started \in Worker
  BY <1>1 DEF Worker, Idle, Answers
<1>3. /\ row' = [row EXCEPT ![j] = claimed]
      /\ proc' = [proc EXCEPT ![w] = started]
      /\ made' = made /\ receiver' = receiver /\ faults' = faults
      /\ struck' = struck
  BY DEF Claim, claimed
<1>. HIDE DEF started
<1>4. row' \in [Jobs -> Row] /\ proc' \in [Workers -> Worker]
  BY <1>1, <1>2, <1>3 DEF TypeOK
<1>. QED
  BY <1>3, <1>4 DEF TypeOK

LEMMA TypeProcess ==
    ASSUME TypeOK, NEW w \in Workers, Process(w)
    PROVE  TypeOK'
<1>1. proc[w] \in Worker /\ proc[w].copy \in Row /\ Idle \in Worker
  BY DEF TypeOK, Worker, Idle, NoRow, Row, Statuses, Answers
<1>2. ASSUME NEW ok \in BOOLEAN
      PROVE  Ran(proc[w].copy, ok) \in Row
  BY <1>1 DEF Ran, Row
<1>3. Tried(w) \in Row
  BY <1>1 DEF Tried, Row
<1>4. ASSUME NEW copy \in Row, WriteBack(w, copy)
      PROVE  TypeOK'
  BY <1>1, <1>4 DEF WriteBack, TypeOK
<1>5. ASSUME NEW ok \in BOOLEAN, ChatSettles(w, ok)
      PROVE  TypeOK'
  <2>1. [Ran(proc[w].copy, ok) EXCEPT !.status = IF ok THEN "done" ELSE "failed"] \in Row
    BY <1>2 DEF Row, Statuses, Settled
  <2>. QED
    BY <1>1, <1>5, <2>1 DEF ChatSettles, TypeOK
<1>6. ASSUME NEW ok \in BOOLEAN, ChatThenPost(w, ok)
      PROVE  TypeOK'
  <2>1. [proc[w] EXCEPT !.pc = "post", !.copy = Ran(@, ok)] \in Worker
    BY <1>1, <1>2 DEF Worker
  <2>. QED
    BY <1>6, <2>1 DEF ChatThenPost, TypeOK
<1>7. ASSUME NEW answer \in Answers, NEW header \in Headers, Post(w, answer, header)
      PROVE  TypeOK'
  <2>1. CapRetryAfter(header) \in Nat
    BY JobsAssumption DEF CapRetryAfter, Headers
  <2>2. [proc[w] EXCEPT !.pc = "save", !.answer = answer,
                        !.after = CapRetryAfter(header)] \in Worker
    BY <1>1, <2>1 DEF Worker
  <2>3. proc' \in [Workers -> Worker]
    BY <1>7, <2>2 DEF Post, TypeOK
  <2>4. proc[w].copy.reply \in Nat
    BY <1>1 DEF Row
  <2>. DEFINE j == proc[w].job
              r == receiver[j]
              sent == [r EXCEPT !.posts = @ + 1,
                                !.acked = @ \/ answer = "ok",
                                !.reply = IF answer = "ok" THEN proc[w].copy.reply ELSE @,
                                !.refused = @ \/ answer = "refused"]
              blocked == [r EXCEPT !.refused = TRUE]
  <2>5. receiver' = [receiver EXCEPT ![j] = IF answer = "blocked" THEN blocked ELSE sent]
    BY <1>7 DEF Post
  <2>6. ASSUME j \in Jobs
        PROVE  sent \in Receiver /\ blocked \in Receiver
    <3>. HIDE DEF j
    <3>1. r \in Receiver
      BY <2>6 DEF TypeOK
    <3>. HIDE DEF r
    <3>. DEFINE ok == r.acked \/ answer = "ok"
                no == r.refused \/ answer = "refused"
    <3>2. ok \in BOOLEAN /\ no \in BOOLEAN
      OBVIOUS
    <3>3. sent = [r EXCEPT !.posts = @ + 1, !.acked = ok, !.refused = no,
                           !.reply = IF answer = "ok" THEN proc[w].copy.reply ELSE @]
      BY <3>1 DEF Receiver
    <3>. DEFINE reply == IF answer = "ok" THEN proc[w].copy.reply ELSE r.reply
    <3>4. reply \in Nat /\ r.posts + 1 \in Nat
      BY <2>4, <3>1 DEF Receiver
    <3>. HIDE DEF ok, no, sent, reply
    <3>5. sent = [posts |-> r.posts + 1, acked |-> ok, reply |-> reply, refused |-> no]
      BY <3>1, <3>3 DEF Receiver, reply
    <3>6. sent \in Receiver
      BY <3>2, <3>4, <3>5 DEF Receiver
    <3>. QED
      BY <3>1, <3>6 DEF Receiver
  <2>. HIDE DEF j, sent, blocked
  <2>7. receiver' \in [Jobs -> Receiver]
    BY <2>5, <2>6 DEF TypeOK
  <2>. QED
    BY <1>7, <2>3, <2>7 DEF Post, TypeOK
<1>8. ASSUME SaveAnswered(w)
      PROVE  TypeOK'
  BY <1>3, <1>4, <1>8 DEF SaveAnswered, Row, Statuses, Settled
<1>9. ASSUME SaveExhausted(w)
      PROVE  TypeOK'
  BY <1>3, <1>4, <1>9 DEF SaveExhausted, Row, Statuses, Settled
<1>10. ASSUME SaveRetry(w)
       PROVE  TypeOK'
  <2>. DEFINE delay == IF proc[w].after > 0 THEN proc[w].after
                       ELSE Retries[Tried(w).attempts]
  <2>1. Tried(w).attempts \in 1 .. Len(Retries)
    <3>1. Tried(w).attempts \in Nat \ {0}
      BY <1>1 DEF Tried, Row
    <3>2. Len(Retries) \in Nat
      BY JobsAssumption
    <3>. QED
      BY <1>10, <3>1, <3>2 DEF SaveRetry, ScheduleOver
  <2>2. delay \in Nat
    BY <1>1, <2>1, JobsAssumption DEF Worker
  <2>3. PICK wait \in Jitter(delay) :
          WriteBack(w, [Tried(w) EXCEPT !.status = "queued", !.wait = wait])
    BY <1>10 DEF SaveRetry
  <2>4. wait \in Nat
    BY <2>2, <2>3, JitterNat
  <2>5. [Tried(w) EXCEPT !.status = "queued", !.wait = wait] \in Row
    BY <1>3, <2>4 DEF Row, Statuses
  <2>. QED
    BY <1>4, <2>3, <2>5
<1>. QED
  BY <1>5, <1>6, <1>7, <1>8, <1>9, <1>10 DEF Process

LEMMA TypeStep == TypeOK /\ [Next]_vars => TypeOK'
<1>. SUFFICES ASSUME TypeOK, [Next]_vars
              PROVE  TypeOK'
  OBVIOUS
<1>0. /\ \A ws \in SUBSET Workers : HeldBy(ws) \subseteq Jobs
      /\ Idle \in Worker
  BY DEF HeldBy, TypeOK, Worker, Idle, NoRow, Row, Statuses, Answers
<1>1. CASE \E w \in Workers : Abandon(w)
  <2>1. PICK w \in Workers : Abandon(w)
    BY <1>1
  <2>2. HeldBy({w}) \subseteq Jobs
    BY <1>0
  <2>. QED
    BY <1>0, <2>1, <2>2, JobsAssumption DEF Abandon, TypeOK
<1>2. CASE Restart
  <2>1. HeldBy(Workers) \subseteq Jobs
    BY <1>0
  <2>. QED
    BY <1>0, <1>2, <2>1, JobsAssumption DEF Restart, TypeOK
<1>3. CASE Tick
  BY <1>3 DEF Tick, Waiting, TypeOK, Row
<1>4. CASE UNCHANGED vars
  BY <1>4 DEF vars, TypeOK
<1>. QED
  BY <1>1, <1>2, <1>3, <1>4, TypeCreate, TypeClaim, TypeProcess DEF Next

\* Every variable keeps its type (TypeOK), whatever the schedule and the cap.
THEOREM TypeCorrect == Spec => []TypeOK
BY TypeInit, TypeStep, PTL DEF Spec

-----------------------------------------------------------------------------
(* Inv is inductive *)

LEMMA InvInit == Init => Inv
<1>. SUFFICES ASSUME Init
              PROVE  Inv
  OBVIOUS
<1>1. \A j \in Jobs : RowInv(j)
  BY JobsAssumption DEF Init, RowInv, NoRow, N, Unanswered
<1>2. \A w \in Workers : ~Busy(w)
  BY DEF Init, Busy, Idle
<1>. QED
  BY <1>1, <1>2, TypeInit DEF Inv, Exclusive

\* Nothing is lost of a row when what RowInv reads of it stays.
LEMMA RowKept ==
    ASSUME NEW j \in Jobs, RowInv(j), receiver'[j] = receiver[j],
           row'[j].status = row[j].status, row'[j].callback = row[j].callback,
           row'[j].attempts = row[j].attempts, row'[j].reply = row[j].reply
    PROVE  RowInv(j)'
BY DEF RowInv, Unanswered, N

\* Nor of a worker, when its job is left alone.
LEMMA OwnKept ==
    ASSUME NEW w \in Workers, Own(w), proc'[w] = proc[w],
           row'[proc[w].job] = row[proc[w].job],
           receiver'[proc[w].job] = receiver[proc[w].job]
    PROVE  Own(w)'
BY DEF Own, Unanswered, Answered, N

\* A step that changes one job, and at most the one worker that has it.
LEMMA OneJob ==
    ASSUME Inv, TypeOK', NEW w \in Workers, NEW j \in Jobs,
           \A k \in Jobs \ {j} : row'[k] = row[k] /\ receiver'[k] = receiver[k],
           \A v \in Workers \ {w} : proc'[v] = proc[v],
           \A v \in Workers \ {w} : Busy(v) => proc[v].job # j,
           RowInv(j)',
           Busy(w)' => proc'[w].job = j /\ Own(w)'
    PROVE  Inv'
<1>1. \A k \in Jobs : RowInv(k)'
  BY RowKept DEF Inv
<1>2. ASSUME NEW v \in Workers, Busy(v)'
      PROVE  Own(v)'
  <2>1. CASE v = w
    BY <1>2, <2>1
  <2>2. CASE v # w
    <3>1. Busy(v) /\ proc'[v] = proc[v] /\ proc[v].job # j
      BY <1>2, <2>2 DEF Busy
    <3>2. Own(v)
      BY <3>1 DEF Inv
    <3>3. proc[v].job \in Jobs \ {j}
      BY <3>1, <3>2 DEF Own
    <3>. QED
      BY <3>1, <3>2, <3>3, OwnKept
  <2>. QED
    BY <2>1, <2>2
<1>3. Exclusive'
  BY DEF Inv, Exclusive, Busy
<1>. QED
  BY <1>1, <1>2, <1>3 DEF Inv

LEMMA InvCreate ==
    ASSUME Inv, TypeOK', NEW j \in Jobs, Create(j)
    PROVE  Inv'
<1>1. row[j].status = "absent" /\ proc' = proc
  BY DEF Create, Enqueue, FinishSync, DeliverEvent
<1>2. \A k \in Jobs \ {j} : row'[k] = row[k] /\ receiver'[k] = receiver[k]
  BY DEF Create, Enqueue, FinishSync, DeliverEvent, Inv, TypeOK
<1>3. \A v \in Workers : Busy(v) => Own(v) /\ proc[v].job \in Jobs \ {j}
  BY <1>1 DEF Inv, Own
<1>4. \A v \in Workers : Busy(v)' => Own(v)'
  BY <1>1, <1>2, <1>3, OwnKept DEF Busy
<1>5. RowInv(j)'
  <2>0. RowInv(j) /\ row \in [Jobs -> Row] /\ receiver \in [Jobs -> Receiver]
    BY DEF Inv, TypeOK
  <2>1. CASE \E callback \in BOOLEAN : Enqueue(j, callback)
    BY <1>1, <2>0, <2>1, JobsAssumption DEF Enqueue, RowInv, NoRow, Unanswered, N
  <2>2. CASE FinishSync(j)
    BY <1>1, <2>0, <2>2, JobsAssumption DEF FinishSync, RowInv, NoRow, N
  <2>3. CASE \E answer \in Answers : DeliverEvent(j, answer)
    <3>1. PICK answer \in Answers : DeliverEvent(j, answer)
      BY <2>3
    <3>2. /\ row'[j].status = IF answer = "ok" THEN "done" ELSE "failed"
          /\ row'[j].callback = TRUE
          /\ row'[j].reply = 0
      BY <2>0, <3>1 DEF DeliverEvent, NoRow
    <3>3. /\ receiver'[j].posts = 1 /\ receiver'[j].reply = 0
          /\ receiver'[j].acked <=> answer = "ok"
          /\ receiver'[j].refused <=> answer = "refused"
      BY <2>0, <3>1 DEF DeliverEvent
    <3>4. 1 <= N
      BY JobsAssumption DEF N
    <3>5. answer = "ok" => answer # "refused"
      OBVIOUS
    <3>. QED
      BY <3>2, <3>3, <3>4, <3>5 DEF RowInv, N
  <2>. QED
    BY <2>1, <2>2, <2>3 DEF Create
<1>6. \A k \in Jobs : RowInv(k)'
  BY <1>2, <1>5, RowKept DEF Inv
<1>7. Exclusive'
  BY <1>1 DEF Inv, Exclusive, Busy
<1>. QED
  BY <1>4, <1>6, <1>7 DEF Inv

LEMMA InvClaim ==
    ASSUME Inv, TypeOK', NEW w \in Workers, NEW j \in Jobs, Claim(w, j)
    PROVE  Inv'
<1>. DEFINE claimed == [row[j] EXCEPT !.status = "running", !.lease = @ + 1]
<1>0. row[j] \in Row /\ row[j].status = "queued" /\ RowInv(j)
  BY DEF Claim, Due, Inv, TypeOK
<1>1. /\ claimed.status = "running"
      /\ claimed.callback = row[j].callback
      /\ claimed.attempts = row[j].attempts
      /\ claimed.reply = row[j].reply
  BY <1>0 DEF Row
<1>2. /\ row' = [row EXCEPT ![j] = claimed]
      /\ proc' = [proc EXCEPT ![w] = [Idle EXCEPT !.pc = "chat", !.job = j,
                                                  !.copy = claimed]]
      /\ receiver' = receiver
  BY DEF Claim
<1>. HIDE DEF claimed
<1>3. row'[j] = claimed /\ \A k \in Jobs \ {j} : row'[k] = row[k]
  BY <1>2 DEF Inv, TypeOK
<1>4. proc'[w].pc = "chat" /\ proc'[w].job = j /\ proc'[w].copy = claimed
  BY <1>2 DEF Inv, TypeOK, Idle
<1>5. \A v \in Workers \ {w} : proc'[v] = proc[v] /\ (Busy(v) => proc[v].job # j)
  BY <1>0, <1>2 DEF Inv, TypeOK, Own
<1>6. RowInv(j)'
  BY <1>0, <1>1, <1>2, <1>3 DEF RowInv, Unanswered, N
<1>7. Own(w)'
  BY <1>0, <1>1, <1>2, <1>3, <1>4 DEF Own, RowInv, Unanswered, N
<1>. QED
  BY <1>2, <1>3, <1>4, <1>5, <1>6, <1>7, OneJob

\* The step that puts a row back ends the goroutine.
LEMMA InvWriteBack ==
    ASSUME Inv, TypeOK', NEW w \in Workers, Busy(w), NEW copy, WriteBack(w, copy),
           NEW j \in Jobs, j = proc[w].job, RowInv(j)'
    PROVE  Inv'
<1>1. \A v \in Workers \ {w} : proc'[v] = proc[v] /\ (Busy(v) => proc[v].job # j)
  BY DEF Inv, TypeOK, WriteBack, Exclusive
<1>2. \A k \in Jobs \ {j} : row'[k] = row[k] /\ receiver'[k] = receiver[k]
  BY DEF Inv, TypeOK, WriteBack
<1>3. ~Busy(w)'
  BY DEF Inv, TypeOK, WriteBack, Busy, Idle
<1>. QED
  BY <1>1, <1>2, <1>3, OneJob

\* What the worker's copy, the row and the receiver have in common.
LEMMA OfWorker ==
    ASSUME Inv, NEW w \in Workers, Busy(w)
    PROVE  /\ Own(w) /\ proc[w].job \in Jobs /\ RowInv(proc[w].job)
           /\ proc[w] \in Worker /\ proc[w].copy \in Row
BY DEF Inv, Own, TypeOK, Worker

LEMMA InvChatSettles ==
    ASSUME Inv, TypeOK', NEW w \in Workers, NEW ok \in BOOLEAN, ChatSettles(w, ok)
    PROVE  Inv'
<1>. DEFINE copy == [Ran(proc[w].copy, ok) EXCEPT !.status =
                       IF ok THEN "done" ELSE "failed"]
<1>1. Busy(w) /\ proc[w].pc = "chat" /\ ~Ran(proc[w].copy, ok).callback
  BY DEF ChatSettles, Busy
<1>2. PICK j \in Jobs : j = proc[w].job
  BY <1>1, OfWorker
<1>3. Own(w) /\ RowInv(j) /\ proc[w].copy \in Row
  BY <1>1, <1>2, OfWorker
<1>4. WriteBack(w, copy)
  BY DEF ChatSettles, WriteBack
<1>5. /\ ~copy.callback
      /\ copy.status \in {"done", "failed"}
      /\ ~row[j].callback
  BY <1>1, <1>2, <1>3 DEF Ran, Row, Own
<1>. HIDE DEF copy
<1>6. row'[j] = copy /\ receiver' = receiver
  BY <1>2, <1>4 DEF WriteBack, Inv, TypeOK
<1>7. RowInv(j)'
  BY <1>3, <1>5, <1>6 DEF RowInv
<1>. QED
  BY <1>1, <1>2, <1>4, <1>7, InvWriteBack

LEMMA InvChatThenPost ==
    ASSUME Inv, TypeOK', NEW w \in Workers, NEW ok \in BOOLEAN, ChatThenPost(w, ok)
    PROVE  Inv'
<1>1. Busy(w) /\ proc[w].pc = "chat" /\ proc[w].copy.callback
  BY DEF ChatThenPost, Busy
<1>2. PICK j \in Jobs : j = proc[w].job
  BY <1>1, OfWorker
<1>3. Own(w) /\ RowInv(j) /\ proc[w].copy \in Row /\ proc[w] \in Worker
  BY <1>1, <1>2, OfWorker
<1>4. /\ proc'[w].pc = "post" /\ proc'[w].job = j
      /\ proc'[w].copy = Ran(proc[w].copy, ok)
      /\ \A v \in Workers \ {w} : proc'[v] = proc[v]
      /\ row' = row /\ receiver' = receiver
  BY <1>2, <1>3 DEF ChatThenPost, Inv, TypeOK, Worker
<1>5. /\ Ran(proc[w].copy, ok).lease = proc[w].copy.lease
      /\ Ran(proc[w].copy, ok).callback = proc[w].copy.callback
      /\ Ran(proc[w].copy, ok).attempts = proc[w].copy.attempts
  BY <1>3 DEF Ran, Row
<1>6. Own(w)'
  BY <1>1, <1>2, <1>3, <1>4, <1>5 DEF Own, Unanswered, N
<1>7. \A v \in Workers \ {w} : Busy(v) => proc[v].job # j
  BY <1>1, <1>2 DEF Inv, Exclusive
<1>8. RowInv(j)'
  BY <1>3, <1>4, RowKept
<1>. QED
  BY <1>4, <1>6, <1>7, <1>8, OneJob

LEMMA InvPost ==
    ASSUME Inv, TypeOK', NEW w \in Workers, NEW answer \in Answers,
           NEW header \in Headers, Post(w, answer, header)
    PROVE  Inv'
<1>1. Busy(w) /\ proc[w].pc = "post"
  BY DEF Post, Busy
<1>2. PICK j \in Jobs : j = proc[w].job
  BY <1>1, OfWorker
<1>3. Own(w) /\ RowInv(j) /\ proc[w].copy \in Row /\ proc[w] \in Worker
  BY <1>1, <1>2, OfWorker
<1>4. /\ proc'[w].pc = "save" /\ proc'[w].job = j
      /\ proc'[w].copy = proc[w].copy /\ proc'[w].answer = answer
      /\ \A v \in Workers \ {w} : proc'[v] = proc[v]
      /\ row' = row
  BY <1>2, <1>3 DEF Post, Inv, TypeOK, Worker
<1>5. \A k \in Jobs \ {j} : receiver'[k] = receiver[k]
  BY <1>2 DEF Post, Inv, TypeOK
<1>6. \A v \in Workers \ {w} : Busy(v) => proc[v].job # j
  BY <1>1, <1>2 DEF Inv, Exclusive
<1>7. /\ Unanswered(j, proc[w].copy.attempts)
      /\ row[j].status = "running" /\ row[j].callback
      /\ proc[w].copy.attempts \in Nat /\ N \in Nat
  BY <1>1, <1>2, <1>3, JobsAssumption DEF Own, Row, N
<1>8. /\ receiver'[j].posts = IF answer = "blocked" THEN proc[w].copy.attempts
                              ELSE proc[w].copy.attempts + 1
      /\ receiver'[j].acked <=> answer = "ok"
      /\ receiver'[j].refused <=> answer \in {"refused", "blocked"}
      /\ answer = "ok" => receiver'[j].reply = proc[w].copy.reply
  <2>1. receiver[j] \in Receiver /\ receiver \in [Jobs -> Receiver]
    BY DEF Inv, TypeOK
  <2>2. ~receiver[j].acked /\ ~receiver[j].refused
        /\ receiver[j].posts = proc[w].copy.attempts
    BY <1>7 DEF Unanswered
  <2>3. CASE answer = "blocked"
    <3>1. receiver'[j] = [receiver[j] EXCEPT !.refused = TRUE]
      BY <1>2, <2>1, <2>3 DEF Post
    <3>. QED
      BY <2>1, <2>2, <2>3, <3>1 DEF Receiver
  <2>4. CASE answer # "blocked"
    <3>1. receiver'[j] = [receiver[j] EXCEPT
                            !.posts = @ + 1, !.acked = @ \/ answer = "ok",
                            !.reply = IF answer = "ok" THEN proc[w].copy.reply ELSE @,
                            !.refused = @ \/ answer = "refused"]
      BY <1>2, <2>1, <2>4 DEF Post
    <3>. QED
      BY <2>1, <2>2, <2>4, <3>1 DEF Receiver
  <2>. QED
    BY <2>3, <2>4
<1>9. Own(w)'
  <2>1. Answered(w)'
    BY <1>4, <1>7, <1>8 DEF Answered, Unanswered, N
  <2>. QED
    BY <1>2, <1>3, <1>4, <1>7, <2>1 DEF Own
<1>10. RowInv(j)'
  BY <1>4, <1>7, <1>8 DEF RowInv, Unanswered, N
<1>. QED
  BY <1>4, <1>5, <1>6, <1>9, <1>10, OneJob

LEMMA InvSave ==
    ASSUME Inv, TypeOK', NEW w \in Workers,
           SaveAnswered(w) \/ SaveExhausted(w) \/ SaveRetry(w)
    PROVE  Inv'
<1>1. Busy(w) /\ proc[w].pc = "save"
  BY DEF SaveAnswered, SaveExhausted, SaveRetry, Busy
<1>2. PICK j \in Jobs : j = proc[w].job
  BY <1>1, OfWorker
<1>3. Own(w) /\ proc[w].copy \in Row
  BY <1>1, OfWorker
<1>. DEFINE c == proc[w].copy
<1>4. /\ c.callback /\ c.attempts \in Nat /\ c.attempts < N /\ N \in Nat
      /\ receiver[j].acked <=> proc[w].answer = "ok"
      /\ receiver[j].refused <=> proc[w].answer \in {"refused", "blocked"}
      /\ receiver[j].acked => receiver[j].reply = c.reply
      /\ receiver[j].posts = IF proc[w].answer = "blocked" THEN c.attempts
                             ELSE c.attempts + 1
  BY <1>1, <1>2, <1>3, JobsAssumption DEF Own, Answered, Row, N
<1>5. /\ Tried(w).callback = c.callback
      /\ Tried(w).attempts = c.attempts + 1
      /\ Tried(w).reply = c.reply
  BY <1>3 DEF Tried, Row
<1>6. Tried(w) \in Row
  BY <1>3 DEF Tried, Row
<1>7. ASSUME NEW copy, WriteBack(w, copy)
      PROVE  row'[j] = copy /\ receiver' = receiver
  BY <1>2, <1>7 DEF WriteBack, Inv, TypeOK
<1>8. CASE SaveAnswered(w)
  <2>. DEFINE copy == [Tried(w) EXCEPT !.status = IF proc[w].answer = "ok"
                                                  THEN "done" ELSE "dead"]
  <2>1. WriteBack(w, copy) /\ proc[w].answer \in {"ok", "refused", "blocked"}
    BY <1>8 DEF SaveAnswered
  <2>2. /\ copy.status = IF proc[w].answer = "ok" THEN "done" ELSE "dead"
        /\ copy.callback /\ copy.reply = c.reply
    BY <1>4, <1>5, <1>6 DEF Row
  <2>. HIDE DEF copy
  <2>3. RowInv(j)'
    BY <1>4, <1>7, <2>1, <2>2 DEF RowInv, N
  <2>. QED
    BY <1>1, <1>2, <2>1, <2>3, InvWriteBack
<1>9. CASE SaveExhausted(w)
  <2>. DEFINE copy == [Tried(w) EXCEPT !.status = "dead"]
  <2>1. /\ WriteBack(w, copy) /\ proc[w].answer \in {"throttled", "failed"}
        /\ c.attempts + 1 >= N
    BY <1>5, <1>9 DEF SaveExhausted, ScheduleOver, N
  <2>2. copy.status = "dead" /\ copy.callback /\ copy.attempts = c.attempts + 1
    BY <1>4, <1>5, <1>6 DEF Row
  <2>. HIDE DEF copy
  <2>3. RowInv(j)'
    BY <1>4, <1>7, <2>1, <2>2 DEF RowInv, N
  <2>. QED
    BY <1>1, <1>2, <2>1, <2>3, InvWriteBack
<1>10. CASE SaveRetry(w)
  <2>1. PICK wait : WriteBack(w, [Tried(w) EXCEPT !.status = "queued", !.wait = wait])
    BY <1>10 DEF SaveRetry
  <2>. DEFINE copy == [Tried(w) EXCEPT !.status = "queued", !.wait = wait]
  <2>2. proc[w].answer \in {"throttled", "failed"} /\ ~(c.attempts + 1 >= N)
    BY <1>5, <1>10 DEF SaveRetry, ScheduleOver, N
  <2>3. copy.status = "queued" /\ copy.callback /\ copy.attempts = c.attempts + 1
    BY <1>4, <1>5, <1>6 DEF Row
  <2>4. WriteBack(w, copy)
    BY <2>1
  <2>. HIDE DEF copy
  <2>5. RowInv(j)'
    BY <1>4, <1>7, <2>2, <2>3, <2>4 DEF RowInv, Unanswered, N
  <2>. QED
    BY <1>1, <1>2, <2>4, <2>5, InvWriteBack
<1>. QED
  BY <1>8, <1>9, <1>10

\* Goroutines end, and nothing else happens: Abandon and Restart.
LEMMA InvStops ==
    ASSUME Inv, TypeOK', row' = row, receiver' = receiver,
           \A w \in Workers : proc'[w] = proc[w] \/ proc'[w] = Idle
    PROVE  Inv'
<1>1. \A w \in Workers : Busy(w)' => Busy(w) /\ proc'[w] = proc[w]
  BY DEF Busy, Idle
<1>2. \A w \in Workers : Busy(w)' => Own(w)'
  BY <1>1, OwnKept DEF Inv
<1>3. \A j \in Jobs : RowInv(j)'
  BY RowKept DEF Inv
<1>4. Exclusive'
  BY <1>1 DEF Inv, Exclusive
<1>. QED
  BY <1>2, <1>3, <1>4 DEF Inv

LEMMA InvTick ==
    ASSUME Inv, TypeOK', Tick
    PROVE  Inv'
<1>1. \A j \in Jobs : /\ row'[j].status = row[j].status
                      /\ row'[j].callback = row[j].callback
                      /\ row'[j].attempts = row[j].attempts
                      /\ row'[j].reply = row[j].reply
                      /\ row[j].status = "running" => row'[j] = row[j]
  BY DEF Tick, Waiting, Inv, TypeOK, Row
<1>2. receiver' = receiver /\ proc' = proc
  BY DEF Tick
<1>3. \A j \in Jobs : RowInv(j)'
  BY <1>1, <1>2, RowKept DEF Inv
<1>4. \A w \in Workers : Busy(w) => Own(w)'
  BY <1>1, <1>2, OfWorker, OwnKept DEF Own
<1>5. Exclusive' /\ \A w \in Workers : Busy(w)' => Busy(w)
  BY <1>2 DEF Inv, Exclusive, Busy
<1>. QED
  BY <1>3, <1>4, <1>5 DEF Inv

LEMMA InvStep == Inv /\ [Next]_vars => Inv'
<1>. SUFFICES ASSUME Inv, [Next]_vars
              PROVE  Inv'
  OBVIOUS
<1>1. TypeOK'
  BY TypeStep DEF Inv
<1>2. CASE \E w \in Workers : Process(w)
  BY <1>1, <1>2, InvChatSettles, InvChatThenPost, InvPost, InvSave DEF Process
<1>3. CASE \E w \in Workers : Abandon(w)
  BY <1>1, <1>3, InvStops DEF Abandon, Inv, TypeOK
<1>4. CASE Restart
  BY <1>1, <1>4, InvStops DEF Restart
<1>5. CASE UNCHANGED vars
  BY <1>1, <1>5, InvStops DEF vars
<1>. QED
  BY <1>1, <1>2, <1>3, <1>4, <1>5, InvCreate, InvClaim, InvTick DEF Next

LEMMA Invariance == Spec => []Inv
BY InvInit, InvStep, PTL DEF Spec

-----------------------------------------------------------------------------
(* The properties of the module *)

\* A goroutine holds the row it works on, alone (process, UpdateWebhookJob).
THEOREM LeaseHeldAlways == Spec => []LeaseHeld
<1>1. Inv => LeaseHeld
  BY DEF Inv, Own, Exclusive, LeaseHeld
<1>. QED
  BY <1>1, Invariance, PTL

\* A job done was acknowledged, with the reply it shows (process).
THEOREM DoneMeansAckedAlways == Spec => []DoneMeansAcked
<1>1. Inv => DoneMeansAcked
  BY DEF Inv, RowInv, DoneMeansAcked
<1>. QED
  BY <1>1, Invariance, PTL

\* A job dead was refused, or tried once per delay (process, scheduleRetry).
THEOREM DeadMeansGivenUpAlways == Spec => []DeadMeansGivenUp
<1>1. Inv => DeadMeansGivenUp
  BY DEF Inv, RowInv, DeadMeansGivenUp, N
<1>. QED
  BY <1>1, Invariance, PTL

\* Attempts counts the callbacks sent, never over the schedule.
THEOREM AttemptsMatchPostsAlways == Spec => []AttemptsMatchPosts
<1>1. Inv => AttemptsMatchPosts
  BY DEF Inv, RowInv, Unanswered, AttemptsMatchPosts, N
<1>. QED
  BY <1>1, Invariance, PTL

\* A goroutine that is busy with another job than the one that changes goes on.
LEMMA StillWorkedOn ==
    ASSUME RunningIsWorkedOn, NEW w \in Workers, NEW j \in Jobs, struck' = struck,
           \A v \in Workers \ {w} : proc'[v] = proc[v],
           \A k \in Jobs \ {j} : row'[k].status = row[k].status,
           Busy(w) => proc[w].job = j,
           row'[j].status = "running" => Busy(w)' /\ proc'[w].job = j
    PROVE  RunningIsWorkedOn'
BY DEF RunningIsWorkedOn, Busy

LEMMA WorkedOnProcess ==
    ASSUME Inv, RunningIsWorkedOn, NEW w \in Workers, Process(w)
    PROVE  RunningIsWorkedOn'
<1>1. Busy(w)
  BY DEF Process, ChatSettles, ChatThenPost, Post, SaveAnswered, SaveExhausted,
         SaveRetry, Busy
<1>2. PICK j \in Jobs : j = proc[w].job
  BY <1>1, OfWorker
<1>3. /\ row \in [Jobs -> Row] /\ proc \in [Workers -> Worker]
      /\ proc[w] \in Worker /\ proc[w].copy \in Row /\ Idle.pc = "idle"
  BY <1>1, OfWorker DEF Inv, TypeOK, Idle
<1>4. struck' = struck /\ \A v \in Workers \ {w} : proc'[v] = proc[v]
  BY <1>3 DEF Process, ChatSettles, ChatThenPost, Post, SaveAnswered,
              SaveExhausted, SaveRetry, WriteBack
<1>5. \A k \in Jobs \ {j} : row'[k].status = row[k].status
  BY <1>2, <1>3 DEF Process, ChatSettles, ChatThenPost, Post, SaveAnswered,
                    SaveExhausted, SaveRetry, WriteBack
<1>6. Tried(w) \in Row
  BY <1>3 DEF Tried, Row
<1>7. row'[j].status = "running" => Busy(w)' /\ proc'[w].job = j
  <2>1. CASE \E ok \in BOOLEAN : ChatSettles(w, ok)
    BY <1>2, <1>3, <2>1 DEF ChatSettles, Ran, Row
  <2>2. CASE \E ok \in BOOLEAN : ChatThenPost(w, ok)
    BY <1>2, <1>3, <2>2 DEF ChatThenPost, Busy, Worker
  <2>3. CASE \E answer \in Answers, header \in Headers : Post(w, answer, header)
    <3>1. PICK answer \in Answers, header \in Headers : Post(w, answer, header)
      BY <2>3
    <3>2. proc' = [proc EXCEPT ![w] = [@ EXCEPT !.pc = "save", !.answer = answer,
                                                !.after = CapRetryAfter(header)]]
      BY <3>1 DEF Post
    <3>. QED
      BY <1>2, <1>3, <3>2 DEF Busy, Worker
  <2>4. CASE SaveAnswered(w)
    BY <1>2, <1>3, <1>6, <2>4 DEF SaveAnswered, WriteBack, Row
  <2>5. CASE SaveExhausted(w)
    BY <1>2, <1>3, <1>6, <2>5 DEF SaveExhausted, WriteBack, Row
  <2>6. CASE SaveRetry(w)
    BY <1>2, <1>3, <1>6, <2>6 DEF SaveRetry, WriteBack, Row
  <2>. QED
    BY <2>1, <2>2, <2>3, <2>4, <2>5, <2>6 DEF Process
<1>. QED
  BY <1>2, <1>4, <1>5, <1>7, StillWorkedOn

\* The goroutines that end had their jobs struck.
LEMMA WorkedOnStops ==
    ASSUME Inv, RunningIsWorkedOn, NEW ws \in SUBSET Workers, row' = row,
           proc' = [w \in Workers |-> IF w \in ws THEN Idle ELSE proc[w]],
           struck' = struck \cup HeldBy(ws)
    PROVE  RunningIsWorkedOn'
<1>. SUFFICES ASSUME NEW j \in Jobs, row[j].status = "running"
              PROVE  j \in struck' \/ \E w \in Workers : Busy(w)' /\ proc'[w].job = j
  BY DEF RunningIsWorkedOn
<1>1. CASE j \in struck
  BY <1>1
<1>2. CASE \E w \in Workers : Busy(w) /\ proc[w].job = j
  <2>1. PICK w \in Workers : Busy(w) /\ proc[w].job = j
    BY <1>2
  <2>2. CASE w \in ws
    BY <2>1, <2>2, JobsAssumption DEF HeldBy
  <2>3. CASE w \notin ws
    BY <2>1, <2>3 DEF Busy
  <2>. QED
    BY <2>2, <2>3
<1>. QED
  BY <1>1, <1>2 DEF RunningIsWorkedOn

LEMMA WorkedOnStep == Inv /\ RunningIsWorkedOn /\ [Next]_vars => RunningIsWorkedOn'
<1>. SUFFICES ASSUME Inv, RunningIsWorkedOn, [Next]_vars
              PROVE  RunningIsWorkedOn'
  OBVIOUS
<1>0. row \in [Jobs -> Row] /\ proc \in [Workers -> Worker]
  BY DEF Inv, TypeOK
<1>1. CASE \E j \in Jobs : Create(j)
  <2>1. PICK j \in Jobs : Create(j)
    BY <1>1
  <2>2. proc' = proc /\ struck' = struck
    BY <2>1 DEF Create, Enqueue, FinishSync, DeliverEvent
  <2>3. \A k \in Jobs \ {j} : row'[k].status = row[k].status
    BY <1>0, <2>1 DEF Create, Enqueue, FinishSync, DeliverEvent
  <2>4. row'[j].status # "running"
    <3>1. CASE \E callback \in BOOLEAN : Enqueue(j, callback)
      BY <1>0, <3>1 DEF Enqueue, NoRow
    <3>2. CASE FinishSync(j)
      BY <1>0, <3>2 DEF FinishSync, NoRow
    <3>3. CASE \E answer \in Answers : DeliverEvent(j, answer)
      BY <1>0, <3>3 DEF DeliverEvent, NoRow
    <3>. QED
      BY <2>1, <3>1, <3>2, <3>3 DEF Create
  <2>. QED
    BY <2>2, <2>3, <2>4 DEF RunningIsWorkedOn, Busy
<1>2. CASE \E w \in Workers, j \in Jobs : Claim(w, j)
  <2>1. PICK w \in Workers, j \in Jobs : Claim(w, j)
    BY <1>2
  <2>2. /\ ~Busy(w) /\ struck' = struck
        /\ \A v \in Workers \ {w} : proc'[v] = proc[v]
        /\ \A k \in Jobs \ {j} : row'[k].status = row[k].status
    BY <1>0, <2>1 DEF Claim, Busy
  <2>3. Busy(w)' /\ proc'[w].job = j
    BY <1>0, <2>1 DEF Claim, Busy, Idle
  <2>. QED
    BY <2>2, <2>3, StillWorkedOn
<1>3. CASE \E w \in Workers : Abandon(w)
  <2>1. PICK w \in Workers : Abandon(w)
    BY <1>3
  <2>2. /\ {w} \in SUBSET Workers /\ row' = row
        /\ struck' = struck \cup HeldBy({w})
        /\ proc' = [v \in Workers |-> IF v \in {w} THEN Idle ELSE proc[v]]
    BY <1>0, <2>1 DEF Abandon
  <2>. QED
    BY <2>2, WorkedOnStops
<1>4. CASE Restart
  <2>1. /\ Workers \in SUBSET Workers /\ row' = row
        /\ struck' = struck \cup HeldBy(Workers)
        /\ proc' = [v \in Workers |-> IF v \in Workers THEN Idle ELSE proc[v]]
    BY <1>4 DEF Restart
  <2>. QED
    BY <2>1, WorkedOnStops
<1>5. CASE Tick
  <2>1. \A j \in Jobs : row'[j].status = row[j].status
    BY <1>0, <1>5 DEF Tick, Row
  <2>. QED
    BY <1>5, <2>1 DEF Tick, RunningIsWorkedOn, Busy
<1>6. CASE UNCHANGED vars
  BY <1>6 DEF vars, RunningIsWorkedOn, Busy
<1>. QED
  BY <1>1, <1>2, <1>3, <1>4, <1>5, <1>6, WorkedOnProcess DEF Next

\* A row is left running only by a fault: the worker itself settles what it
\* claims or puts it back (process, scheduleRetry).
THEOREM RunningIsWorkedOnAlways == Spec => []RunningIsWorkedOn
<1>1. Init => RunningIsWorkedOn
  BY DEF Init, NoRow, RunningIsWorkedOn
<1>. QED
  BY <1>1, WorkedOnStep, Invariance, PTL DEF Spec

\* A callback that is sent, and the only step but DeliverEvent that sends one.
LEMMA PostSends ==
    ASSUME Inv, NEW w \in Workers, NEW answer \in Answers, NEW header \in Headers,
           Post(w, answer, header)
    PROVE  \E j \in Jobs :
             /\ row[j].status = "running" /\ row' = row
             /\ Unanswered(j, receiver[j].posts)
             /\ \A k \in Jobs \ {j} : receiver'[k] = receiver[k]
             /\ receiver'[j].acked <=> answer = "ok"
             /\ receiver'[j].refused <=> answer \in {"refused", "blocked"}
             /\ receiver'[j].posts = IF answer = "blocked" THEN receiver[j].posts
                                     ELSE receiver[j].posts + 1
<1>1. Busy(w) /\ proc[w].pc = "post"
  BY DEF Post, Busy
<1>2. PICK j \in Jobs : j = proc[w].job
  BY <1>1, OfWorker
<1>3. Own(w) /\ receiver[j] \in Receiver /\ receiver \in [Jobs -> Receiver]
  BY <1>1, <1>2, OfWorker DEF Inv, TypeOK
<1>4. row[j].status = "running" /\ Unanswered(j, receiver[j].posts)
  BY <1>1, <1>2, <1>3 DEF Own, Unanswered
<1>5. row' = row /\ \A k \in Jobs \ {j} : receiver'[k] = receiver[k]
  BY <1>2, <1>3 DEF Post
<1>6. CASE answer = "blocked"
  <2>1. receiver'[j] = [receiver[j] EXCEPT !.refused = TRUE]
    BY <1>2, <1>3, <1>6 DEF Post
  <2>. QED
    BY <1>3, <1>4, <1>5, <1>6, <2>1 DEF Receiver, Unanswered
<1>7. CASE answer # "blocked"
  <2>1. receiver'[j] = [receiver[j] EXCEPT
                          !.posts = @ + 1, !.acked = @ \/ answer = "ok",
                          !.reply = IF answer = "ok" THEN proc[w].copy.reply ELSE @,
                          !.refused = @ \/ answer = "refused"]
    BY <1>2, <1>3, <1>7 DEF Post
  <2>. QED
    BY <1>3, <1>4, <1>5, <1>7, <2>1 DEF Receiver, Unanswered
<1>. QED
  BY <1>6, <1>7

\* Nothing is sent after a verdict or for a settled job (postCallback).
THEOREM NoPostAfterVerdictAlways == Spec => NoPostAfterVerdict
<1>. DEFINE Quiet == \A j \in Jobs : receiver'[j].posts > receiver[j].posts =>
                       /\ ~receiver[j].acked /\ ~receiver[j].refused
                       /\ row[j].status \notin Settled
<1>1. Inv /\ [Next]_vars => Quiet
  <2>. SUFFICES ASSUME Inv, [Next]_vars, NEW j \in Jobs,
                       receiver'[j].posts > receiver[j].posts
                PROVE  /\ ~receiver[j].acked /\ ~receiver[j].refused
                       /\ row[j].status \notin Settled
    OBVIOUS
  <2>1. receiver[j].posts \in Nat /\ RowInv(j) /\ receiver'[j] # receiver[j]
    BY DEF Inv, TypeOK, Receiver
  <2>2. CASE \E k \in Jobs : Create(k)
    <3>1. row[j].status = "absent"
      BY <2>1, <2>2 DEF Create, Enqueue, FinishSync, DeliverEvent, Inv, TypeOK
    <3>. QED
      BY <2>1, <3>1 DEF RowInv, Settled
  <2>3. CASE \E w \in Workers : Process(w)
    <3>1. PICK w \in Workers, answer \in Answers, header \in Headers :
            Post(w, answer, header)
      BY <2>1, <2>3 DEF Process, ChatSettles, ChatThenPost, SaveAnswered,
                        SaveExhausted, SaveRetry, WriteBack
    <3>. QED
      BY <2>1, <3>1, PostSends DEF Unanswered, Settled
  <2>. QED
    BY <2>1, <2>2, <2>3 DEF Next, Claim, Abandon, Restart, Tick, vars
<1>. QED
  BY <1>1, Invariance, PTL DEF Spec, NoPostAfterVerdict

-----------------------------------------------------------------------------
(* WebhookJobs implements WebhookDelivery *)

\* A step that keeps status and receiver is a stutter of the promise, except
\* that queued and running are the same to it.
LEMMA Stutter ==
    ASSUME receiver' = receiver,
           \A j \in Jobs : \/ row'[j].status = row[j].status
                           \/ {row[j].status, row'[j].status} \subseteq {"queued", "running"}
    PROVE  UNCHANGED Delivery!vars
BY DEF Delivery!vars, Fate, Verdict, Posts

LEMMA DeliveryInit == Init => Delivery!Init
BY DEF Init, NoRow, Delivery!Init, Fate, Verdict, Posts

\* What changes of the mapped variables when one job changes.
LEMMA OneFate ==
    ASSUME NEW j \in Jobs,
           \A k \in Jobs \ {j} : row'[k].status = row[k].status
                                /\ receiver'[k] = receiver[k]
    PROVE  /\ Fate' = [Fate EXCEPT ![j] = Fate'[j]]
           /\ Verdict' = [Verdict EXCEPT ![j] = Verdict'[j]]
           /\ Posts' = [Posts EXCEPT ![j] = Posts'[j]]
BY DEF Fate, Verdict, Posts

LEMMA DeliveryCreate ==
    ASSUME Inv, NEW j \in Jobs, Create(j)
    PROVE  Delivery!Next
<1>1. /\ RowInv(j) /\ row[j].status = "absent"
      /\ row \in [Jobs -> Row] /\ receiver \in [Jobs -> Receiver]
  BY DEF Create, Enqueue, FinishSync, DeliverEvent, Inv, TypeOK
<1>2. \A k \in Jobs \ {j} : row'[k].status = row[k].status
                            /\ receiver'[k] = receiver[k]
  BY <1>1 DEF Create, Enqueue, FinishSync, DeliverEvent
<1>3. Fate[j] = "none" /\ Fate' = [Fate EXCEPT ![j] = Fate'[j]]
      /\ Verdict' = [Verdict EXCEPT ![j] = Verdict'[j]]
      /\ Posts' = [Posts EXCEPT ![j] = Posts'[j]]
  BY <1>1, <1>2, OneFate DEF Fate
<1>4. CASE \E callback \in BOOLEAN : Enqueue(j, callback)
  <2>1. row'[j].status = "queued" /\ receiver' = receiver
    BY <1>1, <1>4 DEF Enqueue, NoRow
  <2>2. Fate'[j] = "open" /\ Verdict' = Verdict /\ Posts' = Posts
    BY <2>1 DEF Fate, Verdict, Posts
  <2>3. Delivery!Accept(j)
    BY <1>3, <2>2 DEF Delivery!Accept
  <2>. QED
    BY <2>3 DEF Delivery!Next
<1>5. CASE FinishSync(j)
  <2>1. row'[j].status = "done" /\ receiver' = receiver
    BY <1>1, <1>5 DEF FinishSync, NoRow
  <2>2. Fate'[j] = "done" /\ Verdict' = Verdict /\ Posts' = Posts
    BY <2>1 DEF Fate, Verdict, Posts
  <2>3. Delivery!Record(j)
    BY <1>3, <2>2 DEF Delivery!Record
  <2>. QED
    BY <2>3 DEF Delivery!Next
<1>6. CASE \E answer \in Answers : DeliverEvent(j, answer)
  <2>1. PICK answer \in Answers : DeliverEvent(j, answer)
    BY <1>6
  <2>2. /\ row'[j].status = IF answer = "ok" THEN "done" ELSE "failed"
        /\ receiver'[j].posts = 1
        /\ receiver'[j].acked <=> answer = "ok"
        /\ receiver'[j].refused <=> answer = "refused"
    BY <1>1, <2>1 DEF DeliverEvent, NoRow
  <2>3. /\ Posts'[j] = 1
        /\ Verdict'[j] \in {"none", "acked", "refused"}
        /\ Fate'[j] = IF Verdict'[j] = "acked" THEN "done" ELSE "failed"
    BY <2>2 DEF Fate, Verdict, Posts
  <2>4. Delivery!Record(j)
    BY <1>3, <2>3 DEF Delivery!Record
  <2>. QED
    BY <2>4 DEF Delivery!Next
<1>. QED
  BY <1>4, <1>5, <1>6 DEF Create

LEMMA DeliveryPost ==
    ASSUME Inv, NEW w \in Workers, NEW answer \in Answers, NEW header \in Headers,
           Post(w, answer, header)
    PROVE  Delivery!Next
<1>1. PICK j \in Jobs :
        /\ row[j].status = "running" /\ row' = row
        /\ Unanswered(j, receiver[j].posts)
        /\ \A k \in Jobs \ {j} : receiver'[k] = receiver[k]
        /\ receiver'[j].acked <=> answer = "ok"
        /\ receiver'[j].refused <=> answer \in {"refused", "blocked"}
        /\ receiver'[j].posts = IF answer = "blocked" THEN receiver[j].posts
                                ELSE receiver[j].posts + 1
  BY PostSends
<1>2. /\ Fate[j] = "open" /\ Fate' = Fate
      /\ Verdict[j] = "none" /\ Posts[j] < N
  BY <1>1 DEF Fate, Verdict, Posts, Unanswered
<1>3. /\ Verdict' = [Verdict EXCEPT ![j] = Verdict'[j]]
      /\ Posts' = [Posts EXCEPT ![j] = Posts'[j]]
  BY <1>1, OneFate
<1>4. CASE answer = "blocked"
  <2>1. Verdict'[j] = "refused" /\ Posts' = Posts
    BY <1>1, <1>4 DEF Verdict, Posts
  <2>2. Delivery!Block(j)
    BY <1>2, <1>3, <2>1 DEF Delivery!Block
  <2>. QED
    BY <2>2 DEF Delivery!Next
<1>5. CASE answer # "blocked"
  <2>1. Verdict'[j] \in {"none", "acked", "refused"} /\ Posts'[j] = Posts[j] + 1
    BY <1>1, <1>5 DEF Verdict, Posts
  <2>2. Delivery!Send(j)
    BY <1>2, <1>3, <2>1 DEF Delivery!Send, N
  <2>. QED
    BY <2>2 DEF Delivery!Next
<1>. QED
  BY <1>4, <1>5

LEMMA DeliveryChatSettles ==
    ASSUME Inv, NEW w \in Workers, NEW ok \in BOOLEAN, ChatSettles(w, ok)
    PROVE  Delivery!Next
<1>1. Busy(w) /\ ~Ran(proc[w].copy, ok).callback
  BY DEF ChatSettles, Busy
<1>2. PICK j \in Jobs : j = proc[w].job
  BY <1>1, OfWorker
<1>3. Own(w) /\ RowInv(j) /\ proc[w].copy \in Row /\ row \in [Jobs -> Row]
  BY <1>1, <1>2, OfWorker DEF Inv, TypeOK
<1>4. row[j].status = "running" /\ receiver[j].posts = 0
  BY <1>1, <1>2, <1>3 DEF Own, RowInv, Ran, Row
<1>5. /\ row'[j].status \in {"done", "failed"} /\ receiver' = receiver
      /\ \A k \in Jobs \ {j} : row'[k].status = row[k].status
  BY <1>2, <1>3 DEF ChatSettles, Ran, Row
<1>6. /\ Fate[j] = "open" /\ Posts[j] = 0
      /\ Fate' = [Fate EXCEPT ![j] = Fate'[j]] /\ Fate'[j] \in {"done", "failed"}
      /\ Verdict' = Verdict /\ Posts' = Posts
  BY <1>4, <1>5, OneFate DEF Fate, Verdict, Posts
<1>7. Delivery!End(j)
  BY <1>6 DEF Delivery!End
<1>. QED
  BY <1>7 DEF Delivery!Next

LEMMA DeliverySave ==
    ASSUME Inv, NEW w \in Workers, SaveAnswered(w) \/ SaveExhausted(w)
    PROVE  Delivery!Next
<1>1. Busy(w) /\ proc[w].pc = "save"
  BY DEF SaveAnswered, SaveExhausted, Busy
<1>2. PICK j \in Jobs : j = proc[w].job
  BY <1>1, OfWorker
<1>3. Own(w) /\ proc[w].copy \in Row /\ row \in [Jobs -> Row]
  BY <1>1, <1>2, OfWorker DEF Inv, TypeOK
<1>4. /\ row[j].status = "running"
      /\ receiver[j].acked <=> proc[w].answer = "ok"
      /\ receiver[j].refused <=> proc[w].answer \in {"refused", "blocked"}
      /\ proc[w].answer # "blocked" => receiver[j].posts = proc[w].copy.attempts + 1
      /\ proc[w].copy.attempts < N /\ proc[w].copy.attempts \in Nat /\ N \in Nat
  BY <1>1, <1>2, <1>3, JobsAssumption DEF Own, Answered, Row, N
<1>5. Tried(w) \in Row /\ Tried(w).attempts = proc[w].copy.attempts + 1
  BY <1>3 DEF Tried, Row
<1>6. /\ receiver' = receiver
      /\ \A k \in Jobs \ {j} : row'[k].status = row[k].status
      /\ \/ proc[w].answer = "ok" /\ row'[j].status = "done"
         \/ /\ row'[j].status = "dead"
            /\ \/ proc[w].answer \in {"refused", "blocked"}
               \/ /\ proc[w].answer \in {"throttled", "failed"}
                  /\ proc[w].copy.attempts + 1 >= N
  BY <1>2, <1>3, <1>5 DEF SaveAnswered, SaveExhausted, WriteBack, ScheduleOver, Row, N
<1>7. /\ Fate[j] = "open" /\ Fate' = [Fate EXCEPT ![j] = Fate'[j]]
      /\ Fate'[j] = row'[j].status
      /\ Verdict' = Verdict /\ Posts' = Posts /\ Posts[j] = receiver[j].posts
      /\ Verdict[j] = IF receiver[j].acked THEN "acked"
                      ELSE IF receiver[j].refused THEN "refused" ELSE "none"
  BY <1>4, <1>6, OneFate DEF Fate, Verdict, Posts
<1>8. Delivery!End(j)
  BY <1>4, <1>6, <1>7 DEF Delivery!End, N
<1>. QED
  BY <1>8 DEF Delivery!Next

LEMMA DeliveryRetry ==
    ASSUME Inv, NEW w \in Workers, SaveRetry(w)
    PROVE  UNCHANGED Delivery!vars
<1>1. Busy(w)
  BY DEF SaveRetry, Busy
<1>2. PICK j \in Jobs : j = proc[w].job
  BY <1>1, OfWorker
<1>3. Own(w) /\ proc[w].copy \in Row /\ row \in [Jobs -> Row]
  BY <1>1, <1>2, OfWorker DEF Inv, TypeOK
<1>4. Tried(w) \in Row /\ row[j].status = "running"
  BY <1>2, <1>3 DEF Tried, Row, Own
<1>5. /\ receiver' = receiver /\ row'[j].status = "queued"
      /\ \A k \in Jobs \ {j} : row'[k].status = row[k].status
  BY <1>2, <1>3, <1>4 DEF SaveRetry, WriteBack, Row
<1>. QED
  BY <1>4, <1>5, Stutter

LEMMA DeliveryStep == Inv /\ [Next]_vars => [Delivery!Next]_(Delivery!vars)
<1>. SUFFICES ASSUME Inv, [Next]_vars
              PROVE  Delivery!Next \/ UNCHANGED Delivery!vars
  OBVIOUS
<1>1. CASE \E w \in Workers, j \in Jobs : Claim(w, j)
  <2>1. PICK w \in Workers, j \in Jobs : Claim(w, j)
    BY <1>1
  <2>2. row[j] \in Row /\ row \in [Jobs -> Row] /\ row[j].status = "queued"
    BY <2>1 DEF Inv, TypeOK, Claim, Due
  <2>3. /\ receiver' = receiver /\ row'[j].status = "running"
        /\ \A k \in Jobs \ {j} : row'[k].status = row[k].status
    BY <2>1, <2>2 DEF Claim, Row
  <2>. QED
    BY <2>2, <2>3, Stutter
<1>2. CASE \E w \in Workers : Process(w)
  <2>1. PICK w \in Workers : Process(w)
    BY <1>2
  <2>2. CASE \E ok \in BOOLEAN : ChatThenPost(w, ok)
    BY <2>2, Stutter DEF ChatThenPost
  <2>. QED
    BY <2>1, <2>2, DeliveryChatSettles, DeliveryPost, DeliverySave, DeliveryRetry
       DEF Process
<1>3. CASE Tick
  <2>1. receiver' = receiver /\ \A j \in Jobs : row'[j].status = row[j].status
    BY <1>3 DEF Tick, Inv, TypeOK, Row
  <2>. QED
    BY <2>1, Stutter
<1>4. CASE (\E w \in Workers : Abandon(w)) \/ Restart \/ UNCHANGED vars
  BY <1>4, Stutter DEF Abandon, Restart, vars
<1>. QED
  BY <1>1, <1>2, <1>3, <1>4, DeliveryCreate DEF Next

\* The worker does only what WebhookDelivery promises (DeliverySpec): at most one
\* callback per delay, none after a verdict, and an end the verdict explains.
THEOREM ImplementsDelivery == Spec => DeliverySpec
BY DeliveryInit, DeliveryStep, Invariance, PTL DEF Spec, DeliverySpec, Delivery!Spec
=============================================================================
