------------------------- MODULE ApprovalGateProofs -------------------------
(***************************************************************************)
(* Proofs about ApprovalGate, for any calls, operators, TTL and faults.    *)
(*                                                                         *)
(* The properties speak of a request once its handler is through.  What    *)
(* makes them hold is that a request has one handler at most (the lock     *)
(* lets one operator decide it), and what that handler has and has not     *)
(* done at each step: Inv says so.                                         *)
(***************************************************************************)
EXTENDS ApprovalGate, TLAPS

Busy(o) == proc[o].pc # "idle"

\* A request by its status and decision, and its effects by its decision.
CallInv(c) ==
    /\ item[c].status \in {"none", "pending", "expired"} => item[c].decision = "none"
    /\ item[c].status = "approved" => item[c].decision = "approve"
    /\ item[c].status = "rejected" => item[c].decision = "reject"
    /\ item[c].decision # "none" => item[c].left > 0
    /\ item[c].decision # "approve" => ran[c] = <<>>
    /\ item[c].decision = "none" => told[c] = <<>>
    /\ ran[c] \in {<<>>, <<TRUE>>, <<FALSE>>}
    /\ told[c] \in {<<>>, <<item[c].decision>>}
    /\ told[c] # <<>> /\ item[c].decision = "approve" /\ RunsHere(item[c].kind)
       => ran[c] # <<>>

\* What the handler of a decision finds of its request.
HandlerInv(o) ==
    LET c == proc[o].call
    IN  /\ c \in Calls
        /\ item[c].decision # "none"
        /\ proc[o].pc \in {"run", "runError", "tell"} => told[c] = <<>>
        /\ proc[o].pc \in {"run", "runError"} => item[c].decision = "approve"
        /\ proc[o].pc = "run" => ran[c] = <<>>
        /\ proc[o].pc \in {"runError", "tell"} =>
             (item[c].decision = "approve" /\ RunsHere(item[c].kind) => ran[c] # <<>>)

Exclusive ==
    \A o, p \in Operators : o # p /\ Busy(o) /\ Busy(p) => proc[o].call # proc[p].call

\* The error of a run is kept, or is about to be.
Kept(c) ==
    ran[c] = <<FALSE>> /\ faults = 0 =>
        \/ item[c].error = "run"
        \/ \E o \in Operators : proc[o].pc = "runError" /\ proc[o].call = c

Inv ==
    /\ TypeOK
    /\ \A c \in Calls : CallInv(c) /\ Kept(c)
    /\ \A o \in Operators : Busy(o) => HandlerInv(o)
    /\ Exclusive

-----------------------------------------------------------------------------
Item == [status : {"none", "pending", "approved", "rejected", "expired", "lost"},
         kind : Kinds, left : 0 .. TTL, decision : Decisions \cup {"none"},
         error : {"none", "run", "tell"}]

Proc == [pc : {"idle", "run", "runError", "tell", "tellError", "answer"},
         call : Calls \cup {None}]

LEMMA Types ==
    TypeOK <=> /\ item \in [Calls -> Item]
               /\ proc \in [Operators -> Proc]
               /\ ran \in [Calls -> Seq(BOOLEAN)]
               /\ told \in [Calls -> Seq(Decisions)]
               /\ faults \in 0 .. MaxFaults
BY DEF TypeOK, Item, Proc

\* The first entry of an empty history.
LEMMA AppendFirst ==
    ASSUME NEW S, NEW x \in S
    PROVE  Append(<<>>, x) = <<x>> /\ <<x>> \in Seq(S) /\ <<x>> # <<>>
OBVIOUS

\* The history of a run that went well, or did not.
LEMMA RunHistory ==
    ASSUME NEW ok \in BOOLEAN
    PROVE  /\ Append(<<>>, ok) = <<ok>> /\ <<ok>> \in Seq(BOOLEAN) /\ <<ok>> # <<>>
           /\ <<ok>> \in {<<TRUE>>, <<FALSE>>}
           /\ <<ok>> = <<FALSE>> => ~ok
<1>1. Append(<<>>, ok) = <<ok>> /\ <<ok>> \in Seq(BOOLEAN) /\ <<ok>> # <<>>
  BY AppendFirst, Zenon
<1>2. ok = TRUE \/ ok = FALSE
  BY Zenon
<1>3. <<ok>> \in {<<TRUE>>, <<FALSE>>}
  BY <1>2, Zenon
<1>4. \A x, y : <<x>> = <<y>> => x = y
  OBVIOUS
<1>5. <<ok>> = <<FALSE>> => ok = FALSE
  BY <1>4, Zenon
<1>. QED
  BY <1>1, <1>3, <1>5, Zenon

LEMMA InitInv == Init => Inv
<1>. SUFFICES ASSUME Init PROVE Inv
  OBVIOUS
<1>1. TypeOK
  BY GateAssumption DEF Init, TypeOK, Kinds, Decisions
<1>2. ASSUME NEW c \in Calls PROVE CallInv(c) /\ Kept(c)
  BY DEF Init, CallInv, Kept
<1>. QED
  BY <1>1, <1>2 DEF Init, Inv, Busy, Exclusive

\* A step of the gate on one request that has no handler and gets none.
LEMMA RequestStep ==
    ASSUME Inv, NEW c \in Calls, NEW i \in Item,
           item[c].decision = "none", i.decision = "none",
           i.status \in {"none", "pending", "expired"},
           item' = [item EXCEPT ![c] = i], UNCHANGED <<proc, ran, told, faults>>
    PROVE  Inv'
<1>1. TypeOK'
  BY Types DEF Inv, TypeOK, Item
<1>2. item'[c] = i /\ \A d \in Calls \ {c} : item'[d] = item[d]
  BY Types DEF Inv
<1>3. ASSUME NEW d \in Calls PROVE CallInv(d)' /\ Kept(d)'
  <2>1. CallInv(d) /\ Kept(d)
    BY DEF Inv
  <2>2. CASE d = c
    <3>1. ran[c] = <<>> /\ told[c] = <<>>
      BY <2>1, <2>2 DEF CallInv
    <3>. QED
      BY <1>2, <2>2, <3>1 DEF CallInv, Kept
  <2>3. CASE d # c
    BY <1>2, <2>1, <2>3 DEF CallInv, Kept
  <2>. QED
    BY <2>2, <2>3
<1>4. ASSUME NEW o \in Operators, Busy(o)' PROVE HandlerInv(o)'
  BY <1>2, <1>4 DEF Inv, Busy, HandlerInv
<1>5. Exclusive'
  BY DEF Inv, Exclusive, Busy
<1>. QED
  BY <1>1, <1>3, <1>4, <1>5 DEF Inv

LEMMA SubmitInv ==
    ASSUME Inv, NEW c \in Calls, NEW kind \in Kinds, Submit(c, kind)
    PROVE  Inv'
<1>. DEFINE r == item[c]
            i == [r EXCEPT !.status = "pending", !.kind = kind, !.left = TTL]
<1>1. r \in Item /\ r.status = "none" /\ r.decision = "none"
  BY Types DEF Submit, Inv, CallInv
<1>2. item' = [item EXCEPT ![c] = i] /\ UNCHANGED <<proc, ran, told, faults>>
  BY DEF Submit
<1>. HIDE DEF r
<1>3. TTL \in 0 .. TTL
  BY GateAssumption
<1>4. i \in Item
  BY <1>1, <1>3 DEF Item
<1>5. i.decision = "none" /\ i.status = "pending"
  BY <1>1 DEF Item
<1>. HIDE DEF i
<1>. QED
  BY <1>1, <1>2, <1>4, <1>5, RequestStep DEF r

LEMMA ExpireInv ==
    ASSUME Inv, NEW c \in Calls, Expire(c)
    PROVE  Inv'
<1>. DEFINE r == item[c]
            i == [r EXCEPT !.status = "expired"]
<1>1. r \in Item /\ r.status = "pending" /\ r.decision = "none"
  BY Types DEF Expire, Overdue, Inv, CallInv
<1>2. item' = [item EXCEPT ![c] = i] /\ UNCHANGED <<proc, ran, told, faults>>
  BY DEF Expire
<1>. HIDE DEF r
<1>3. i \in Item /\ i.decision = "none" /\ i.status = "expired"
  BY <1>1 DEF Item
<1>. HIDE DEF i
<1>. QED
  BY <1>1, <1>2, <1>3, RequestStep DEF r

LEMMA TickInv ==
    ASSUME Inv, Tick
    PROVE  Inv'
<1>1. ASSUME NEW c \in Calls
      PROVE  /\ item'[c] \in Item
             /\ item'[c].status = item[c].status
             /\ item'[c].decision = item[c].decision
             /\ item'[c].kind = item[c].kind
             /\ item'[c].error = item[c].error
             /\ item[c].decision # "none" => item'[c].left = item[c].left
  <2>. DEFINE r == item[c]
  <2>1. r \in Item /\ (r.status = "pending" => r.decision = "none")
    BY Types DEF Inv, CallInv
  <2>2. CASE c \in Aging
    <3>1. item'[c] = [r EXCEPT !.left = @ - 1] /\ r.left > 0 /\ r.status = "pending"
      BY <2>2 DEF Tick, Aging
    <3>. HIDE DEF r
    <3>. QED
      BY <2>1, <3>1, GateAssumption DEF Item, r
  <2>3. CASE c \notin Aging
    BY <2>1, <2>3 DEF Tick
  <2>. QED
    BY <2>2, <2>3
<1>2. UNCHANGED <<proc, ran, told, faults>> /\ item' = [c \in Calls |-> item'[c]]
  BY DEF Tick
<1>3. TypeOK'
  BY <1>1, <1>2, Types DEF Inv, TypeOK, Item
<1>4. ASSUME NEW c \in Calls PROVE CallInv(c)' /\ Kept(c)'
  <2>1. CallInv(c) /\ Kept(c)
    BY DEF Inv
  <2>2. CallInv(c)'
    BY <1>1, <1>2, <2>1 DEF CallInv, RunsHere
  <2>3. Kept(c)'
    BY <1>1, <1>2, <2>1 DEF Kept
  <2>. QED
    BY <2>2, <2>3
<1>5. ASSUME NEW o \in Operators, Busy(o)' PROVE HandlerInv(o)'
  BY <1>1, <1>2, <1>5 DEF Inv, Busy, HandlerInv
<1>6. Exclusive'
  BY <1>2 DEF Inv, Exclusive, Busy
<1>. QED
  BY <1>3, <1>4, <1>5, <1>6 DEF Inv

-----------------------------------------------------------------------------
\* A step of a handler: it touches its own request only, and what it must see to
\* is left to show.
LEMMA HandlerStep ==
    ASSUME Inv, NEW o \in Operators, Busy(o),
           NEW c \in Calls, c = proc[o].call,
           NEW p \in Proc, p.pc # "idle" => p.call = c,
           NEW i \in Item, i.status = item[c].status, i.left = item[c].left,
           i.decision = item[c].decision, i.kind = item[c].kind,
           NEW r \in Seq(BOOLEAN), NEW t \in Seq(Decisions),
           proc' = [proc EXCEPT ![o] = p], item' = [item EXCEPT ![c] = i],
           ran' = [ran EXCEPT ![c] = r], told' = [told EXCEPT ![c] = t],
           faults' = faults,
           CallInv(c)', Kept(c)', p.pc # "idle" => HandlerInv(o)'
    PROVE  Inv'
<1>1. TypeOK'
  <2>1. /\ item' \in [Calls -> Item] /\ proc' \in [Operators -> Proc]
        /\ ran' \in [Calls -> Seq(BOOLEAN)] /\ told' \in [Calls -> Seq(Decisions)]
        /\ faults' \in 0 .. MaxFaults
    BY Types DEF Inv
  <2>. QED
    BY <2>1 DEF TypeOK, Item, Proc
<1>2. /\ proc'[o] = p
      /\ \A v \in Operators \ {o} : proc'[v] = proc[v]
      /\ \A d \in Calls \ {c} : item'[d] = item[d] /\ ran'[d] = ran[d] /\ told'[d] = told[d]
  BY Types DEF Inv
<1>3. ASSUME NEW d \in Calls, d # c PROVE CallInv(d)' /\ Kept(d)'
  <2>1. CallInv(d) /\ Kept(d)
    BY DEF Inv
  <2>2. CallInv(d)'
    BY <1>2, <1>3, <2>1 DEF CallInv, RunsHere
  <2>3. Kept(d)'
    BY <1>2, <1>3, <2>1 DEF Kept
  <2>. QED
    BY <2>2, <2>3
<1>4. ASSUME NEW v \in Operators, v # o, Busy(v)'
      PROVE  HandlerInv(v)'
  <2>1. Busy(v) /\ proc[v].call # c /\ HandlerInv(v)
    BY <1>2, <1>4 DEF Inv, Exclusive, Busy
  <2>. QED
    BY <1>2, <1>4, <2>1 DEF HandlerInv, RunsHere
<1>5. Exclusive'
  BY <1>2 DEF Inv, Exclusive, Busy
<1>6. Busy(o)' => HandlerInv(o)'
  BY <1>2 DEF Busy
<1>. QED
  BY <1>1, <1>3, <1>4, <1>5, <1>6 DEF Inv

\* What is known of the request of a busy operator before it takes a step.
LEMMA HandlerOf ==
    ASSUME Inv, NEW o \in Operators, Busy(o)
    PROVE  \E c \in Calls :
               /\ c = proc[o].call /\ HandlerInv(o) /\ CallInv(c) /\ Kept(c)
               /\ item[c] \in Item /\ item[c].decision \in Decisions
               /\ ran[c] \in Seq(BOOLEAN) /\ told[c] \in Seq(Decisions)
               /\ proc[o] \in Proc /\ faults \in Nat
               /\ item = [item EXCEPT ![c] = item[c]]
               /\ ran = [ran EXCEPT ![c] = ran[c]]
               /\ told = [told EXCEPT ![c] = told[c]]
               /\ \A v \in Operators \ {o} : Busy(v) => proc[v].call # c
<1>1. proc[o].call \in Calls /\ HandlerInv(o)
  BY DEF Inv, HandlerInv
<1>2. item[proc[o].call] \in Item /\ item[proc[o].call].decision # "none"
  BY <1>1, Types DEF Inv, HandlerInv
<1>3. item[proc[o].call].decision \in Decisions
  BY <1>2 DEF Item
<1>. QED
  BY <1>1, <1>2, <1>3, Types, GateAssumption DEF Inv, Exclusive

LEMMA RunInv ==
    ASSUME Inv, NEW o \in Operators, NEW ok \in BOOLEAN, Run(o, ok)
    PROVE  Inv'
<1>1. Busy(o) /\ proc[o].pc = "run"
  BY DEF Run, Busy
<1>2. PICK c \in Calls :
        /\ c = proc[o].call /\ HandlerInv(o) /\ CallInv(c)
        /\ item[c] \in Item /\ proc[o] \in Proc /\ told[c] \in Seq(Decisions)
        /\ item = [item EXCEPT ![c] = item[c]]
        /\ told = [told EXCEPT ![c] = told[c]]
  BY <1>1, HandlerOf
<1>. DEFINE p == [proc[o] EXCEPT !.pc = IF ok THEN "tell" ELSE "runError"]
            r == IF RunsHere(item[c].kind) THEN <<ok>> ELSE <<>>
<1>3. /\ ran[c] = <<>> /\ told[c] = <<>> /\ item[c].decision = "approve"
  BY <1>1, <1>2 DEF HandlerInv
<1>4. /\ r \in Seq(BOOLEAN)
      /\ r \in {<<>>, <<TRUE>>, <<FALSE>>}
      /\ RunsHere(item[c].kind) => r # <<>>
      /\ r = <<FALSE>> => ~ok
  <2>1. <<>> \in Seq(BOOLEAN) /\ <<>> # <<FALSE>>
    OBVIOUS
  <2>. HIDE DEF p
  <2>2. CASE RunsHere(item[c].kind)
    BY <2>2, RunHistory, Zenon
  <2>3. CASE ~RunsHere(item[c].kind)
    BY <2>1, <2>3, Zenon
  <2>. QED
    BY <2>2, <2>3, Zenon
<1>5. ran' = [ran EXCEPT ![c] = r]
  BY <1>2, <1>3, RunHistory, Types DEF Run, Inv
<1>6. /\ p \in Proc /\ p.call = c /\ p.pc \in {"tell", "runError"}
      /\ ~ok => p.pc = "runError"
  BY <1>2 DEF Proc
<1>7. proc' = [proc EXCEPT ![o] = p] /\ UNCHANGED <<item, told, faults>>
  BY DEF Run, Goto
<1>8. proc'[o] = p /\ ran'[c] = r /\ item'[c] = item[c] /\ told'[c] = told[c]
  BY <1>2, <1>5, <1>7, Types DEF Inv
<1>. HIDE DEF p, r
<1>9. CallInv(c)'
  BY <1>2, <1>3, <1>4, <1>8 DEF CallInv, RunsHere
<1>10. Kept(c)'
  BY <1>4, <1>6, <1>8 DEF Kept
<1>11. HandlerInv(o)'
  BY <1>2, <1>3, <1>4, <1>6, <1>8 DEF HandlerInv, RunsHere
<1>. QED
  BY <1>1, <1>2, <1>4, <1>5, <1>6, <1>7, <1>9, <1>10, <1>11, HandlerStep

LEMMA KeepRunErrorInv ==
    ASSUME Inv, NEW o \in Operators, KeepRunError(o)
    PROVE  Inv'
<1>1. Busy(o) /\ proc[o].pc = "runError"
  BY DEF KeepRunError, Busy
<1>2. PICK c \in Calls :
        /\ c = proc[o].call /\ HandlerInv(o) /\ CallInv(c)
        /\ item[c] \in Item /\ proc[o] \in Proc
        /\ ran[c] \in Seq(BOOLEAN) /\ told[c] \in Seq(Decisions)
        /\ ran = [ran EXCEPT ![c] = ran[c]] /\ told = [told EXCEPT ![c] = told[c]]
  BY <1>1, HandlerOf
<1>. DEFINE p == [proc[o] EXCEPT !.pc = "tell"]
            i == [item[c] EXCEPT !.error = "run"]
<1>3. p \in Proc /\ p.call = c /\ p.pc = "tell"
  BY <1>2 DEF Proc
<1>4. i \in Item /\ i.error = "run" /\ i.status = item[c].status
      /\ i.left = item[c].left /\ i.decision = item[c].decision /\ i.kind = item[c].kind
  BY <1>2 DEF Item
<1>5. /\ proc' = [proc EXCEPT ![o] = p] /\ item' = [item EXCEPT ![c] = i]
      /\ UNCHANGED <<ran, told, faults>>
  BY <1>2 DEF KeepRunError, Goto
<1>. HIDE DEF p, i
<1>6. proc'[o] = p /\ item'[c] = i
  BY <1>2, <1>5, Types DEF Inv
<1>7. CallInv(c)'
  BY <1>2, <1>4, <1>5, <1>6 DEF CallInv, RunsHere
<1>8. Kept(c)'
  BY <1>4, <1>6 DEF Kept
<1>9. HandlerInv(o)'
  BY <1>1, <1>2, <1>3, <1>4, <1>5, <1>6 DEF HandlerInv, RunsHere
<1>. QED
  BY <1>1, <1>2, <1>3, <1>4, <1>5, <1>7, <1>8, <1>9, HandlerStep

LEMMA TellInv ==
    ASSUME Inv, NEW o \in Operators, NEW reached \in BOOLEAN, NEW ok \in BOOLEAN,
           Tell(o, reached, ok)
    PROVE  Inv'
<1>1. Busy(o) /\ proc[o].pc = "tell"
  BY DEF Tell, Busy
<1>2. PICK c \in Calls :
        /\ c = proc[o].call /\ HandlerInv(o) /\ CallInv(c) /\ Kept(c)
        /\ item[c] \in Item /\ item[c].decision \in Decisions
        /\ proc[o] \in Proc /\ ran[c] \in Seq(BOOLEAN)
        /\ item = [item EXCEPT ![c] = item[c]] /\ ran = [ran EXCEPT ![c] = ran[c]]
        /\ \A v \in Operators \ {o} : Busy(v) => proc[v].call # c
  BY <1>1, HandlerOf
<1>. DEFINE p == [proc[o] EXCEPT !.pc = IF ok THEN "answer" ELSE "tellError"]
            t == IF reached THEN <<item[c].decision>> ELSE <<>>
<1>3. p \in Proc /\ p.call = c /\ p.pc \in {"answer", "tellError"}
  BY <1>2 DEF Proc
<1>4. told[c] = <<>>
      /\ (item[c].decision = "approve" /\ RunsHere(item[c].kind) => ran[c] # <<>>)
  BY <1>1, <1>2 DEF HandlerInv
<1>5. t \in Seq(Decisions) /\ t \in {<<>>, <<item[c].decision>>}
  BY <1>2, AppendFirst
<1>6. told' = [told EXCEPT ![c] = t]
  BY <1>2, <1>4, AppendFirst, Types DEF Tell, Inv
<1>7. proc' = [proc EXCEPT ![o] = p] /\ UNCHANGED <<item, ran, faults>>
  BY DEF Tell, Goto
<1>. HIDE DEF p, t
<1>8. proc'[o] = p /\ told'[c] = t
  BY <1>2, <1>6, <1>7, Types DEF Inv
<1>9. CallInv(c)'
  BY <1>2, <1>4, <1>5, <1>7, <1>8 DEF CallInv, RunsHere, Decisions
<1>10. Kept(c)'
  BY <1>1, <1>2, <1>7 DEF Kept, Busy
<1>11. HandlerInv(o)'
  BY <1>2, <1>3, <1>7, <1>8 DEF HandlerInv, RunsHere, Decisions
<1>. QED
  BY <1>1, <1>2, <1>3, <1>5, <1>6, <1>7, <1>9, <1>10, <1>11, HandlerStep

LEMMA KeepTellErrorInv ==
    ASSUME Inv, NEW o \in Operators, KeepTellError(o)
    PROVE  Inv'
<1>1. Busy(o) /\ proc[o].pc = "tellError"
  BY DEF KeepTellError, Busy
<1>2. PICK c \in Calls :
        /\ c = proc[o].call /\ HandlerInv(o) /\ CallInv(c) /\ Kept(c)
        /\ item[c] \in Item /\ proc[o] \in Proc
        /\ ran[c] \in Seq(BOOLEAN) /\ told[c] \in Seq(Decisions)
        /\ ran = [ran EXCEPT ![c] = ran[c]] /\ told = [told EXCEPT ![c] = told[c]]
        /\ \A v \in Operators \ {o} : Busy(v) => proc[v].call # c
  BY <1>1, HandlerOf
<1>. DEFINE p == [proc[o] EXCEPT !.pc = "answer"]
            i == [item[c] EXCEPT !.error = IF @ = "none" THEN "tell" ELSE @]
<1>3. p \in Proc /\ p.call = c /\ p.pc = "answer"
  BY <1>2 DEF Proc
<1>4. i \in Item /\ (item[c].error = "run" => i.error = "run")
      /\ i.status = item[c].status /\ i.left = item[c].left
      /\ i.decision = item[c].decision /\ i.kind = item[c].kind
  BY <1>2 DEF Item
<1>5. /\ proc' = [proc EXCEPT ![o] = p] /\ item' = [item EXCEPT ![c] = i]
      /\ UNCHANGED <<ran, told, faults>>
  BY <1>2 DEF KeepTellError, Goto
<1>. HIDE DEF p, i
<1>6. proc'[o] = p /\ item'[c] = i
  BY <1>2, <1>5, Types DEF Inv
<1>7. CallInv(c)'
  BY <1>2, <1>4, <1>5, <1>6 DEF CallInv, RunsHere
<1>8. ran[c] = <<FALSE>> /\ faults = 0 => item[c].error = "run"
  BY <1>1, <1>2 DEF Kept, Busy
<1>9. Kept(c)'
  BY <1>4, <1>5, <1>6, <1>8 DEF Kept
<1>10. HandlerInv(o)'
  BY <1>1, <1>2, <1>3, <1>4, <1>5, <1>6 DEF HandlerInv, RunsHere
<1>. QED
  BY <1>1, <1>2, <1>3, <1>4, <1>5, <1>7, <1>9, <1>10, HandlerStep

\* A handler that ends touches no request.
LEMMA HandlerEnds ==
    ASSUME Inv, NEW o \in Operators, Busy(o),
           proc' = [proc EXCEPT ![o] = [pc |-> "idle", call |-> None]],
           UNCHANGED <<item, ran, told>>, faults' \in 0 .. MaxFaults,
           proc[o].pc = "runError" => faults' # 0,
           faults' = 0 => faults = 0
    PROVE  Inv'
<1>1. TypeOK'
  <2>1. proc' \in [Operators -> Proc]
    BY Types DEF Inv, Proc
  <2>. QED
    BY <2>1, Types DEF Inv, TypeOK, Item, Proc
<1>2. proc'[o].pc = "idle" /\ \A v \in Operators \ {o} : proc'[v] = proc[v]
  BY Types DEF Inv
<1>3. ASSUME NEW c \in Calls PROVE CallInv(c)' /\ Kept(c)'
  <2>1. CallInv(c) /\ Kept(c)
    BY DEF Inv
  <2>2. CallInv(c)'
    BY <2>1 DEF CallInv, RunsHere
  <2>3. Kept(c)'
    BY <1>2, <2>1 DEF Kept
  <2>. QED
    BY <2>2, <2>3
<1>4. ASSUME NEW v \in Operators, Busy(v)' PROVE HandlerInv(v)'
  <2>1. v # o /\ Busy(v) /\ HandlerInv(v)
    BY <1>2, <1>4 DEF Inv, Busy
  <2>. QED
    BY <1>2, <2>1 DEF HandlerInv, RunsHere
<1>5. Exclusive'
  BY <1>2 DEF Inv, Exclusive, Busy
<1>. QED
  BY <1>1, <1>3, <1>4, <1>5 DEF Inv

LEMMA AnswerInv ==
    ASSUME Inv, NEW o \in Operators, Answer(o)
    PROVE  Inv'
<1>1. Busy(o) /\ proc[o].pc # "runError"
  BY DEF Answer, Busy
<1>2. faults' \in 0 .. MaxFaults
  BY Types DEF Answer, Inv
<1>. QED
  BY <1>1, <1>2, HandlerEnds DEF Answer

LEMMA BreakOffInv ==
    ASSUME Inv, NEW o \in Operators, BreakOff(o)
    PROVE  Inv'
<1>1. Busy(o)
  BY DEF BreakOff, Busy
<1>2. faults' \in 0 .. MaxFaults /\ faults' # 0
  BY Types, GateAssumption DEF BreakOff, Inv
<1>. QED
  BY <1>1, <1>2, HandlerEnds DEF BreakOff

-----------------------------------------------------------------------------
\* A pending request has no handler, so the one it gets is its only one.
LEMMA DecideInv ==
    ASSUME Inv, NEW o \in Operators, NEW c \in Calls, NEW decision \in Decisions,
           Decide(o, c, decision)
    PROVE  Inv'
<1>. DEFINE r == item[c]
            i == [r EXCEPT !.status = IF decision = "approve" THEN "approved"
                                      ELSE "rejected",
                           !.decision = decision]
            p == [pc |-> After(decision), call |-> c]
<1>1. /\ r \in Item /\ r.status = "pending" /\ r.decision = "none" /\ r.left > 0
      /\ ran[c] = <<>> /\ told[c] = <<>>
  <2>1. item[c] \in Item /\ CallInv(c)
    BY Types DEF Inv
  <2>2. r.status = "pending" /\ r.left # 0
    BY DEF Decide, Overdue
  <2>3. r.left \in Nat
    BY <2>1, GateAssumption DEF Item
  <2>. QED
    BY <2>1, <2>2, <2>3 DEF CallInv
<1>2. /\ item' = [item EXCEPT ![c] = i] /\ proc' = [proc EXCEPT ![o] = p]
      /\ UNCHANGED <<ran, told, faults>>
  BY DEF Decide, Decided
<1>3. decision \in {"approve", "reject"}
  BY DEF Decisions
<1>4. proc[o].pc = "idle" /\ \A v \in Operators : Busy(v) => proc[v].call # c
  BY <1>1 DEF Inv, HandlerInv, Decide
<1>. HIDE DEF r
<1>5. /\ i \in Item /\ i.decision = decision /\ i.left = r.left
      /\ i.status = IF decision = "approve" THEN "approved" ELSE "rejected"
  BY <1>1, <1>3 DEF Item, Decisions
<1>6. p \in Proc /\ p.call = c /\ p.pc = IF decision = "approve" THEN "run" ELSE "tell"
  BY <1>3 DEF Proc, After
<1>. HIDE DEF i, p
<1>7. TypeOK'
  <2>1. item' \in [Calls -> Item] /\ proc' \in [Operators -> Proc]
    BY <1>2, <1>5, <1>6, Types DEF Inv
  <2>. QED
    BY <1>2, <2>1, Types DEF Inv, TypeOK, Item, Proc
<1>8. /\ item'[c] = i /\ \A d \in Calls \ {c} : item'[d] = item[d]
      /\ proc'[o] = p /\ \A v \in Operators \ {o} : proc'[v] = proc[v]
  BY <1>2, Types DEF Inv
<1>9. ASSUME NEW d \in Calls PROVE CallInv(d)' /\ Kept(d)'
  <2>1. CallInv(d) /\ Kept(d)
    BY DEF Inv
  <2>2. CallInv(d)'
    <3>1. CASE d = c
      BY <1>1, <1>2, <1>3, <1>5, <1>8, <3>1 DEF CallInv, RunsHere
    <3>2. CASE d # c
      BY <1>2, <1>8, <2>1, <3>2 DEF CallInv, RunsHere
    <3>. QED
      BY <3>1, <3>2
  <2>3. Kept(d)'
    <3>1. CASE d = c
      BY <1>1, <1>2, <3>1 DEF Kept
    <3>2. CASE d # c
      BY <1>2, <1>4, <1>8, <2>1, <3>2 DEF Kept
    <3>. QED
      BY <3>1, <3>2
  <2>. QED
    BY <2>2, <2>3
<1>10. ASSUME NEW v \in Operators, Busy(v)' PROVE HandlerInv(v)'
  <2>1. CASE v = o
    BY <1>1, <1>2, <1>3, <1>5, <1>6, <1>8, <2>1 DEF HandlerInv, RunsHere
  <2>2. CASE v # o
    <3>1. Busy(v) /\ HandlerInv(v) /\ proc[v].call # c
      BY <1>4, <1>8, <1>10, <2>2 DEF Inv, Busy
    <3>. QED
      BY <1>2, <1>8, <2>2, <3>1 DEF HandlerInv, RunsHere
  <2>. QED
    BY <2>1, <2>2
<1>11. Exclusive'
  BY <1>4, <1>6, <1>8 DEF Inv, Exclusive, Busy
<1>. QED
  BY <1>7, <1>9, <1>10, <1>11 DEF Inv

LEMMA RestartInv ==
    ASSUME Inv, Restart
    PROVE  Inv'
<1>1. ASSUME NEW c \in Calls
      PROVE  /\ item'[c] \in Item
             /\ item'[c].status \in {item[c].status, "lost"}
             /\ item'[c].decision = item[c].decision
             /\ item'[c].kind = item[c].kind
             /\ item'[c].left = item[c].left
  <2>. DEFINE r == item[c]
  <2>1. r \in Item
    BY Types DEF Inv
  <2>2. item'[c] = r \/ item'[c] = [r EXCEPT !.status = "lost"]
    BY DEF Restart
  <2>. HIDE DEF r
  <2>3. [r EXCEPT !.status = "lost"] \in Item
    BY <2>1 DEF Item
  <2>. QED
    BY <2>1, <2>2, <2>3 DEF Item, r
<1>2. /\ item' = [c \in Calls |-> item'[c]]
      /\ proc' \in [Operators -> Proc]
      /\ \A o \in Operators : proc'[o].pc = "idle"
      /\ UNCHANGED <<ran, told>>
      /\ faults' \in 0 .. MaxFaults /\ faults' # 0
  BY Types, GateAssumption DEF Restart, Inv, Proc
<1>3. TypeOK'
  <2>1. item' \in [Calls -> Item]
    BY <1>1, <1>2
  <2>. QED
    BY <1>2, <2>1, Types DEF Inv, TypeOK, Item, Proc
<1>4. ASSUME NEW c \in Calls PROVE CallInv(c)' /\ Kept(c)'
  <2>1. CallInv(c)
    BY DEF Inv
  <2>2. CallInv(c)'
    BY <1>1, <1>2, <2>1 DEF CallInv, RunsHere
  <2>3. Kept(c)'
    BY <1>2 DEF Kept
  <2>. QED
    BY <2>2, <2>3
<1>. QED
  BY <1>2, <1>3, <1>4 DEF Inv, Busy, Exclusive

-----------------------------------------------------------------------------
\* Every step keeps Inv.
LEMMA NextInv == Inv /\ [Next]_vars => Inv'
<1>. SUFFICES ASSUME Inv, [Next]_vars PROVE Inv'
  OBVIOUS
<1>1. CASE \E c \in Calls, kind \in Kinds : Submit(c, kind)
  BY <1>1, SubmitInv
<1>2. CASE \E c \in Calls : Expire(c)
  BY <1>2, ExpireInv
<1>3. CASE \E o \in Operators, c \in Calls, decision \in Decisions :
             Decide(o, c, decision)
  BY <1>3, DecideInv
<1>4. CASE \E o \in Operators : Handle(o)
  BY <1>4, RunInv, KeepRunErrorInv, TellInv, KeepTellErrorInv, AnswerInv DEF Handle
<1>5. CASE \E o \in Operators : BreakOff(o)
  BY <1>5, BreakOffInv
<1>6. CASE Restart
  BY <1>6, RestartInv
<1>7. CASE Tick
  BY <1>7, TickInv
<1>8. CASE UNCHANGED vars
  <2>1. UNCHANGED <<item, proc, ran, told, faults>>
    BY <1>8 DEF vars
  <2>2. TypeOK' /\ Exclusive'
    BY <2>1 DEF Inv, TypeOK, Exclusive, Busy
  <2>3. ASSUME NEW c \in Calls PROVE CallInv(c)' /\ Kept(c)'
    BY <2>1 DEF Inv, CallInv, Kept, RunsHere
  <2>4. ASSUME NEW o \in Operators PROVE Busy(o)' => HandlerInv(o)'
    BY <2>1 DEF Inv, Busy, HandlerInv, RunsHere
  <2>. QED
    BY <2>2, <2>3, <2>4 DEF Inv
<1>. QED
  BY <1>1, <1>2, <1>3, <1>4, <1>5, <1>6, <1>7, <1>8 DEF Next

LEMMA InvAlways == Spec => []Inv
BY InitInv, NextInv, PTL DEF Spec

\* The type invariant of the gate, its handlers and its effects.
THEOREM TypeCorrect == Spec => []TypeOK
<1>1. Inv => TypeOK
  BY DEF Inv
<1>. QED
  BY <1>1, InvAlways, PTL

\* An approved tool runs at most once, and no other tool runs (Executor).
THEOREM RunOnceApprovedAlways == Spec => []RunOnceApproved
<1>1. Inv => RunOnceApproved
  <2>. SUFFICES ASSUME Inv, NEW c \in Calls
                PROVE  /\ Len(ran[c]) <= 1
                       /\ Len(ran[c]) = 1 => item[c].decision = "approve"
                                             /\ item[c].left > 0
    BY DEF RunOnceApproved
  <2>1. CallInv(c)
    BY DEF Inv
  <2>2. Len(ran[c]) <= 1 /\ (Len(ran[c]) = 1 => ran[c] # <<>>)
    <3>1. ran[c] \in {<<>>, <<TRUE>>, <<FALSE>>}
      BY <2>1 DEF CallInv
    <3>2. CASE ran[c] = <<>>
      BY <3>2
    <3>3. CASE ran[c] = <<TRUE>>
      BY <3>3
    <3>4. CASE ran[c] = <<FALSE>>
      BY <3>4
    <3>. QED
      BY <3>1, <3>2, <3>3, <3>4
  <2>. QED
    BY <2>1, <2>2 DEF CallInv
<1>. QED
  BY <1>1, InvAlways, PTL

\* A connector is told the one decision there is, and of an approval after the
\* run (Relayer).
THEOREM ToldTheDecisionAlways == Spec => []ToldTheDecision
<1>1. Inv => ToldTheDecision
  <2>. SUFFICES ASSUME Inv, NEW c \in Calls
                PROVE  /\ Len(told[c]) <= 1
                       /\ \A n \in 1 .. Len(told[c]) :
                            /\ told[c][n] = item[c].decision
                            /\ told[c][n] = "approve" /\ RunsHere(item[c].kind)
                               => ran[c] # <<>>
    BY DEF ToldTheDecision
  <2>1. CallInv(c)
    BY DEF Inv
  <2>2. CASE told[c] = <<>>
    BY <2>2
  <2>3. CASE told[c] = <<item[c].decision>>
    BY <2>1, <2>3 DEF CallInv
  <2>. QED
    BY <2>1, <2>2, <2>3 DEF CallInv
<1>. QED
  BY <1>1, InvAlways, PTL

\* A run that failed shows in the request once its operator is answered.
THEOREM FailedRunShowsAlways == Spec => []FailedRunShows
<1>1. Inv => FailedRunShows
  <2>. SUFFICES ASSUME Inv, NEW c \in Calls, ran[c] = <<FALSE>>, Handled(c)
                PROVE  item[c].error = "run" \/ faults > 0
    BY DEF FailedRunShows
  <2>1. Kept(c) /\ faults \in Nat
    BY Types, GateAssumption DEF Inv
  <2>. QED
    BY <2>1 DEF Kept, Handled
<1>. QED
  BY <1>1, InvAlways, PTL

\* A request is resolved once: no step changes a status that is not pending, but
\* a restart, which loses the request.
THEOREM SingleResolutionAlways == Spec => SingleResolution
<1>. DEFINE Same(c) == item'[c].status = item[c].status
                       /\ item'[c].decision = item[c].decision
<1>1. ASSUME Inv, [Next]_vars, NEW c \in Calls, Resolved(c)
      PROVE  Same(c) \/ item'[c].status = "lost"
  <2>0. item[c] \in Item /\ item[c].status \in {"approved", "rejected", "expired"}
    BY <1>1, Types DEF Inv, Resolved
  <2>1. CASE \E d \in Calls, kind \in Kinds : Submit(d, kind)
    BY <2>0, <2>1, <1>1, Types DEF Submit, Inv
  <2>2. CASE \E d \in Calls : Expire(d)
    BY <2>0, <2>2, <1>1, Types DEF Expire, Overdue, Inv
  <2>3. CASE \E o \in Operators, d \in Calls, decision \in Decisions :
               Decide(o, d, decision)
    BY <2>0, <2>3, <1>1, Types DEF Decide, Decided, Inv
  <2>4. CASE \E o \in Operators : Handle(o)
    <3>. SUFFICES ASSUME NEW o \in Operators, Handle(o) PROVE Same(c)
      BY <2>4
    <3>1. CASE \/ \E ok \in BOOLEAN : Run(o, ok)
               \/ \E reached, ok \in BOOLEAN : Tell(o, reached, ok)
               \/ Answer(o)
      BY <3>1 DEF Run, Tell, Answer
    <3>2. CASE KeepRunError(o)
      BY <2>0, <3>2, <1>1, Types DEF KeepRunError, Item, Inv
    <3>3. CASE KeepTellError(o)
      BY <2>0, <3>3, <1>1, Types DEF KeepTellError, Item, Inv
    <3>. QED
      BY <3>1, <3>2, <3>3 DEF Handle
  <2>5. CASE \E o \in Operators : BreakOff(o)
    BY <2>5 DEF BreakOff
  <2>6. CASE Restart
    <3>1. item'[c] = [item[c] EXCEPT !.status = "lost"]
      BY <2>0, <2>6 DEF Restart
    <3>. QED
      BY <2>0, <3>1 DEF Item
  <2>7. CASE Tick
    <3>1. c \notin Aging
      BY <2>0 DEF Aging
    <3>. QED
      BY <2>7, <3>1 DEF Tick
  <2>8. CASE UNCHANGED vars
    BY <2>8 DEF vars
  <2>. QED
    BY <1>1, <2>1, <2>2, <2>3, <2>4, <2>5, <2>6, <2>7, <2>8 DEF Next
<1>2. Inv /\ [Next]_vars =>
        [\A c \in Calls : Resolved(c) =>
           \/ item'[c].status = item[c].status /\ item'[c].decision = item[c].decision
           \/ item'[c].status = "lost"]_vars
  BY <1>1
<1>. QED
  BY <1>2, InvAlways, PTL DEF Spec, SingleResolution
=============================================================================
