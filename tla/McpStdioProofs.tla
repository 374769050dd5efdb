--------------------------- MODULE McpStdioProofs ---------------------------
(***************************************************************************)
(* Proofs about McpStdio, for any calls of any kinds, any number of        *)
(* retries and of faults and any pipe.                                     *)
(*                                                                         *)
(* Nothing compares an answer with the request it is taken for.  Until a   *)
(* context ends under its attempt or the server writes a frame unasked,    *)
(* the mutex is enough: the call that                                      *)
(* holds it is the only one with a request or an answer in the pipe, and   *)
(* no reader is left to take it away (PipeInv).  As long as the server     *)
(* does not fail either, the one request is answered once (RunInv).        *)
(***************************************************************************)
EXTENDS McpStdio, TLAPS

RpcSet == [call : Calls \cup {None}, try : Nat, step : Nat]

Frame == [of : RpcSet, body : {"result", "error", "broken"}]

Call == [pc : {"idle", "lock", "write", "read", "end", "done"}, try : Nat, step : Nat,
         ctx : BOOLEAN, attempt : BOOLEAN, got : Seq(Frame),
         failure : {"none", "offline", "final"}, own : BOOLEAN,
         result : {"none", "ok", "failed", "unavailable"}]

PipeTypes ==
    /\ call \in [Calls -> Call]
    /\ lock \in Calls \cup {None}
    /\ process \in {"none", "up", "zombie", "pipes"}
    /\ owner \in [call : Calls \cup {None}, try : Nat]
    /\ toServer \in Seq(RpcSet)
    /\ toClient \in Seq(Frame)
    /\ left \in Nat
    /\ torn \in BOOLEAN
    /\ ran \in [Calls -> Nat]
    /\ astray \in BOOLEAN
    /\ faults \in Nat
    /\ \A c \in Calls : call[c].step \in 1 .. Len(Methods[KindOf[c]])

TypeOK == PipeTypes /\ watch \in {"none", "armed", "stuck"}

Answer(c, body) == [of |-> Rpc(c), body |-> body]

\* Where the one request of the call that reads may be, or what came of it.
Quiet == toServer = <<>> /\ toClient = <<>>
Asked(c) == call[c].got = <<>> /\ toServer = <<Rpc(c)>> /\ toClient = <<>>
Lost(c) == call[c].got = <<>> /\ Quiet
Answered(c, body) ==
    call[c].got = <<>> /\ toServer = <<>> /\ toClient = <<Answer(c, body)>>
Heard(c, frame) == call[c].got = <<frame>> /\ Quiet

\* A call as long as no context has ended under an attempt and every frame is an answer.
PipeOf(c) ==
    /\ call[c].ctx
    /\ call[c].pc \notin {"idle", "done"} => call[c].attempt
    /\ call[c].pc \in {"write", "read"} <=> lock = c
    /\ call[c].pc = "write" => Quiet
    /\ call[c].pc = "read" =>
         \/ Asked(c) \/ Lost(c) \/ Heard(c, Broken)
         \/ \E body \in {"result", "error"} :
                Answered(c, body) \/ Heard(c, Answer(c, body))
    /\ call[c].pc # "read" => call[c].got = <<>>
    /\ call[c].pc = "end" /\ call[c].failure = "none" => call[c].own
    /\ call[c].result = "ok" => call[c].own /\ call[c].pc = "done"

PipeInv ==
    /\ left = 0
    /\ ~torn
    /\ lock = None => Quiet
    /\ process = "zombie" => toServer = <<>>
    /\ \A c \in Calls : PipeOf(c)

\* A call as long as the server has not failed either.
RunOf(c) ==
    /\ call[c].pc = "read" =>
         \/ Asked(c) \/ Answered(c, "result") \/ Heard(c, Answer(c, "result"))
         \/ process = "zombie" /\ ran[c] = 0 /\ (Lost(c) \/ Heard(c, Broken))
    /\ ran[c] <= 1
    /\ ran[c] = 1 =>
         /\ KindOf[c] = "invoke"
         /\ \/ call[c].pc = "read" /\ ~Asked(c)
            \/ call[c].pc = "end" /\ call[c].failure = "none"
            \/ call[c].pc = "done"
    /\ process = "pipes" =>
         /\ call[c].pc = "end" => call[c].failure = "none"
         /\ call[c].pc = "done" => call[c].result = "ok"

RunInv == \A c \in Calls : RunOf(c)

IInv ==
    /\ PipeTypes
    /\ ~astray => PipeInv
    /\ Untroubled => RunInv

-----------------------------------------------------------------------------
(* Parts of a step *)

USE McpAssumption

LEMMA Kinds ==
    ASSUME NEW c \in Calls
    PROVE  /\ KindOf[c] \in {"invoke", "list", "health"}
           /\ Len(Methods[KindOf[c]]) = IF KindOf[c] = "health" THEN 2 ELSE 1
           /\ \A s \in 1 .. Len(Methods[KindOf[c]]) :
                Methods[KindOf[c]][s] = "tools/call" <=> KindOf[c] = "invoke"
<1>1. KindOf[c] \in {"invoke", "list", "health"}
  BY DEF McpAssumption, Methods
<1>2. CASE KindOf[c] = "invoke"
  <2>1. Methods[KindOf[c]] = <<"tools/call">>
    BY <1>2 DEF Methods
  <2>. QED
    BY <1>2, <2>1
<1>3. CASE KindOf[c] = "list"
  <2>1. Methods[KindOf[c]] = <<"tools/list">>
    BY <1>3 DEF Methods
  <2>. QED
    BY <1>3, <2>1
<1>4. CASE KindOf[c] = "health"
  <2>1. Methods[KindOf[c]] = <<"initialize", "tools/list">>
    BY <1>4 DEF Methods
  <2>. QED
    BY <1>4, <2>1
<1>. QED
  BY <1>1, <1>2, <1>3, <1>4

LEMMA CallTypes ==
    ASSUME PipeTypes, NEW c \in Calls
    PROVE  /\ call[c] \in Call
           /\ call[c].pc \in {"idle", "lock", "write", "read", "end", "done"}
           /\ call[c].try \in Nat
           /\ call[c].step \in Nat
           /\ call[c].step \in 1 .. Len(Methods[KindOf[c]])
           /\ call[c].ctx \in BOOLEAN
           /\ call[c].attempt \in BOOLEAN
           /\ call[c].got \in Seq(Frame)
           /\ call[c].failure \in {"none", "offline", "final"}
           /\ call[c].own \in BOOLEAN
           /\ call[c].result \in {"none", "ok", "failed", "unavailable"}
<1>1. call[c] \in Call
  BY DEF PipeTypes
<1>2. call[c].step \in 1 .. Len(Methods[KindOf[c]])
  BY DEF PipeTypes
<1>. QED
  BY <1>1, <1>2 DEF Call

LEMMA RpcTypes ==
    ASSUME PipeTypes, NEW c \in Calls
    PROVE  Rpc(c) \in RpcSet
BY CallTypes DEF Rpc, RpcSet

\* A step of one call leaves the others what they are.
LEMMA OneCall ==
    ASSUME PipeTypes, NEW c \in Calls, NEW n \in Call,
           n.step \in 1 .. Len(Methods[KindOf[c]]), call' = [call EXCEPT ![c] = n]
    PROVE  /\ call' \in [Calls -> Call]
           /\ \A d \in Calls : call'[d].step \in 1 .. Len(Methods[KindOf[d]])
           /\ call'[c] = n
           /\ \A d \in Calls : d # c => call'[d] = call[d]
<1>1. call' \in [Calls -> Call] /\ call'[c] = n
      /\ \A d \in Calls : d # c => call'[d] = call[d]
  BY DEF PipeTypes
<1>. QED
  BY <1>1 DEF PipeTypes

\* What is known of the others stays, as only one of them may be using the pipe.
LEMMA Others ==
    ASSUME IInv, NEW c \in Calls, NEW d \in Calls, d # c, call'[d] = call[d],
           ran' = ran, process' = "pipes" => process = "pipes",
           ~astray' => ~astray, Untroubled' => Untroubled,
           ~astray' => \/ UNCHANGED <<lock, toServer, toClient, process>>
                       \/ lock \in {None, c} /\ lock' \in {None, c}
    PROVE  /\ ~astray' => PipeOf(d)'
           /\ Untroubled' => RunOf(d)'
<1>0. d # None
  BY DEF McpAssumption
<1>1. Rpc(d)' = Rpc(d)
  BY DEF Rpc
<1>2. ASSUME ~astray' PROVE PipeOf(d)'
  <2>1. PipeOf(d)
    BY <1>2 DEF IInv, PipeInv
  <2>2. CASE UNCHANGED <<lock, toServer, toClient, process>>
    BY <1>1, <2>1, <2>2
      DEF PipeOf, Asked, Lost, Heard, Answered, Quiet, Answer
  <2>3. CASE lock \in {None, c} /\ lock' \in {None, c}
    BY <1>0, <2>1, <2>3 DEF PipeOf
  <2>. QED
    BY <1>2, <2>2, <2>3
<1>3. ASSUME Untroubled' PROVE RunOf(d)'
  <2>1. RunOf(d) /\ PipeOf(d)
    BY <1>3 DEF IInv, PipeInv, RunInv, Untroubled
  <2>2. CASE UNCHANGED <<lock, toServer, toClient, process>>
    BY <1>1, <2>1, <2>2
      DEF RunOf, Asked, Lost, Heard, Answered, Quiet, Answer
  <2>3. CASE lock \in {None, c} /\ lock' \in {None, c}
    <3>1. call[d].pc # "read"
      BY <1>0, <2>1, <2>3 DEF PipeOf
    <3>. QED
      BY <2>1, <3>1 DEF RunOf
  <2>. QED
    BY <1>3, <2>2, <2>3 DEF Untroubled
<1>. QED
  BY <1>2, <1>3

\* So that a step of a call has to be looked at for that call.
LEMMA CallStep ==
    ASSUME IInv, NEW c \in Calls, NEW n \in Call,
           n.step \in 1 .. Len(Methods[KindOf[c]]), call' = [call EXCEPT ![c] = n],
           ran' = ran, process' = "pipes" => process = "pipes",
           ~astray' => ~astray, Untroubled' => Untroubled,
           ~astray' => \/ UNCHANGED <<lock, toServer, toClient, process>>
                       \/ lock \in {None, c} /\ lock' \in {None, c},
           lock' \in Calls \cup {None}, process' \in {"none", "up", "zombie", "pipes"},
           owner' \in [call : Calls \cup {None}, try : Nat],
           toServer' \in Seq(RpcSet), toClient' \in Seq(Frame), left' \in Nat,
           torn' \in BOOLEAN, astray' \in BOOLEAN, faults' \in Nat,
           ~astray' => /\ left' = 0 /\ ~torn' /\ (lock' = None => Quiet')
                       /\ (process' = "zombie" => toServer' = <<>>)
                       /\ PipeOf(c)',
           Untroubled' => RunOf(c)'
    PROVE  IInv'
<1>1. PipeTypes'
  BY OneCall DEF IInv, PipeTypes
<1>2. \A d \in Calls : d # c => (~astray' => PipeOf(d)') /\ (Untroubled' => RunOf(d)')
  BY OneCall, Others DEF IInv
<1>3. ~astray' => PipeInv'
  BY <1>2 DEF PipeInv
<1>4. Untroubled' => RunInv'
  BY <1>2 DEF RunInv
<1>. QED
  BY <1>1, <1>3, <1>4 DEF IInv

-----------------------------------------------------------------------------
(* The loop of attempts *)

\* What an attempt begins with.
LEMMA AttemptIs ==
    ASSUME IInv, NEW c \in Calls, call' = Attempt(c),
           call[c].pc \in {"idle", "end"},
           UNCHANGED <<server, pipe, trouble>>,
           Untroubled => ran[c] # 1
    PROVE  IInv'
<1>. DEFINE n == [call[c] EXCEPT !.pc = "lock", !.try = @ + 1, !.step = 1,
                                 !.attempt = TRUE, !.failure = "none"]
<1>1. PipeTypes
  BY DEF IInv
<1>15. call[c] \in Call /\ call[c].try + 1 \in Nat
  BY <1>1, CallTypes
<1>2. n \in Call
  BY <1>15 DEF Call
<1>3. call' = [call EXCEPT ![c] = n]
  BY <1>1 DEF Attempt, PipeTypes
<1>4. /\ n.step = 1 /\ n.pc = "lock" /\ n.attempt = TRUE /\ n.failure = "none"
      /\ n.ctx = call[c].ctx /\ n.got = call[c].got /\ n.own = call[c].own
      /\ n.result = call[c].result
  BY <1>1, CallTypes DEF Call
<1>5. n.step \in 1 .. Len(Methods[KindOf[c]])
  BY <1>4, Kinds
<1>6. call'[c] = n
  BY <1>1, <1>2, <1>3, <1>5, OneCall
<1>. HIDE DEF n
<1>7. UNCHANGED <<lock, process, owner, toServer, toClient, left, torn, ran, astray, faults>>
  BY DEF server, pipe, trouble
<1>8. ~astray => PipeInv /\ PipeOf(c)
  BY DEF IInv, PipeInv
<1>9. ~astray' => PipeOf(c)'
  BY <1>4, <1>6, <1>7, <1>8 DEF PipeOf
<1>10. Untroubled => RunOf(c)
  BY DEF IInv, RunInv
<1>11. Untroubled' => RunOf(c)'
  BY <1>4, <1>6, <1>7, <1>10 DEF RunOf, Untroubled
<1>12. ~astray' => /\ left' = 0 /\ ~torn' /\ (lock' = None => Quiet')
                   /\ (process' = "zombie" => toServer' = <<>>)
  BY <1>7, <1>8 DEF PipeInv, Quiet
<1>13. Untroubled' => Untroubled
  BY <1>7 DEF Untroubled
<1>. QED
  BY <1>1, <1>2, <1>3, <1>5, <1>7, <1>9, <1>11, <1>12, <1>13, CallStep, Zenon DEF PipeTypes

LEMMA StartKeeps ==
    ASSUME IInv, NEW c \in Calls, Start(c)
    PROVE  IInv'
<1>1. Untroubled => ran[c] # 1
  BY DEF IInv, RunInv, RunOf, Start
<1>. QED
  BY <1>1, AttemptIs DEF Start

LEMMA EndKeeps ==
    ASSUME IInv, NEW c \in Calls, End(c)
    PROVE  IInv'
<1>1. PipeTypes /\ call[c].pc = "end" /\ UNCHANGED <<server, pipe, trouble>>
  BY DEF IInv, End
<1>2. CASE Finished(c) = "again"
  <2>1. call[c].failure = "offline"
    BY <1>1, <1>2, CallTypes DEF Finished
  <2>2. Untroubled => ran[c] # 1
    BY <1>1, <2>1 DEF IInv, RunInv, RunOf
  <2>. QED
    BY <1>1, <1>2, <2>2, AttemptIs DEF End
<1>3. CASE Finished(c) # "again"
  <2>. DEFINE n == [NewCall EXCEPT !.pc = "done", !.result = Finished(c),
                                   !.own = call[c].own]
  <2>1. Finished(c) \in {"ok", "failed", "unavailable"}
    BY <1>1, <1>3, CallTypes DEF Finished
  <2>2. /\ n.pc = "done" /\ n.step = 1 /\ n.ctx = TRUE /\ n.got = <<>>
        /\ n.own = call[c].own /\ n.result = Finished(c)
    BY DEF NewCall
  <2>15. call[c].own \in BOOLEAN /\ <<>> \in Seq(Frame)
    BY <1>1, CallTypes
  <2>3. n \in Call
    BY <2>1, <2>15 DEF Call, NewCall
  <2>4. call' = [call EXCEPT ![c] = n]
    BY <1>3 DEF End, Returned
  <2>5. n.step \in 1 .. Len(Methods[KindOf[c]])
    BY <2>2, Kinds
  <2>6. call'[c] = n
    BY <1>1, <2>3, <2>4, <2>5, OneCall
  <2>. HIDE DEF n
  <2>7. UNCHANGED <<lock, process, owner, toServer, toClient, left, torn, ran, astray, faults>>
    BY <1>1 DEF server, pipe, trouble
  <2>8. ~astray => PipeInv /\ PipeOf(c)
    BY DEF IInv, PipeInv
  <2>9. Finished(c) = "ok" <=> call[c].failure = "none"
    BY DEF Finished
  <2>10. ~astray' => PipeOf(c)'
    BY <1>1, <2>2, <2>6, <2>7, <2>8, <2>9 DEF PipeOf
  <2>11. Untroubled => RunOf(c)
    BY DEF IInv, RunInv
  <2>12. Untroubled' => RunOf(c)'
    BY <1>1, <2>2, <2>6, <2>7, <2>9, <2>11 DEF RunOf, Untroubled
  <2>13. ~astray' => /\ left' = 0 /\ ~torn' /\ (lock' = None => Quiet')
                     /\ (process' = "zombie" => toServer' = <<>>)
    BY <2>7, <2>8 DEF PipeInv, Quiet
  <2>14. Untroubled' => Untroubled
    BY <2>7 DEF Untroubled
  <2>. QED
    BY <1>1, <2>3, <2>4, <2>5, <2>7, <2>10, <2>12, <2>13, <2>14, CallStep, Zenon
      DEF PipeTypes
<1>. QED
  BY <1>2, <1>3

-----------------------------------------------------------------------------
(* One rpc *)

\* The steps that only change where a call stands.
LEMMA PcTo ==
    ASSUME PipeTypes, NEW c \in Calls, NEW pc \in {"write", "read"},
           call' = [call EXCEPT ![c].pc = pc]
    PROVE  \E n \in Call :
              /\ call' = [call EXCEPT ![c] = n]
              /\ call'[c] = n
              /\ n.pc = pc /\ n.step \in 1 .. Len(Methods[KindOf[c]])
              /\ n.try = call[c].try /\ n.step = call[c].step
              /\ n.ctx = call[c].ctx /\ n.attempt = call[c].attempt
              /\ n.got = call[c].got /\ n.own = call[c].own /\ n.result = call[c].result
<1>. DEFINE n == [call[c] EXCEPT !.pc = pc]
<1>1. n \in Call
  <2>1. call[c] \in Call
    BY CallTypes
  <2>. QED
    BY <2>1 DEF Call
<1>2. /\ n.pc = pc
      /\ n.try = call[c].try /\ n.step = call[c].step
      /\ n.ctx = call[c].ctx /\ n.attempt = call[c].attempt
      /\ n.got = call[c].got /\ n.own = call[c].own /\ n.result = call[c].result
  BY CallTypes DEF Call
<1>3. call' = [call EXCEPT ![c] = n] /\ call'[c] = n
  BY DEF PipeTypes
<1>4. n.step \in 1 .. Len(Methods[KindOf[c]])
  BY <1>2, CallTypes
<1>. QED
  BY <1>1, <1>2, <1>3, <1>4

\* The lock is taken.
LEMMA LockTaken ==
    ASSUME IInv, NEW c \in Calls, call[c].pc = "lock", lock = None, lock' = c,
           call' = [call EXCEPT ![c].pc = "write"],
           process' \in {"up", "zombie", "pipes"},
           process' \in {"zombie", "pipes"} => process' = process,
           owner' \in [call : Calls \cup {None}, try : Nat],
           UNCHANGED <<toServer, toClient, left, torn, ran, astray, faults>>
    PROVE  IInv'
<1>1. PipeTypes
  BY DEF IInv
<1>2. PICK n \in Call :
         /\ call' = [call EXCEPT ![c] = n]
         /\ call'[c] = n
         /\ n.pc = "write" /\ n.step \in 1 .. Len(Methods[KindOf[c]])
         /\ n.try = call[c].try /\ n.step = call[c].step
         /\ n.ctx = call[c].ctx /\ n.attempt = call[c].attempt
         /\ n.got = call[c].got /\ n.own = call[c].own /\ n.result = call[c].result
  BY <1>1, PcTo
<1>3. ~astray => PipeInv /\ PipeOf(c)
  BY DEF IInv, PipeInv
<1>4. ~astray => Quiet /\ Quiet'
  BY <1>3 DEF PipeInv, Quiet
<1>5. ~astray' => PipeOf(c)'
  BY <1>2, <1>3, <1>4 DEF PipeOf
<1>6. Untroubled => RunOf(c)
  BY DEF IInv, RunInv
<1>7. Untroubled' => RunOf(c)'
  BY <1>2, <1>6 DEF RunOf, Untroubled
<1>8. ~astray' => /\ left' = 0 /\ ~torn' /\ (lock' = None => Quiet')
                  /\ (process' = "zombie" => toServer' = <<>>)
  BY <1>3, <1>4 DEF PipeInv, Quiet
<1>9. Untroubled' => Untroubled
  BY DEF Untroubled
<1>10. process' = "pipes" => process = "pipes"
  OBVIOUS
<1>. QED
  BY <1>1, <1>2, <1>5, <1>7, <1>8, <1>9, <1>10, CallStep, Zenon DEF PipeTypes

LEMMA LockKeeps ==
    ASSUME IInv, NEW c \in Calls, Lock(c)
    PROVE  IInv'
<1>1. PipeTypes
  BY DEF IInv
<1>2. process \in {"up", "zombie", "pipes"} /\ owner \in [call : Calls \cup {None}, try : Nat]
  BY <1>1 DEF PipeTypes, Lock
<1>. QED
  BY <1>2, LockTaken DEF Lock, Free, server, trouble

LEMMA StartServerKeeps ==
    ASSUME IInv, NEW c \in Calls, StartServer(c)
    PROVE  IInv'
<1>1. PipeTypes
  BY DEF IInv
<1>2. owner' \in [call : Calls \cup {None}, try : Nat] /\ process' = "up"
  BY <1>1, CallTypes DEF StartServer
<1>. QED
  BY <1>2, LockTaken DEF StartServer, Free, trouble

LEMMA WriteKeeps ==
    ASSUME IInv, NEW c \in Calls, Write(c)
    PROVE  IInv'
<1>1. PipeTypes
  BY DEF IInv
<1>2. /\ call[c].pc = "write"
      /\ process # "zombie"
      /\ toServer' = Append(toServer, Rpc(c))
      /\ torn' = (torn \/ Reading # {} \/ left > 0)
      /\ call' = [call EXCEPT ![c].pc = "read"]
      /\ UNCHANGED <<lock, left, process, owner, toClient, ran, astray, faults>>
  BY DEF Write, trouble
<1>3. PICK n \in Call :
         /\ call' = [call EXCEPT ![c] = n]
         /\ call'[c] = n
         /\ n.pc = "read" /\ n.step \in 1 .. Len(Methods[KindOf[c]])
         /\ n.try = call[c].try /\ n.step = call[c].step
         /\ n.ctx = call[c].ctx /\ n.attempt = call[c].attempt
         /\ n.got = call[c].got /\ n.own = call[c].own /\ n.result = call[c].result
  BY <1>1, <1>2, PcTo
<1>4. Rpc(c)' = Rpc(c) /\ Rpc(c) \in RpcSet
  BY <1>1, <1>3, RpcTypes DEF Rpc
<1>5. toServer' \in Seq(RpcSet) /\ torn' \in BOOLEAN
  BY <1>1, <1>2, <1>4 DEF PipeTypes
<1>6. ~astray => PipeInv /\ PipeOf(c) /\ Quiet /\ lock = c /\ c # None
  BY <1>2 DEF IInv, PipeInv, PipeOf, McpAssumption
<1>7. ~astray => Reading = {}
  <2>1. ASSUME ~astray, NEW d \in Calls, call[d].pc = "read" PROVE FALSE
    BY <1>2, <1>6, <2>1 DEF PipeInv, PipeOf
  <2>. QED
    BY <2>1 DEF Reading
<1>8. ~astray' => Asked(c)'
  BY <1>2, <1>3, <1>4, <1>6 DEF Asked, PipeOf, Quiet
<1>9. ~astray' => PipeOf(c)'
  BY <1>2, <1>3, <1>6, <1>8 DEF PipeOf
<1>10. Untroubled => RunOf(c)
  BY DEF IInv, RunInv
<1>11. Untroubled' => RunOf(c)'
  BY <1>2, <1>3, <1>8, <1>10 DEF RunOf, Untroubled
<1>15. ~astray' => left' = 0 /\ ~torn'
  <2>1. ASSUME ~astray PROVE left = 0 /\ ~(left > 0) /\ ~torn
    BY <1>6, <2>1 DEF PipeInv
  <2>2. ASSUME ~astray PROVE ~torn'
    BY <1>2, <1>7, <2>1, <2>2, Zenon
  <2>. QED
    BY <1>2, <2>1, <2>2
<1>12. ~astray' => /\ left' = 0 /\ ~torn' /\ (lock' = None => Quiet')
                   /\ (process' = "zombie" => toServer' = <<>>)
  BY <1>2, <1>6, <1>15
<1>13. Untroubled' => Untroubled
  BY <1>2 DEF Untroubled
<1>14. ~astray' => lock \in {None, c} /\ lock' \in {None, c}
  BY <1>2, <1>6
<1>. QED
  BY <1>1, <1>2, <1>3, <1>5, <1>9, <1>11, <1>12, <1>13, <1>14, CallStep, ZenonT(60) DEF PipeTypes

\* What a step that ends an attempt leaves.
Ended(c, failure, own) ==
    [call[c] EXCEPT !.pc = "end", !.failure = failure, !.got = <<>>, !.own = own]

LEMMA EndTo ==
    ASSUME PipeTypes, NEW c \in Calls, NEW failure \in {"none", "offline", "final"},
           NEW own \in BOOLEAN
    PROVE  LET n == Ended(c, failure, own)
           IN  /\ n \in Call
               /\ n.pc = "end" /\ n.step \in 1 .. Len(Methods[KindOf[c]])
               /\ n.failure = failure /\ n.got = <<>> /\ n.own = own
               /\ n.ctx = call[c].ctx /\ n.attempt = call[c].attempt
               /\ n.result = call[c].result
<1>1. call[c] \in Call /\ <<>> \in Seq(Frame)
  BY CallTypes
<1>2. call[c].step \in 1 .. Len(Methods[KindOf[c]])
  BY CallTypes
<1>. DEFINE n == Ended(c, failure, own)
<1>3. n \in Call
  BY <1>1 DEF Call, Ended
<1>4. /\ n.pc = "end" /\ n.step = call[c].step
      /\ n.failure = failure /\ n.got = <<>> /\ n.own = own
      /\ n.ctx = call[c].ctx /\ n.attempt = call[c].attempt
      /\ n.result = call[c].result
  BY <1>1 DEF Call, Ended
<1>. QED
  BY <1>2, <1>3, <1>4

\* The pipe of a call whose attempt has failed is quiet, or its context is over.
LEMMA AttemptFails ==
    ASSUME IInv, NEW c \in Calls, AttemptEnds(c, "offline"),
           call[c].pc \in {"lock", "write", "read"},
           lock' = IF call[c].pc = "lock" THEN lock ELSE None,
           UNCHANGED <<process, owner, toServer, toClient, torn, ran, astray>>,
           left' \in Nat, faults' \in Nat,
           ~astray => left' = left /\ Quiet,
           Untroubled' => Untroubled /\ process = "zombie" /\ ran[c] = 0
    PROVE  IInv'
<1>1. PipeTypes
  BY DEF IInv
<1>. DEFINE n == Ended(c, "offline", call[c].own)
<1>2. call[c] \in Call /\ call[c].own \in BOOLEAN
  BY <1>1, CallTypes
<1>3. /\ n \in Call
      /\ n.pc = "end" /\ n.step \in 1 .. Len(Methods[KindOf[c]])
      /\ n.failure = "offline" /\ n.got = <<>> /\ n.own = call[c].own
      /\ n.ctx = call[c].ctx /\ n.attempt = call[c].attempt
      /\ n.result = call[c].result
  BY <1>1, <1>2, EndTo
<1>4. call' = [call EXCEPT ![c] = n] /\ call'[c] = n
  <2>. DEFINE x == [call[c] EXCEPT !.pc = "end", !.failure = "offline", !.got = <<>>]
  <2>1. x = n
    BY <1>2 DEF Call, Ended
  <2>2. call' = [call EXCEPT ![c] = x]
    BY <1>1 DEF AttemptEnds, PipeTypes
  <2>3. c \in DOMAIN call
    BY <1>1 DEF PipeTypes
  <2>. HIDE DEF x, n
  <2>. QED
    BY <2>1, <2>2, <2>3
<1>. HIDE DEF n
<1>5. ~astray => PipeInv /\ PipeOf(c)
  BY DEF IInv, PipeInv
<1>6. c # None
  BY DEF McpAssumption
<1>7. ~astray' => PipeOf(c)'
  BY <1>3, <1>4, <1>5, <1>6 DEF PipeOf
<1>8. Untroubled' => RunOf(c)'
  BY <1>3, <1>4 DEF RunOf
<1>9. ~astray' => /\ left' = 0 /\ ~torn' /\ (lock' = None => Quiet')
                  /\ (process' = "zombie" => toServer' = <<>>)
  BY <1>5 DEF PipeInv, Quiet
<1>10. ~astray' => \/ UNCHANGED <<lock, toServer, toClient, process>>
                   \/ lock \in {None, c} /\ lock' \in {None, c}
  <2>1. CASE call[c].pc = "lock"
    BY <2>1
  <2>2. CASE call[c].pc # "lock"
    BY <1>5, <2>2 DEF PipeOf
  <2>. QED
    BY <2>1, <2>2
<1>11. lock' \in Calls \cup {None}
  BY <1>1 DEF PipeTypes
<1>12. (Untroubled' => Untroubled) /\ (process' = "pipes" => process = "pipes")
  OBVIOUS
<1>. QED
  BY <1>1, <1>3, <1>4, <1>7, <1>8, <1>9, <1>10, <1>11, <1>12, CallStep, Zenon DEF PipeTypes

LEMMA StartFailsKeeps ==
    ASSUME IInv, NEW c \in Calls, StartFails(c)
    PROVE  IInv'
<1>1. PipeTypes
  BY DEF IInv
<1>2. /\ call[c].pc = "lock" /\ lock = None /\ AttemptEnds(c, "offline")
      /\ UNCHANGED <<lock, process, owner, toServer, toClient, left, torn, ran, astray>>
  BY DEF StartFails, Free, server, pipe
<1>3. IF call[c].attempt THEN faults' = faults + 1 ELSE faults' = faults
  BY DEF StartFails, Fault
<1>4. faults' \in Nat /\ left' \in Nat
  BY <1>1, <1>2, <1>3 DEF PipeTypes
<1>5. ~astray => Quiet /\ call[c].attempt
  BY <1>2 DEF IInv, PipeInv, PipeOf
<1>6. ~Untroubled'
  BY <1>1, <1>2, <1>3, <1>5 DEF Untroubled, PipeTypes
<1>. QED
  BY <1>2, <1>4, <1>5, <1>6, AttemptFails

LEMMA WriteFailsKeeps ==
    ASSUME IInv, NEW c \in Calls, WriteFails(c)
    PROVE  IInv'
<1>1. PipeTypes
  BY DEF IInv
<1>2. /\ call[c].pc = "write" /\ process = "zombie" /\ AttemptEnds(c, "offline")
      /\ lock' = None
      /\ UNCHANGED <<process, owner, toServer, toClient, left, torn, ran, astray, faults>>
  BY DEF WriteFails, server, trouble
<1>3. faults' \in Nat /\ left' \in Nat
  BY <1>1, <1>2 DEF PipeTypes
<1>4. ~astray => Quiet
  BY <1>2 DEF IInv, PipeInv, PipeOf
<1>5. Untroubled' => Untroubled
  BY <1>2 DEF Untroubled
<1>6. Untroubled => ran[c] = 0
  <2>1. ran[c] \in Nat
    BY <1>1 DEF PipeTypes
  <2>2. Untroubled => ran[c] <= 1 /\ ran[c] # 1
    BY <1>2 DEF IInv, RunInv, RunOf
  <2>. QED
    BY <2>1, <2>2
<1>. QED
  BY <1>2, <1>3, <1>4, <1>5, <1>6, AttemptFails

LEMMA GiveUpKeeps ==
    ASSUME IInv, NEW c \in Calls, GiveUp(c)
    PROVE  IInv'
<1>1. PipeTypes
  BY DEF IInv
<1>2. /\ call[c].pc = "read" /\ ~call[c].attempt /\ AttemptEnds(c, "offline")
      /\ left' = (IF c \in Reading THEN left + 1 ELSE left) /\ lock' = None
      /\ UNCHANGED <<process, owner, toServer, toClient, torn, ran, astray, faults>>
  BY DEF GiveUp, server, trouble
<1>3. faults' \in Nat /\ left' \in Nat
  BY <1>1, <1>2 DEF PipeTypes
<1>4. astray
  BY <1>1, <1>2 DEF IInv, PipeInv, PipeOf, PipeTypes
<1>5. ~Untroubled'
  BY <1>2, <1>4 DEF Untroubled
<1>. QED
  BY <1>2, <1>3, <1>4, <1>5, AttemptFails

\* The answer to a request of c is what c asked for.
LEMMA OwnOutcome ==
    ASSUME PipeTypes, NEW c \in Calls
    PROVE  Outcome(c, Answer(c, "result")) = "none"
<1>1. Rpc(c) # NoRpc
  BY DEF Rpc, NoRpc, McpAssumption
<1>. QED
  BY <1>1 DEF Outcome, Answer

LEMMA ReceiveKeeps ==
    ASSUME IInv, NEW c \in Calls, Receive(c)
    PROVE  IInv'
<1>. DEFINE frame == call[c].got[1]
            failure == Outcome(c, frame)
            last == call[c].step = Len(Methods[KindOf[c]])
<1>1. PipeTypes
  BY DEF IInv
<1>2. /\ call[c].pc = "read" /\ call[c].got # <<>> /\ lock' = None
      /\ UNCHANGED <<process, owner, toServer, toClient, left, torn, ran, astray, faults>>
      /\ call' = IF failure = "none" /\ ~last
                 THEN [call EXCEPT ![c].pc = "lock", ![c].step = @ + 1, ![c].got = <<>>]
                 ELSE [call EXCEPT ![c].pc = "end", ![c].failure = failure,
                                   ![c].got = <<>>,
                                   ![c].own = failure = "none" /\ frame.of = Rpc(c)]
  BY DEF Receive, server, trouble
<1>3. failure \in {"none", "offline", "final"}
  BY DEF Outcome
<1>4. ~astray => /\ PipeInv /\ PipeOf(c) /\ lock = c /\ Quiet
                 /\ \/ frame = Broken
                    \/ \E body \in {"result", "error"} : frame = Answer(c, body)
  BY <1>2 DEF IInv, PipeInv, PipeOf, Asked, Lost, Heard, Answered, Quiet
<1>5. ~astray /\ failure = "none" => frame = Answer(c, "result")
  BY <1>4 DEF Outcome, Broken, Answer
<1>6. ~astray /\ failure = "none" => frame.of = Rpc(c)
  BY <1>5 DEF Answer
<1>7. Untroubled => RunOf(c)
  BY DEF IInv, RunInv
<1>8. ASSUME Untroubled PROVE \/ failure = "none"
                              \/ process = "zombie" /\ ran[c] = 0
  <2>1. ~Asked(c) /\ ~Answered(c, "result") /\ ~Lost(c)
    BY <1>2 DEF Asked, Answered, Lost
  <2>2. CASE Heard(c, Answer(c, "result"))
    <3>1. frame = Answer(c, "result")
      BY <2>2 DEF Heard
    <3>. QED
      BY <1>1, <3>1, OwnOutcome, Zenon
  <2>3. CASE process = "zombie" /\ ran[c] = 0
    BY <2>3
  <2>. QED
    BY <1>2, <1>7, <1>8, <2>1, <2>2, <2>3 DEF RunOf
<1>9. (Untroubled' => Untroubled) /\ (process' = "pipes" => process = "pipes")
  BY <1>2 DEF Untroubled
<1>10. ~astray' => lock \in {None, c} /\ lock' \in {None, c}
  BY <1>2, <1>4
<1>11. ~astray' => /\ left' = 0 /\ ~torn' /\ (lock' = None => Quiet')
                   /\ (process' = "zombie" => toServer' = <<>>)
  BY <1>2, <1>4 DEF PipeInv, Quiet
<1>12. lock' \in Calls \cup {None} /\ c # None
  BY <1>2 DEF McpAssumption
<1>. HIDE DEF frame, failure, last
<1>13. CASE failure = "none" /\ ~last
  <2>. DEFINE n == [call[c] EXCEPT !.pc = "lock", !.step = @ + 1, !.got = <<>>]
  <2>1. call[c] \in Call /\ <<>> \in Seq(Frame) /\ call[c].step + 1 \in Nat
    BY <1>1, CallTypes
  <2>2. n \in Call
    BY <2>1 DEF Call
  <2>3. /\ n.pc = "lock" /\ n.step = call[c].step + 1 /\ n.got = <<>>
        /\ n.ctx = call[c].ctx /\ n.attempt = call[c].attempt
        /\ n.own = call[c].own /\ n.result = call[c].result
    BY <2>1 DEF Call
  <2>4. call' = [call EXCEPT ![c] = n]
    BY <1>1, <1>2, <1>13 DEF PipeTypes
  <2>5. n.step \in 1 .. Len(Methods[KindOf[c]])
    <3>1. call[c].step \in 1 .. Len(Methods[KindOf[c]])
          /\ Len(Methods[KindOf[c]]) \in Nat
      BY <1>1, CallTypes, Kinds
    <3>. QED
      BY <1>13, <2>3, <3>1 DEF last
  <2>6. call'[c] = n
    BY <1>1, <2>2, <2>4, <2>5, OneCall
  <2>. HIDE DEF n
  <2>7. ~astray' => PipeOf(c)'
    BY <1>2, <1>4, <1>12, <2>3, <2>6 DEF PipeOf
  <2>8. KindOf[c] # "invoke"
    <3>1. call[c].step \in 1 .. Len(Methods[KindOf[c]])
      BY <1>1, CallTypes
    <3>. QED
      BY <1>13, <3>1, Kinds DEF last
  <2>9. Untroubled' => RunOf(c)'
    BY <1>2, <1>7, <1>9, <2>3, <2>6, <2>8 DEF RunOf
  <2>. QED
    BY <1>1, <1>2, <1>9, <1>10, <1>11, <1>12, <2>2, <2>4, <2>5, <2>7, <2>9, CallStep,
       Zenon DEF PipeTypes
<1>14. CASE ~(failure = "none" /\ ~last)
  <2>1. PICK own \in BOOLEAN : own = (failure = "none" /\ frame.of = Rpc(c))
    OBVIOUS
  <2>. DEFINE n == Ended(c, failure, own)
  <2>2. /\ n \in Call
        /\ n.pc = "end" /\ n.step \in 1 .. Len(Methods[KindOf[c]])
        /\ n.failure = failure /\ n.got = <<>> /\ n.own = own
        /\ n.ctx = call[c].ctx /\ n.attempt = call[c].attempt
        /\ n.result = call[c].result
    BY <1>1, <1>3, EndTo
  <2>6. call[c] \in Call
    BY <1>1, CallTypes
  <2>7. call' = [call EXCEPT ![c] = n] /\ call'[c] = n
    BY <1>1, <1>2, <1>14, <2>1, <2>6 DEF PipeTypes, Call, Ended
  <2>. HIDE DEF n
  <2>3. ~astray /\ failure = "none" => own
    BY <1>6, <2>1
  <2>4. ~astray' => PipeOf(c)'
    BY <1>2, <1>4, <1>12, <2>2, <2>3, <2>7 DEF PipeOf
  <2>5. Untroubled' => RunOf(c)'
    <3>1. call'[c].pc = "end" /\ call'[c].failure = failure
      BY <2>2, <2>7
    <3>. QED
      BY <1>2, <1>7, <1>8, <1>9, <3>1 DEF RunOf
  <2>. QED
    BY <1>1, <1>2, <1>9, <1>10, <1>11, <1>12, <2>2, <2>4, <2>5, <2>7, CallStep, Zenon
      DEF PipeTypes
<1>. QED
  BY <1>13, <1>14

-----------------------------------------------------------------------------
(* The readers *)

\* A call that waits for a frame has the lock, and its request is in the pipe, or
\* what came of it.
LEMMA ReaderHas ==
    ASSUME IInv, ~astray, NEW c \in Reading
    PROVE  /\ c \in Calls /\ call[c].pc = "read" /\ lock = c /\ c # None
           /\ \/ Asked(c) \/ Lost(c)
              \/ \E body \in {"result", "error"} : Answered(c, body)
<1>1. c \in Calls /\ call[c].pc = "read" /\ call[c].got = <<>>
  BY DEF Reading
<1>2. PipeOf(c)
  BY <1>1 DEF IInv, PipeInv
<1>3. \A frame : ~Heard(c, frame)
  BY <1>1 DEF Heard
<1>. QED
  BY <1>1, <1>2, <1>3 DEF PipeOf, McpAssumption

\* A frame is given to a reader, if the frame is what that reader waits for.
LEMMA DeliverKeeps ==
    ASSUME IInv, NEW frame \in Frame, Deliver(frame),
           toClient' \in Seq(Frame), faults' \in Nat, Untroubled' => Untroubled,
           ~astray => ~torn,
           ~astray => toClient' = <<>>,
           \A c \in Reading :
              ~astray => /\ toServer = <<>>
                         /\ \/ frame = Broken
                            \/ \E body \in {"result", "error"} : frame = Answer(c, body),
           \A c \in Reading :
              Untroubled' => \/ frame = Answer(c, "result")
                             \/ frame = Broken /\ process = "zombie" /\ ran[c] = 0
    PROVE  IInv'
<1>1. PipeTypes
  BY DEF IInv
<1>2. UNCHANGED <<lock, torn, process, owner, toServer, ran, astray>>
  BY DEF Deliver
<1>3. CASE left > 0 /\ left' = left - 1 /\ UNCHANGED call
  <2>1. astray
    <3>1. left # 0
      BY <1>1, <1>3 DEF PipeTypes
    <3>. QED
      BY <1>1, <3>1 DEF IInv, PipeInv, PipeTypes
  <2>2. left' \in Nat
    BY <1>1, <1>3 DEF PipeTypes
  <2>3. PipeTypes'
    BY <1>1, <1>2, <1>3, <2>2 DEF PipeTypes
  <2>. QED
    BY <1>2, <2>1, <2>3 DEF IInv, Untroubled
<1>4. CASE \E c \in Reading : call' = [call EXCEPT ![c].got = <<frame>>] /\ UNCHANGED left
  <2>1. PICK c \in Reading : call' = [call EXCEPT ![c].got = <<frame>>] /\ UNCHANGED left
    BY <1>4
  <2>2. c \in Calls /\ call[c].pc = "read" /\ c # None
    BY DEF Reading, McpAssumption
  <2>. DEFINE n == [call[c] EXCEPT !.got = <<frame>>]
  <2>3. call[c] \in Call /\ <<frame>> \in Seq(Frame)
    BY <1>1, <2>2, CallTypes
  <2>4. n \in Call
    BY <2>3 DEF Call
  <2>5. /\ n.pc = "read" /\ n.try = call[c].try /\ n.step = call[c].step
        /\ n.got = <<frame>>
        /\ n.ctx = call[c].ctx /\ n.attempt = call[c].attempt
        /\ n.own = call[c].own /\ n.result = call[c].result
    BY <2>2, <2>3 DEF Call
  <2>6. call' = [call EXCEPT ![c] = n]
    BY <1>1, <2>1, <2>2 DEF PipeTypes
  <2>7. n.step \in 1 .. Len(Methods[KindOf[c]])
    BY <1>1, <2>2, <2>5, CallTypes
  <2>8. call'[c] = n
    BY <1>1, <2>2, <2>4, <2>6, <2>7, OneCall
  <2>. HIDE DEF n
  <2>9. Rpc(c)' = Rpc(c)
    BY <2>5, <2>8 DEF Rpc
  <2>10. \A body : Answer(c, body)' = Answer(c, body)
    BY <2>9 DEF Answer
  <2>11. ~astray => PipeInv /\ PipeOf(c) /\ lock = c
    BY <2>2 DEF IInv, PipeInv, PipeOf
  <2>12. ~astray' => Quiet' /\ Heard(c, frame)'
    BY <1>2, <2>5, <2>8 DEF Quiet, Heard
  <2>13. ~astray' => \/ Heard(c, Broken)'
                     \/ \E body \in {"result", "error"} : Heard(c, Answer(c, body))'
    BY <1>2, <2>10, <2>12 DEF Heard, Broken, NoRpc
  <2>14. ~astray' => PipeOf(c)'
    BY <1>2, <2>2, <2>5, <2>8, <2>11, <2>13 DEF PipeOf
  <2>15. ~Asked(c)'
    <3>1. <<frame>> # <<>>
      OBVIOUS
    <3>. QED
      BY <2>5, <2>8, <3>1 DEF Asked
  <2>16. Untroubled => RunOf(c)
    BY <2>2 DEF IInv, RunInv
  <2>17. Untroubled' => \/ Heard(c, Answer(c, "result"))'
                        \/ process' = "zombie" /\ ran'[c] = 0 /\ Heard(c, Broken)'
    BY <1>2, <2>10, <2>12 DEF Heard, Broken, NoRpc, Untroubled
  <2>18. Untroubled' => RunOf(c)'
    BY <1>2, <2>2, <2>5, <2>8, <2>15, <2>16, <2>17 DEF RunOf
  <2>19. ~astray' => /\ left' = 0 /\ ~torn' /\ (lock' = None => Quiet')
                     /\ (process' = "zombie" => toServer' = <<>>)
    BY <1>2, <2>1, <2>11, <2>12 DEF PipeInv
  <2>20. ~astray' => lock \in {None, c} /\ lock' \in {None, c}
    BY <1>2, <2>11
  <2>. QED
    BY <1>1, <1>2, <2>1, <2>2, <2>4, <2>6, <2>7, <2>14, <2>18, <2>19, <2>20, CallStep,
       Zenon DEF PipeTypes
<1>. QED
  BY <1>3, <1>4 DEF Deliver

LEMMA ReadFrameKeeps ==
    ASSUME IInv, ReadFrame
    PROVE  IInv'
<1>. DEFINE frame == Head(toClient)
<1>1. PipeTypes
  BY DEF IInv
<1>2. toClient # <<>> /\ Deliver(frame) /\ toClient' = Tail(toClient)
      /\ UNCHANGED <<faults, torn, astray>>
  BY DEF ReadFrame, Deliver
<1>3. frame \in Frame /\ toClient' \in Seq(Frame) /\ faults' \in Nat
  BY <1>1, <1>2 DEF PipeTypes
<1>4. Untroubled' => Untroubled
  BY <1>2 DEF Untroubled
<1>5. ASSUME NEW c \in Reading, ~astray
      PROVE  /\ lock = c /\ toServer = <<>> /\ toClient' = <<>>
             /\ \E body \in {"result", "error"} :
                    toClient = <<Answer(c, body)>> /\ frame = Answer(c, body)
  <2>1. \E body \in {"result", "error"} : Answered(c, body)
    BY <1>2, <1>5, ReaderHas DEF Asked, Lost, Quiet
  <2>2. PICK body \in {"result", "error"} : Answered(c, body)
    BY <2>1
  <2>3. toServer = <<>> /\ toClient = <<Answer(c, body)>>
    BY <2>2 DEF Answered
  <2>4. frame = Answer(c, body) /\ toClient' = <<>>
    BY <1>2, <2>3
  <2>5. lock = c
    BY <1>5, ReaderHas
  <2>. QED
    BY <2>3, <2>4, <2>5
<1>6. \A c \in Reading :
         Untroubled' => frame = Answer(c, "result")
  <2>1. ASSUME NEW c \in Reading, Untroubled PROVE frame = Answer(c, "result")
    <3>1. ~astray /\ c \in Calls /\ call[c].pc = "read" /\ call[c].got = <<>>
      BY <2>1 DEF Untroubled, Reading
    <3>2. RunOf(c)
      BY <2>1, <3>1 DEF IInv, RunInv
    <3>3. Answered(c, "result")
      BY <1>2, <3>1, <3>2 DEF RunOf, Asked, Lost, Heard, Quiet
    <3>. QED
      BY <3>3 DEF Answered
  <2>. QED
    BY <1>4, <2>1
<1>7. ~astray => ~torn
  BY DEF IInv, PipeInv
<1>8. ~astray => left = 0
  BY DEF IInv, PipeInv
<1>9. ~astray => toClient' = <<>>
  <2>1. ASSUME ~astray PROVE \E c \in Reading : TRUE
    BY <1>2, <1>8, <2>1 DEF Deliver
  <2>. QED
    BY <1>5, <2>1
<1>. HIDE DEF frame
<1>. QED
  BY <1>2, <1>3, <1>4, <1>5, <1>6, <1>7, <1>9, DeliverKeeps

LEMMA BrokenIs == Broken \in Frame
BY DEF Broken, Frame, NoRpc, RpcSet

LEMMA ReadEndKeeps ==
    ASSUME IInv, ReadEnd
    PROVE  IInv'
<1>1. PipeTypes
  BY DEF IInv
<1>2. process = "zombie" /\ toClient = <<>> /\ Deliver(Broken)
      /\ UNCHANGED <<toClient, faults, torn, astray>>
  BY DEF ReadEnd, Deliver
<1>3. toClient' \in Seq(Frame) /\ faults' \in Nat
  BY <1>1, <1>2 DEF PipeTypes
<1>4. Untroubled' => Untroubled
  BY <1>2 DEF Untroubled
<1>5. ~astray => ~torn /\ toServer = <<>>
  BY <1>2 DEF IInv, PipeInv
<1>6. \A c \in Reading : Untroubled' => ran[c] = 0
  <2>1. ASSUME NEW c \in Reading, Untroubled PROVE ran[c] = 0
    <3>1. ~astray /\ c \in Calls /\ call[c].pc = "read" /\ call[c].got = <<>>
      BY <2>1 DEF Untroubled, Reading
    <3>2. RunOf(c)
      BY <2>1, <3>1 DEF IInv, RunInv
    <3>3. ~Asked(c) /\ ~Answered(c, "result") /\ ~Heard(c, Answer(c, "result"))
      BY <1>2, <1>5, <3>1 DEF Asked, Answered, Heard
    <3>. QED
      BY <3>1, <3>2, <3>3 DEF RunOf
  <2>. QED
    BY <1>4, <2>1
<1>. QED
  BY <1>2, <1>3, <1>4, <1>5, <1>6, BrokenIs, DeliverKeeps

LEMMA ReadTornKeeps ==
    ASSUME IInv, NEW lost \in BOOLEAN, ReadTorn(lost)
    PROVE  IInv'
<1>1. PipeTypes
  BY DEF IInv
<1>2. torn /\ faults' = faults + 1 /\ toClient # <<>> /\ Deliver(Broken)
      /\ UNCHANGED <<lock, torn, process, owner, toServer, ran, astray>>
      /\ toClient' = IF lost THEN Tail(toClient) ELSE toClient
  BY DEF ReadTorn, Deliver, Fault
<1>3. astray
  BY <1>1, <1>2 DEF IInv, PipeInv, PipeTypes
<1>4. toClient' \in Seq(Frame) /\ faults' \in Nat
  BY <1>1, <1>2 DEF PipeTypes
<1>5. ~Untroubled'
  BY <1>2, <1>3 DEF Untroubled
<1>. QED
  BY <1>2, <1>3, <1>4, <1>5, BrokenIs, DeliverKeeps

-----------------------------------------------------------------------------
(* Contexts, and the server *)

\* Once a context has ended, only the types are left to look at.
LEMMA ContextEnds ==
    ASSUME IInv, NEW c \in Calls, NEW ctx \in BOOLEAN,
           call' = [call EXCEPT ![c] = [call[c] EXCEPT !.ctx = ctx, !.attempt = FALSE]],
           faults' \in Nat, UNCHANGED <<server, pipe>>, astray' = TRUE
    PROVE  IInv'
<1>1. PipeTypes
  BY DEF IInv
<1>. DEFINE n == [call[c] EXCEPT !.ctx = ctx, !.attempt = FALSE]
<1>2. call[c] \in Call /\ call[c].step \in 1 .. Len(Methods[KindOf[c]])
  BY <1>1, CallTypes
<1>3. n \in Call /\ n.step = call[c].step
  BY <1>2 DEF Call
<1>. HIDE DEF n
<1>4. /\ call' \in [Calls -> Call]
      /\ \A d \in Calls : call'[d].step \in 1 .. Len(Methods[KindOf[d]])
  BY <1>1, <1>2, <1>3, OneCall DEF n
<1>5. PipeTypes'
  BY <1>1, <1>4 DEF PipeTypes, server, pipe
<1>. QED
  BY <1>5 DEF IInv, Untroubled

LEMMA DeadlineKeeps ==
    ASSUME IInv, NEW c \in Calls, Deadline(c)
    PROVE  IInv'
<1>1. PipeTypes
  BY DEF IInv
<1>2. call[c] \in Call /\ call[c].ctx \in BOOLEAN
  BY <1>1, CallTypes
<1>3. [call[c] EXCEPT !.attempt = FALSE]
        = [call[c] EXCEPT !.ctx = call[c].ctx, !.attempt = FALSE]
  BY <1>2 DEF Call
<1>4. call' = [call EXCEPT ![c] = [call[c] EXCEPT !.attempt = FALSE]]
  BY <1>1 DEF PipeTypes, Deadline
<1>5. call' = [call EXCEPT ![c] = [call[c] EXCEPT !.ctx = call[c].ctx, !.attempt = FALSE]]
  BY <1>3, <1>4, Zenon
<1>6. astray' = TRUE /\ faults' \in Nat /\ UNCHANGED <<server, pipe>>
  BY <1>1 DEF Deadline, PipeTypes
<1>. QED
  BY <1>2, <1>5, <1>6, ContextEnds

LEMMA CancelKeeps ==
    ASSUME IInv, NEW c \in Calls, Cancel(c)
    PROVE  IInv'
<1>1. PipeTypes
  BY DEF IInv
<1>2. call' = [call EXCEPT ![c] = [call[c] EXCEPT !.ctx = FALSE, !.attempt = FALSE]]
  BY <1>1 DEF PipeTypes, Cancel
<1>3. astray' = TRUE /\ faults' \in Nat /\ UNCHANGED <<server, pipe>>
  BY <1>1 DEF Cancel, PipeTypes, Fault
<1>. QED
  BY <1>2, <1>3, ContextEnds

\* A process that goes takes the requests with it that it has not read.
LEMMA DiesKeeps ==
    ASSUME IInv, Dies, UNCHANGED astray, faults' \in Nat, owner' \in {owner, NoOwner},
           Untroubled' => Untroubled
    PROVE  IInv'
<1>1. PipeTypes
  BY DEF IInv
<1>2. /\ process' = "zombie" /\ toServer' = <<>> /\ owner' \in {owner, NoOwner}
      /\ UNCHANGED <<call, lock, left, torn, toClient, ran, astray>>
  BY DEF Dies, pipe
<1>3. PipeTypes'
  <2>1. NoOwner \in [call : Calls \cup {None}, try : Nat]
    BY DEF NoOwner
  <2>2. toServer' \in Seq(RpcSet)
    BY <1>2
  <2>. QED
    BY <1>1, <1>2, <2>1, <2>2 DEF PipeTypes
<1>4. ASSUME ~astray, NEW c \in Calls
      PROVE  /\ Asked(c) => Lost(c)'
             /\ Lost(c) => Lost(c)'
             /\ \A frame : Heard(c, frame) => Heard(c, frame)'
             /\ \A body : Answered(c, body) => Answered(c, body)'
             /\ \A body : Answer(c, body)' = Answer(c, body)
             /\ ~Asked(c)'
             /\ Quiet => Quiet'
  <2>1. Rpc(c)' = Rpc(c) /\ \A body : Answer(c, body)' = Answer(c, body)
    BY <1>2 DEF Rpc, Answer
  <2>. QED
    BY <1>2, <2>1 DEF Asked, Lost, Heard, Answered, Quiet
<1>5. ASSUME ~astray PROVE PipeInv'
  <2>1. PipeInv
    BY <1>5 DEF IInv
  <2>2. ASSUME NEW c \in Calls PROVE PipeOf(c)'
    <3>1. PipeOf(c)
      BY <2>1 DEF PipeInv
    <3>2. Heard(c, Broken) => Heard(c, Broken)'
      BY <1>2 DEF Heard, Quiet, Broken, NoRpc
    <3>3. \A body : Heard(c, Answer(c, body)) => Heard(c, Answer(c, body))'
      BY <1>2, <1>4, <1>5 DEF Heard, Quiet
    <3>. QED
      BY <1>2, <1>4, <1>5, <3>1, <3>2, <3>3 DEF PipeOf
  <2>3. lock' = None => Quiet'
    BY <1>2, <2>1 DEF PipeInv, Quiet
  <2>. QED
    BY <1>2, <2>1, <2>2, <2>3 DEF PipeInv
<1>6. ASSUME Untroubled PROVE RunInv'
  <2>1. ~astray /\ RunInv
    BY <1>6 DEF IInv, Untroubled
  <2>2. ASSUME NEW c \in Calls PROVE RunOf(c)'
    <3>1. RunOf(c) /\ ran[c] \in Nat
      BY <1>1, <2>1 DEF RunInv, PipeTypes
    <3>2. Heard(c, Broken) => Heard(c, Broken)'
      BY <1>2 DEF Heard, Quiet, Broken, NoRpc
    <3>3. Heard(c, Answer(c, "result")) => Heard(c, Answer(c, "result"))'
      BY <1>2, <1>4, <2>1 DEF Heard, Quiet
    <3>4. call[c].pc = "read" /\ Asked(c) => ran[c] = 0
      BY <3>1 DEF RunOf
    <3>. QED
      BY <1>2, <1>4, <2>1, <3>1, <3>2, <3>3, <3>4 DEF RunOf
  <2>. QED
    BY <2>2 DEF RunInv
<1>. QED
  BY <1>2, <1>3, <1>5, <1>6 DEF IInv

LEMMA KillKeeps ==
    ASSUME IInv, Kill
    PROVE  IInv'
<1>1. Dies /\ owner' = NoOwner /\ UNCHANGED <<astray, faults>>
  BY DEF Kill, trouble
<1>2. faults' \in Nat /\ (Untroubled' => Untroubled)
  BY <1>1 DEF IInv, PipeTypes, Untroubled
<1>. QED
  BY <1>1, <1>2, DiesKeeps

LEMMA ExitKeeps ==
    ASSUME IInv, Exit
    PROVE  IInv'
<1>1. Dies /\ UNCHANGED <<owner, astray>> /\ faults' = faults + 1
  BY DEF Exit, Fault
<1>2. faults \in Nat
  BY DEF IInv, PipeTypes
<1>3. faults' \in Nat /\ ~Untroubled'
  BY <1>1, <1>2 DEF Untroubled
<1>. QED
  BY <1>1, <1>3, DiesKeeps

\* The one request that the server can find is that of the call that reads.
LEMMA ServedIs ==
    ASSUME IInv, ~astray, toServer # <<>>
    PROVE  \E c \in Calls : lock = c /\ call[c].pc = "read" /\ Asked(c)
<1>1. PipeInv /\ lock \in Calls
  BY DEF IInv, PipeInv, PipeTypes, Quiet
<1>2. PICK c \in Calls : lock = c
  BY <1>1
<1>3. PipeOf(c)
  BY <1>1 DEF PipeInv
<1>4. call[c].pc = "read"
  BY <1>2, <1>3 DEF PipeOf, Quiet
<1>5. Asked(c)
  BY <1>3, <1>4 DEF PipeOf, Lost, Heard, Answered, Quiet
<1>. QED
  BY <1>2, <1>4, <1>5

LEMMA ServeKeeps ==
    ASSUME IInv, NEW body \in {"result", "error", "none"}, Serve(body)
    PROVE  IInv'
<1>. DEFINE rpc == Head(toServer)
<1>1. PipeTypes
  BY DEF IInv
<1>2. /\ toServer # <<>> /\ process \in {"up", "pipes"}
      /\ ran' = IF Method(rpc) = "tools/call" THEN [ran EXCEPT ![rpc.call] = @ + 1]
                ELSE ran
      /\ toServer' = Tail(toServer)
      /\ toClient' = IF body = "none" THEN toClient
                     ELSE Append(toClient, [of |-> rpc, body |-> body])
      /\ UNCHANGED <<call, lock, left, torn, process, owner, astray>>
  BY DEF Serve, pipe
<1>3. IF body = "result" THEN faults' = faults ELSE faults' = faults + 1
  BY DEF Serve, Fault
<1>4. rpc \in RpcSet
  BY <1>1, <1>2 DEF PipeTypes
<1>5. ran' \in [Calls -> Nat]
  <2>1. ran \in [Calls -> Nat]
    BY <1>1 DEF PipeTypes
  <2>2. CASE rpc.call \in Calls
    <3>1. ran[rpc.call] + 1 \in Nat
      BY <2>1, <2>2
    <3>. HIDE DEF rpc
    <3>. QED
      BY <1>2, <2>1, <2>2, <3>1
  <2>3. CASE rpc.call \notin Calls
    <3>. HIDE DEF rpc
    <3>. QED
      BY <1>2, <2>1, <2>3
  <2>. QED
    BY <2>2, <2>3
<1>6. toClient' \in Seq(Frame)
  <2>1. CASE body = "none"
    BY <1>1, <1>2, <2>1 DEF PipeTypes
  <2>2. CASE body # "none"
    <3>1. [of |-> rpc, body |-> body] \in Frame
      BY <1>4, <2>2 DEF Frame
    <3>2. toClient \in Seq(Frame) /\ toClient' = Append(toClient, [of |-> rpc, body |-> body])
      BY <1>1, <1>2, <2>2 DEF PipeTypes
    <3>. HIDE DEF rpc
    <3>. QED
      BY <3>1, <3>2
  <2>. QED
    BY <2>1, <2>2
<1>7. faults' \in Nat /\ (Untroubled' => Untroubled /\ body = "result")
  BY <1>1, <1>2, <1>3, SMTT(30) DEF PipeTypes, Untroubled
<1>8. toServer' \in Seq(RpcSet)
  BY <1>1, <1>2 DEF PipeTypes
<1>9. PipeTypes'
  BY <1>1, <1>2, <1>5, <1>6, <1>7, <1>8 DEF PipeTypes
<1>10. CASE astray
  BY <1>2, <1>9, <1>10 DEF IInv, Untroubled
<1>11. CASE ~astray
  <2>1. PICK c \in Calls : lock = c /\ call[c].pc = "read" /\ Asked(c)
    BY <1>2, <1>11, ServedIs
  <2>2. toServer = <<Rpc(c)>> /\ toClient = <<>> /\ call[c].got = <<>>
    BY <2>1 DEF Asked
  <2>3. rpc = Rpc(c) /\ toServer' = <<>>
    BY <1>2, <2>2
  <2>4. toClient' = IF body = "none" THEN <<>> ELSE <<Answer(c, body)>>
    <3>1. [of |-> rpc, body |-> body] = Answer(c, body)
      BY <2>3 DEF Answer
    <3>. QED
      BY <1>2, <2>2, <3>1
  <2>5. \A d \in Calls : Rpc(d)' = Rpc(d) /\ \A b : Answer(d, b)' = Answer(d, b)
    BY <1>2 DEF Rpc, Answer
  <2>6. IF body = "none" THEN Lost(c)' ELSE Answered(c, body)'
    BY <1>2, <2>2, <2>3, <2>4, <2>5 DEF Lost, Answered, Quiet
  <2>7. PipeInv /\ c # None
    BY <1>11 DEF IInv, McpAssumption
  <2>8. ASSUME NEW d \in Calls PROVE PipeOf(d)'
    <3>1. PipeOf(d)
      BY <2>7 DEF PipeInv
    <3>2. CASE d = c
      <4>1. \/ Lost(c)'
            \/ \E b \in {"result", "error"} : Answered(c, b)'
        BY <2>6
      <4>. QED
        BY <1>2, <2>1, <3>1, <3>2, <4>1 DEF PipeOf
    <3>3. CASE d # c
      BY <1>2, <2>1, <3>1, <3>3 DEF PipeOf
    <3>. QED
      BY <3>2, <3>3
  <2>9. PipeInv'
    BY <1>2, <2>1, <2>3, <2>7, <2>8 DEF PipeInv
  <2>10. ASSUME Untroubled', NEW d \in Calls PROVE RunOf(d)'
    <3>1. Untroubled /\ body = "result"
      BY <1>7, <2>10
    <3>2. RunOf(d) /\ PipeOf(d)
      BY <2>7, <3>1 DEF IInv, PipeInv, RunInv
    <3>3. CASE d = c
      <4>1. Answered(c, "result")' /\ ~Asked(c)'
        BY <2>3, <2>6, <3>1 DEF Asked
      <4>2. ran[c] = 0
        <5>1. ran[c] \in Nat
          BY <1>1 DEF PipeTypes
        <5>. QED
          BY <2>1, <3>2, <3>3, <5>1 DEF RunOf
      <4>3. Method(rpc) = "tools/call" <=> KindOf[c] = "invoke"
        <5>1. Method(rpc) = Methods[KindOf[c]][call[c].step]
          BY <2>3 DEF Method, Rpc
        <5>. QED
          BY <1>1, <5>1, CallTypes, Kinds
      <4>4. rpc.call = c
        BY <2>3 DEF Rpc
      <4>. HIDE DEF rpc
      <4>5. ran'[c] = IF KindOf[c] = "invoke" THEN 1 ELSE 0
        BY <1>1, <1>2, <4>2, <4>3, <4>4 DEF PipeTypes
      <4>. QED
        BY <1>2, <2>1, <3>2, <3>3, <4>1, <4>5 DEF RunOf
    <3>4. CASE d # c
      <4>1. rpc.call = c
        BY <2>3 DEF Rpc
      <4>. HIDE DEF rpc
      <4>2. ran'[d] = ran[d]
        BY <1>1, <1>2, <3>4, <4>1 DEF PipeTypes
      <4>3. call[d].pc # "read"
        BY <2>1, <3>2, <3>4 DEF PipeOf
      <4>. QED
        BY <1>2, <3>2, <4>2, <4>3 DEF RunOf
    <3>. QED
      BY <3>3, <3>4
  <2>. QED
    BY <1>2, <1>9, <2>9, <2>10 DEF IInv, RunInv
<1>. QED
  BY <1>10, <1>11

\* Once a frame is unasked, only the types are left to look at.
LEMMA NotifyKeeps ==
    ASSUME IInv, Notify
    PROVE  IInv'
<1>1. PipeTypes
  BY DEF IInv
<1>2. /\ toClient' = Append(toClient, [of |-> NoRpc, body |-> "result"])
      /\ astray' = TRUE /\ faults' = faults + 1
      /\ UNCHANGED <<call, lock, left, torn, process, owner, toServer, ran>>
  BY DEF Notify, pipe, Fault
<1>3. [of |-> NoRpc, body |-> "result"] \in Frame
  BY DEF Frame, NoRpc, RpcSet
<1>4. toClient' \in Seq(Frame)
  BY <1>1, <1>2, <1>3 DEF PipeTypes
<1>5. PipeTypes'
  BY <1>1, <1>2, <1>4 DEF PipeTypes
<1>. QED
  BY <1>2, <1>5 DEF IInv, Untroubled

-----------------------------------------------------------------------------
(* The invariant *)

LEMMA InitHolds == Init => IInv
<1>1. SUFFICES ASSUME Init PROVE IInv
  OBVIOUS
<1>2. NewCall \in Call /\ <<>> \in Seq(RpcSet) /\ <<>> \in Seq(Frame)
  BY DEF NewCall, Call
<1>3. \A c \in Calls : call[c] = NewCall
  BY <1>1 DEF Init
<1>4. /\ NewCall.pc = "idle" /\ NewCall.step = 1 /\ NewCall.ctx = TRUE
      /\ NewCall.got = <<>> /\ NewCall.result = "none"
  BY DEF NewCall
<1>5. ASSUME NEW c \in Calls PROVE call[c].step \in 1 .. Len(Methods[KindOf[c]])
  <2>. DEFINE k == Len(Methods[KindOf[c]])
  <2>1. k \in {1, 2}
    BY Kinds
  <2>. HIDE DEF k
  <2>2. 1 \in 1 .. k
    BY <2>1
  <2>. QED
    BY <1>3, <1>4, <2>2, Zenon DEF k
<1>6. PipeTypes
  BY <1>1, <1>2, <1>5 DEF Init, PipeTypes, NoOwner
<1>7. PipeInv
  BY <1>1, <1>3, <1>4 DEF Init, PipeInv, PipeOf, Quiet, McpAssumption
<1>8. \A c \in Calls : ran[c] = 0
  BY <1>1 DEF Init
<1>9. ASSUME NEW c \in Calls PROVE RunOf(c)
  <2>1. call[c].pc = "idle" /\ ran[c] = 0
    BY <1>3, <1>4, <1>8
  <2>. QED
    BY <2>1 DEF RunOf
<1>. QED
  BY <1>6, <1>7, <1>9 DEF IInv, RunInv

LEMMA NextKeeps == IInv /\ [Next]_vars => IInv'
<1>1. SUFFICES ASSUME IInv, [Next]_vars PROVE IInv'
  OBVIOUS
<1>2. ASSUME NEW c \in Calls, Start(c) PROVE IInv'
  BY <1>1, <1>2, StartKeeps
<1>3. ASSUME NEW c \in Calls, Step(c) PROVE IInv'
  BY <1>1, <1>3, LockKeeps, StartServerKeeps, StartFailsKeeps, WriteKeeps,
     WriteFailsKeeps, ReceiveKeeps, GiveUpKeeps, EndKeeps DEF Step
<1>4. ASSUME NEW c \in Calls, Deadline(c) PROVE IInv'
  BY <1>1, <1>4, DeadlineKeeps
<1>5. ASSUME NEW c \in Calls, Cancel(c) PROVE IInv'
  BY <1>1, <1>5, CancelKeeps
<1>6. ASSUME Read PROVE IInv'
  BY <1>1, <1>6, ReadFrameKeeps, ReadEndKeeps, ReadTornKeeps DEF Read
<1>7. ASSUME Kill PROVE IInv'
  BY <1>1, <1>7, KillKeeps
<1>8. ASSUME Exit PROVE IInv'
  BY <1>1, <1>8, ExitKeeps
<1>9. ASSUME NEW body \in {"result", "error", "none"}, Serve(body) PROVE IInv'
  BY <1>1, <1>9, ServeKeeps
<1>10. ASSUME Notify PROVE IInv'
  BY <1>1, <1>10, NotifyKeeps
<1>11. ASSUME UNCHANGED vars PROVE IInv'
  BY <1>1, <1>11
    DEF vars, IInv, PipeTypes, PipeInv, PipeOf, RunInv, RunOf, Untroubled, Quiet, Asked,
        Lost, Answered, Heard, Answer, Rpc, Broken, NoRpc
<1>. QED
  BY <1>1, <1>2, <1>3, <1>4, <1>5, <1>6, <1>7, <1>8, <1>9, <1>10, <1>11 DEF Next

LEMMA Invariant == Spec => []IInv
BY InitHolds, NextKeeps, PTL DEF Spec

-----------------------------------------------------------------------------
(* The theorems *)

\* The types of mcpClient, of its pipes and of the loop of resilient.
THEOREM TypeCorrect == Spec => []TypeOK
<1>. DEFINE W == watch \in {"none", "armed", "stuck"}
<1>1. Init => W
  BY DEF Init
<1>2. W /\ [Next]_vars => W'
  BY DEF Next, Start, Step, Lock, StartServer, StartFails, Write, WriteFails, Receive,
         GiveUp, End, Deadline, Cancel, Read, ReadFrame, ReadEnd, ReadTorn, Deliver, Kill,
         Exit, Serve, Notify, server, vars
<1>3. IInv /\ W => TypeOK
  BY DEF IInv, TypeOK
<1>. QED
  BY <1>1, <1>2, <1>3, Invariant, PTL DEF Spec

\* As long as no attempt has run out of time and the server writes nothing but
\* answers, a call that resilient returns as a success carries the answer to the last request that call wrote, although
\* rpcStdio compares no ids.
THEOREM OwnAnswerAlways == Spec => []OwnAnswer
<1>1. IInv => OwnAnswer
  BY DEF IInv, PipeInv, PipeOf, OwnAnswer
<1>. QED
  BY <1>1, Invariant, PTL

\* Over a pair of pipes that nothing disturbs, every call that resilient has made
\* has succeeded.
THEOREM PipesServedAlways == Spec => []PipesServed
<1>1. IInv => PipesServed
  BY DEF IInv, RunInv, RunOf, PipesServed, Served
<1>. QED
  BY <1>1, Invariant, PTL

\* resilient makes no call twice as long as no context ends and the server does
\* not fail, in whatever order the calls get the mutex.
THEOREM RunOnceUntroubledAlways == Spec => []RunOnceUntroubled
<1>1. IInv => RunOnceUntroubled
  BY DEF IInv, RunInv, RunOf, RunOnceUntroubled
<1>. QED
  BY <1>1, Invariant, PTL

=============================================================================
