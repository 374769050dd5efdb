-------------------------- MODULE WebhookDelivery --------------------------
(***************************************************************************)
(* What the webhook worker promises about one job, whatever the queue, the *)
(* goroutines and the restarts do: its callback is sent a bounded number   *)
(* of times, not again once the receiver has given its verdict, and the    *)
(* job ends, if it ends, the way the verdict says, once.  Nothing is       *)
(* promised about ending at all.                                           *)
(***************************************************************************)
EXTENDS Naturals

CONSTANTS
    Jobs,
    MaxPosts    \* callbacks sent for a job, at most

VARIABLES
    fate,      \* job -> none, open, done, failed or dead
    verdict,   \* job -> what the receiver has said: none, acked or refused
    posts      \* job -> callbacks sent

vars == <<fate, verdict, posts>>

Init ==
    /\ fate = [j \in Jobs |-> "none"]
    /\ verdict = [j \in Jobs |-> "none"]
    /\ posts = [j \in Jobs |-> 0]

\* A request is accepted and stays open.
Accept(j) ==
    /\ fate[j] = "none"
    /\ fate' = [fate EXCEPT ![j] = "open"]
    /\ UNCHANGED <<verdict, posts>>

\* An operation that is over when it is recorded: a sync reply, or an
\* operator's test or replay with the one callback it sent.
Record(j) ==
    /\ fate[j] = "none"
    /\ \/ /\ fate' = [fate EXCEPT ![j] = "done"]
          /\ UNCHANGED <<verdict, posts>>
       \/ /\ posts' = [posts EXCEPT ![j] = 1]
          /\ \E v \in {"none", "acked", "refused"} :
               /\ verdict' = [verdict EXCEPT ![j] = v]
               /\ fate' = [fate EXCEPT ![j] = IF v = "acked" THEN "done"
                                              ELSE "failed"]

\* One callback of an open job, and what the receiver says to it.
Send(j) ==
    /\ fate[j] = "open"
    /\ verdict[j] = "none"
    /\ posts[j] < MaxPosts
    /\ posts' = [posts EXCEPT ![j] = @ + 1]
    /\ \E v \in {"none", "acked", "refused"} :
         verdict' = [verdict EXCEPT ![j] = v]
    /\ UNCHANGED fate

\* The URL is not one the gateway may call.
Block(j) ==
    /\ fate[j] = "open"
    /\ verdict[j] = "none"
    /\ verdict' = [verdict EXCEPT ![j] = "refused"]
    /\ UNCHANGED <<fate, posts>>

\* An open job ends the way its receiver, or its chat when nothing is sent,
\* says.
End(j) ==
    /\ fate[j] = "open"
    /\ \/ /\ verdict[j] = "acked" \/ posts[j] = 0
          /\ fate' = [fate EXCEPT ![j] = "done"]
       \/ /\ posts[j] = 0
          /\ fate' = [fate EXCEPT ![j] = "failed"]
       \/ /\ \/ verdict[j] = "refused"
             \/ /\ verdict[j] = "none"
                /\ posts[j] = MaxPosts
          /\ fate' = [fate EXCEPT ![j] = "dead"]
    /\ UNCHANGED <<verdict, posts>>

Next == \E j \in Jobs : Accept(j) \/ Record(j) \/ Send(j) \/ Block(j) \/ End(j)

Spec == Init /\ [][Next]_vars
=============================================================================
