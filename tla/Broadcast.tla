------------------------------ MODULE Broadcast ------------------------------
(***************************************************************************)
(* What the hub promises the clients it has registered, without channel,   *)
(* loop, snapshot or lock: messages are given out one after the other, and *)
(* none is begun before every client has the one before; who joins gets    *)
(* every message begun from then on, once and in order; anyone may leave.  *)
(***************************************************************************)
EXTENDS Naturals

CONSTANT Conns

VARIABLES head,  \* the number of the message that is being given out
          last   \* the last message of each client that has joined, or what head was then

broadcastVars == <<head, last>>

Joined == DOMAIN last

BroadcastInit == head = 0 /\ last = [c \in {} |-> 0]

Join(c) == /\ c \notin Joined
           /\ last' = [d \in Joined \cup {c} |-> IF d = c THEN head ELSE last[d]]
           /\ UNCHANGED head

Begin == /\ \A c \in Joined : last[c] = head
         /\ head' = head + 1
         /\ UNCHANGED last

Give(c) == /\ c \in Joined
           /\ last[c] < head
           /\ last' = [last EXCEPT ![c] = @ + 1]
           /\ UNCHANGED head

Leave(S) == /\ last' = [c \in Joined \ S |-> last[c]]
            /\ UNCHANGED head

BroadcastNext == \/ \E c \in Conns : Join(c) \/ Give(c)
                 \/ \E S \in SUBSET Conns : Leave(S)
                 \/ Begin

BroadcastSpec == BroadcastInit /\ [][BroadcastNext]_broadcastVars
=============================================================================
