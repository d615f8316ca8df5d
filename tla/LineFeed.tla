------------------------------ MODULE LineFeed -------------------------------
(***************************************************************************)
(* What the collector promises the one consumer of its output: a bounded   *)
(* first-in first-out channel, closed once and never sent to after that.   *)
(***************************************************************************)
EXTENDS Naturals, Sequences

CONSTANTS Entries,   \* what the channel carries
          Capacity

VARIABLES output,  \* the channel
          closed   \* has the collector closed it?

feedVars == <<output, closed>>

FeedInit == output = <<>> /\ closed = FALSE

Send(e) == /\ ~closed
           /\ Len(output) < Capacity
           /\ output' = Append(output, e)
           /\ UNCHANGED closed

Receive == /\ output # <<>>
           /\ output' = Tail(output)
           /\ UNCHANGED closed

CloseFeed == /\ ~closed
             /\ closed' = TRUE
             /\ UNCHANGED output

FeedNext == (\E e \in Entries : Send(e)) \/ Receive \/ CloseFeed

FeedSpec == FeedInit /\ [][FeedNext]_feedVars
=============================================================================
