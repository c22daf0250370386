---------------------------- MODULE FifoChannels ----------------------------
(***************************************************************************)
(* What the event manager promises to its users: a fixed family of         *)
(* unbounded channels.  Whatever is put on a channel is taken from it once *)
(* and in the order it was put, and nothing else ever leaves a channel.    *)
(***************************************************************************)
EXTENDS Naturals, Sequences

CONSTANTS NQueues,  \* number of channels
          Events    \* what a channel carries

VARIABLE channel    \* channel[q]: everything put on q and not yet taken

Init == channel = [q \in 1..NQueues |-> <<>>]

Put(q, e) == channel' = [channel EXCEPT ![q] = Append(@, e)]

Take(q) == /\ channel[q] # <<>>
           /\ channel' = [channel EXCEPT ![q] = Tail(@)]

Next == \E q \in 1..NQueues : Take(q) \/ \E e \in Events : Put(q, e)

Spec == Init /\ [][Next]_channel
=============================================================================
