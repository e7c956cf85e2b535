----------------------------- MODULE LatestWins -----------------------------
(***************************************************************************)
(* What the receiver promises of audioCh and decodeCh: a bounded queue     *)
(* that makes room by losing its oldest frame.  Frames are numbered in the *)
(* order they are put.                                                     *)
(***************************************************************************)
EXTENDS Integers, Sequences

CONSTANT Cap   \* frames the channel holds, at least one

VARIABLES newest,  \* the frame put last
          queue,   \* frames put, neither lost nor taken
          got      \* the frame taken last

vars == <<newest, queue, got>>

Init == newest = 0 /\ queue = <<>> /\ got = 0

\* The new frame always enters, at the price of at most the oldest one.
Put == /\ newest' = newest + 1
       /\ \/ Len(queue) < Cap /\ queue' = Append(queue, newest + 1)
          \/ queue # <<>> /\ queue' = Append(Tail(queue), newest + 1)
       /\ UNCHANGED got

Take == /\ queue # <<>>
        /\ got' = Head(queue) /\ queue' = Tail(queue)
        /\ UNCHANGED newest

Spec == Init /\ [][Put \/ Take]_vars

\* Frames leave in the order they were put, none twice, and there is never
\* more than Cap of them.
Ordered == /\ Len(queue) <= Cap
           /\ \A i \in 1 .. Len(queue) : got < queue[i] /\ queue[i] <= newest
           /\ \A i, j \in 1 .. Len(queue) : i < j => queue[i] < queue[j]

\* The newest frame is never lost.
NewestKept == IF queue = <<>> THEN got = newest ELSE queue[Len(queue)] = newest
=============================================================================
