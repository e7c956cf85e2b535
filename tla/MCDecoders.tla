----------------------------- MODULE MCDecoders -----------------------------
(* Inputs of the decoders: where they have edges. *)
EXTENDS Decoders

\* The equator, the end of the zones 59 and 40, the last zone; the antimeridian.
MCStarts ==
    {[lat |-> la, lon |-> lo, north |-> n, east |-> 540,
      alt |-> 975, up |-> 25, gnss |-> 150, vel |-> <<-400, 120, -640>>] :
        la \in {700, -421000, 2130000, 3503500}, lo \in {-1500, 7249000}, n \in {-540, 540}}

Zeros(n) == [i \in 1 .. n |-> 0]
Ones(n) == [i \in 1 .. n |-> 1]
Tail5(n) == [i \in 1 .. 5 |-> (n \div 2 ^ (i - 1)) % 2]
MCJitters == {-1, 0, 1}
\* Noise: none, half a flag that shares a zero, a flag of its own with a runt, an
\* abort, and more than a frame; a message too long before another; the longest one
\* and one a bit longer; messages that end in every number of ones.
MCTransmissions ==
    [noise : {<<>>, <<0, 1, 1, 1, 1, 1, 1>>, Flag \o Zeros(40)},
     bodies : {<<Ones(38)>>, <<Zeros(38), Ones(38)>>}]
    \cup [noise : {Ones(8), Zeros(85)}, bodies : {<<Zeros(62), Ones(38)>>}]
    \cup {[noise |-> <<>>, bodies |-> <<Zeros(33) \o Ones(20), Zeros(34) \o Ones(20)>>]}
    \cup {[noise |-> Ones(3), bodies |-> <<Ones(33) \o Tail5(n)>>] : n \in {0, 1, 15, 16, 23, 30}}

MCLevels == {-8059, -8058, -4063, -2016, -500, -123, -1, 0, 1, 123, 124, 891, 892, 3900, 8059, 20000, 32767}
=============================================================================
