-------------------------------- MODULE ModeS -------------------------------
(***************************************************************************)
(* The ADS-B demodulator (internal/adsb/demod.go) on a stream of samples   *)
(* cut into blocks.  A sample is its number in the air; a window of        *)
(* FrameSamples of them is a frame if they are the consecutive samples of  *)
(* a frame that was sent: what preambleMatch, sliceFrame and crc accept.   *)
(* Frames that overlap in the air destroy each other and are not sent.     *)
(***************************************************************************)
EXTENDS Integers, Sequences

CONSTANTS FrameSamples,   \* 240
          MaxAir,         \* bound: samples in the air
          MaxBlock        \* bound: samples of a block

ASSUME ModeSAssumption == FrameSamples \in Nat \ {0} /\ MaxAir \in Nat /\ MaxBlock \in Nat

VARIABLES sent,      \* first samples of the frames in the air
          heard,     \* samples received or lost so far
          tail,      \* d.tail
          mag,       \* the block in processing, behind the tail
          index,     \* Process's index in it, from 1; 0 between two blocks
          emitted,   \* frames emitted, by their first samples
          unbroken   \* history: the first sample of which none was lost since

modeSVars == <<sent, heard, tail, mag, index, emitted, unbroken>>

Apart(S) == \A p, q \in S : p < q => p + FrameSamples <= q

ModeSInit ==
    /\ sent \in {S \in SUBSET (1 .. MaxAir) : Apart(S)}
    /\ heard = 0 /\ tail = <<>> /\ mag = <<>> /\ index = 0 /\ emitted = <<>>
    /\ unbroken = 1

\* feedADSB: Process takes a block.
TakeBlock ==
    \E n \in 1 .. MaxBlock :
        /\ index = 0 /\ heard + n <= MaxAir
        /\ mag' = tail \o [i \in 1 .. n |-> heard + i]
        /\ heard' = heard + n /\ index' = 1
        /\ UNCHANGED <<sent, tail, emitted, unbroken>>

\* The radio drops a block it has no room for.
LoseBlock ==
    \E n \in 1 .. MaxBlock :
        /\ index = 0 /\ heard + n <= MaxAir
        /\ heard' = heard + n /\ unbroken' = heard + n + 1
        /\ UNCHANGED <<sent, tail, mag, index, emitted>>

WindowLeft == index > 0 /\ index + FrameSamples - 1 <= Len(mag)

FrameAt(i) == /\ mag[i] \in sent
              /\ \A k \in 0 .. FrameSamples - 1 : mag[i + k] = mag[i] + k

\* One turn of Process's loop: emit a frame and go on behind it, or look one
\* sample further.
Found ==
    /\ WindowLeft /\ FrameAt(index)
    /\ emitted' = Append(emitted, mag[index])
    /\ index' = index + FrameSamples
    /\ UNCHANGED <<sent, heard, tail, mag, unbroken>>

NotFound ==
    /\ WindowLeft /\ ~FrameAt(index)
    /\ index' = index + 1
    /\ UNCHANGED <<sent, heard, tail, mag, emitted, unbroken>>

KeepShort == FrameSamples - 2
Keep == FrameSamples - 1

Last(q, n) == IF Len(q) <= n THEN q ELSE SubSeq(q, Len(q) - n + 1, Len(q))

EndBlock ==
    /\ index > 0 /\ ~WindowLeft
    /\ tail' = Last(mag, Keep) /\ mag' = <<>> /\ index' = 0
    /\ UNCHANGED <<sent, heard, emitted, unbroken>>

\* resetDecoders, when the service or the tuning changes.
ResetDemod ==
    /\ index = 0 /\ tail # <<>>
    /\ tail' = <<>> /\ unbroken' = heard + 1
    /\ UNCHANGED <<sent, heard, mag, index, emitted>>

ModeSNext == TakeBlock \/ LoseBlock \/ Found \/ NotFound \/ EndBlock \/ ResetDemod

ModeSSpec == ModeSInit /\ [][ModeSNext]_modeSVars

-----------------------------------------------------------------------------
\* No frame is emitted twice, and none out of order, although the tail makes
\* the demodulator look again at samples it has seen.
EmittedOnce == \A a, b \in 1 .. Len(emitted) : a < b => emitted[a] < emitted[b]

\* A frame is found wherever the block boundaries cut it, if no sample of it
\* was lost.
NoneMissed ==
    index = 0 => \A p \in sent : unbroken <= p /\ p + FrameSamples - 1 <= heard
                => \E a \in 1 .. Len(emitted) : emitted[a] = p

FramesFoundOnce == EmittedOnce /\ NoneMissed
=============================================================================
