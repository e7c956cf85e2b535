-------------------------------- MODULE MuLaw -------------------------------
(***************************************************************************)
(* linearToMulaw (internal/server/webrtc.go) on 16-bit integers, and the   *)
(* G.711 decoder a browser plays its bytes with.                           *)
(***************************************************************************)
EXTENDS Integers

CONSTANT Levels   \* the levels a block of samples goes between

VARIABLES level,  \* history: the mean of the last six samples
          byte    \* what was sent for them

mulawVars == <<level, byte>>

\* int16: sums and negations wrap.
Int16(v) == ((v + 32768) % 65536) - 32768

Bias == 132
MulawMax == 8191

\* -sample, and its wrap at the smallest.
Magnitude(sample) ==
    IF sample >= 0 THEN sample
    ELSE IF Int16(0 - sample) < 0 THEN MulawMax ELSE 0 - sample

Clip(v) == IF v > MulawMax THEN MulawMax ELSE v

\* The highest bit set from 2^14 down to 2^8, as 7 down to 1, else 0.
ExponentFrom6(v) ==
    IF \E e \in 1 .. 6 : (v \div 2 ^ (e + 8)) % 2 = 1
    THEN CHOOSE e \in 1 .. 6 : /\ (v \div 2 ^ (e + 8)) % 2 = 1
                               /\ \A d \in e + 1 .. 6 : (v \div 2 ^ (d + 8)) % 2 = 0
    ELSE 0
Exponent(v) ==
    IF \E e \in 1 .. 7 : (v \div 2 ^ (e + 7)) % 2 = 1
    THEN CHOOSE e \in 1 .. 7 : /\ (v \div 2 ^ (e + 7)) % 2 = 1
                               /\ \A d \in e + 1 .. 7 : (v \div 2 ^ (d + 7)) % 2 = 0
    ELSE 0

\* The byte before its complement: sign, exponent, mantissa.  >> is arithmetic.
LinearToMulaw(sample) ==
    LET v == Clip(Int16(Magnitude(sample) + Bias))
        e == Exponent(v)
    IN [negative |-> sample < 0, exponent |-> e, mantissa |-> (v \div 2 ^ (e + 3)) % 16]

\* pcm48ToMulaw8k: six samples become one; Go's division truncates.
Sixth(sum) == IF sum < 0 THEN 0 - ((0 - sum) \div 6) ELSE sum \div 6
Pcm48ToMulaw8k ==
    \E a, b \in Levels, n \in 0 .. 6 :
        /\ level' = Sixth(n * a + (6 - n) * b)
        /\ byte' = LinearToMulaw(level')

MuLawInit == level = 0 /\ byte = LinearToMulaw(0)

-----------------------------------------------------------------------------
\* The decoder of G.711, in the browser.
Decoded(m) ==
    LET v == (m.mantissa * 2 + 33) * 2 ^ (m.exponent + 2) - Bias
    IN IF m.negative THEN 0 - v ELSE v

Distance(a, b) == IF a > b THEN a - b ELSE b - a

\* The browser plays every level up to a quarter of the full scale as it was,
\* within half a step of its segment, on both sides of zero and across the
\* segments' ends.  (Above it the clip is 13 bits wide, as README says.)
QuietPlaysTrue ==
    level \in -8059 .. 8059 =>
        Distance(Decoded(byte), level) * 32 <= Distance(level, 0) + Bias
=============================================================================
