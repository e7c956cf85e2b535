--------------------------- MODULE DecodersProofs ---------------------------
(***************************************************************************)
(* Proofs about Decoders, for every value of its constants: a Mode S frame *)
(* is found once wherever the blocks cut it; an aircraft of the table is   *)
(* where it was at its last position message; a report takes nothing from  *)
(* the vessel table; the voice is heard as it was sent.                    *)
(***************************************************************************)
EXTENDS Decoders, FiniteSetTheorems, TLAPS

F == FrameSamples

USE ModeSAssumption
USE DEF modeSVars, F

-----------------------------------------------------------------------------
(* The demodulator                                                          *)

ModeSType ==
    /\ sent \subseteq Nat /\ Apart(sent)
    /\ heard \in Nat /\ index \in Nat /\ unbroken \in Nat
    /\ tail \in Seq(Nat) /\ mag \in Seq(Nat) /\ emitted \in Seq(Nat)

\* Samples that grow up to hi.
Growing(q, hi) == /\ \A i \in 1 .. Len(q) : q[i] <= hi
                  /\ \A i, j \in 1 .. Len(q) : i < j => q[i] < q[j]

\* What q holds of the samples from lo to heard, the last one at its end.
Holds(q, lo) == \A x \in Nat : unbroken <= x /\ lo <= x /\ x <= heard
                    => heard - x < Len(q) /\ q[Len(q) - (heard - x)] = x

\* Every frame emitted began before the samples still to be looked at, which
\* are those from index on and those too close to the end for a window.
Past(q, from) == \A a \in 1 .. Len(emitted), i \in 1 .. Len(q) :
                    i >= from \/ i + F - 1 > Len(q) => emitted[a] < q[i]

Emitted(p) == \E a \in 1 .. Len(emitted) : emitted[a] = p

\* p's samples are in the block, and its window is still to come.
Ahead(p) == \E i \in 1 .. Len(mag) :
               /\ i >= index /\ i + F - 1 <= Len(mag)
               /\ \A k \in 0 .. F - 1 : mag[i + k] = p + k

RestInv == index = 0 =>
    /\ Growing(tail, heard) /\ Len(tail) <= F - 1
    /\ Holds(tail, heard - F + 2)
    /\ Past(tail, 1)

BlockInv == index > 0 =>
    /\ Growing(mag, heard)
    /\ \E lo \in Int : lo <= heard - F + 2 /\ Holds(mag, lo)
    /\ Past(mag, index)

FoundInv == \A p \in sent : unbroken <= p /\ p + F - 1 <= heard
                => Emitted(p) \/ (index > 0 /\ Ahead(p))

ModeSInv ==
    /\ ModeSType
    /\ \A a \in 1 .. Len(emitted) : emitted[a] <= heard
    /\ EmittedOnce
    /\ RestInv /\ BlockInv /\ FoundInv

LEMMA ModeSInitInv == ModeSInit => ModeSInv
<1> SUFFICES ASSUME ModeSInit PROVE ModeSInv
    OBVIOUS
<1>1. ModeSType
  BY DEF ModeSInit, ModeSType
<1>2. RestInv
  BY DEF ModeSInit, RestInv, Growing, Holds, Past
<1>3. FoundInv
  BY <1>1 DEF ModeSInit, FoundInv, ModeSType
<1> QED
  BY <1>1, <1>2, <1>3 DEF ModeSInit, ModeSInv, BlockInv, EmittedOnce

-----------------------------------------------------------------------------
LEMMA AppendFacts ==
    ASSUME NEW q \in Seq(Nat), NEW x \in Nat
    PROVE  /\ Append(q, x) \in Seq(Nat) /\ Len(Append(q, x)) = Len(q) + 1 /\ Len(q) \in Nat
           /\ Append(q, x)[Len(q) + 1] = x
           /\ \A i \in 1 .. Len(q) : Append(q, x)[i] = q[i]
  OBVIOUS

LEMMA ConcatFacts ==
    ASSUME NEW q \in Seq(Nat), NEW b \in Seq(Nat)
    PROVE  /\ q \o b \in Seq(Nat) /\ Len(q \o b) = Len(q) + Len(b) /\ Len(q) \in Nat
           /\ \A i \in 1 .. Len(q) : (q \o b)[i] = q[i]
           /\ \A i \in 1 .. Len(b) : (q \o b)[Len(q) + i] = b[i]
  OBVIOUS

\* What TakeBlock puts behind the tail.
LEMMA BlockFacts ==
    ASSUME NEW n \in Nat, NEW h \in Nat
    PROVE  LET b == [i \in 1 .. n |-> h + i]
           IN b \in Seq(Nat) /\ Len(b) = n /\ \A i \in 1 .. n : b[i] = h + i
  OBVIOUS

LEMMA LastFacts ==
    ASSUME NEW q \in Seq(Nat), NEW n \in Nat
    PROVE  /\ Last(q, n) \in Seq(Nat) /\ Len(Last(q, n)) \in Nat /\ Len(q) \in Nat
           /\ Len(Last(q, n)) = IF Len(q) <= n THEN Len(q) ELSE n
           /\ \A i \in 1 .. Len(Last(q, n)) : Last(q, n)[i] = q[Len(q) - Len(Last(q, n)) + i]
<1>1. CASE Len(q) <= n
  BY <1>1 DEF Last
<1>2. CASE Len(q) > n
  <2> DEFINE s == SubSeq(q, Len(q) - n + 1, Len(q))
  <2>1. s \in Seq(Nat) /\ Len(s) = n /\ \A i \in 1 .. n : s[i] = q[Len(q) - n + i]
    BY <1>2
  <2>2. Last(q, n) = s
    BY <1>2 DEF Last
  <2> QED
    BY <1>2, <2>1, <2>2
<1> QED
  BY <1>1, <1>2, SMTT(30)

-----------------------------------------------------------------------------
LEMMA TakeBlockInv == ModeSInv /\ TakeBlock => ModeSInv'
<1> SUFFICES ASSUME ModeSInv, TakeBlock PROVE ModeSInv'
    OBVIOUS
<1>1. PICK n \in Nat :
         /\ index = 0 /\ index' = 1 /\ heard' = heard + n
         /\ mag' = tail \o [i \in 1 .. n |-> heard + i]
         /\ sent' = sent /\ tail' = tail /\ emitted' = emitted /\ unbroken' = unbroken
  BY DEF TakeBlock
<1>2. /\ ModeSType /\ Growing(tail, heard) /\ Len(tail) <= F - 1
      /\ Holds(tail, heard - F + 2) /\ Past(tail, 1)
      /\ \A a \in 1 .. Len(emitted) : emitted[a] \in Nat /\ emitted[a] <= heard
      /\ Len(emitted) \in Nat /\ heard \in Nat /\ unbroken \in Nat
  BY <1>1, SMTT(30) DEF ModeSInv, RestInv, ModeSType
<1>3. /\ mag' \in Seq(Nat) /\ Len(mag') = Len(tail) + n /\ Len(tail) \in Nat /\ Len(mag') \in Nat
      /\ \A i \in 1 .. Len(tail) : mag'[i] = tail[i] /\ tail[i] \in Nat
      /\ \A i \in 1 .. n : mag'[Len(tail) + i] = heard + i
  <2> DEFINE b == [i \in 1 .. n |-> heard + i]
  <2>1. b \in Seq(Nat) /\ Len(b) = n /\ \A i \in 1 .. n : b[i] = heard + i
    BY <1>2, BlockFacts DEF ModeSType
  <2>2. mag' = tail \o b /\ tail \in Seq(Nat)
    BY <1>1, <1>2 DEF ModeSType
  <2> HIDE DEF b
  <2>3. /\ mag' \in Seq(Nat) /\ Len(mag') = Len(tail) + n /\ Len(tail) \in Nat
        /\ \A i \in 1 .. Len(tail) : mag'[i] = tail[i]
        /\ \A i \in 1 .. n : mag'[Len(tail) + i] = heard + i
    BY <2>1, <2>2, ConcatFacts
  <2> QED
    BY <2>2, <2>3
<1>num. /\ heard' = heard + n /\ heard \in Nat /\ unbroken' = unbroken /\ unbroken \in Nat
        /\ Len(mag') = Len(tail) + n /\ Len(tail) \in Nat /\ Len(mag') \in Nat
  BY <1>1, <1>2, <1>3
<1>4. \A i \in 1 .. Len(mag') : i \in 1 .. Len(tail) \/ (i - Len(tail) \in 1 .. n /\ mag'[i] = heard + (i - Len(tail)))
  <2> TAKE i \in 1 .. Len(mag')
  <2>1. CASE i > Len(tail)
    <3>1. i - Len(tail) \in 1 .. n /\ Len(tail) + (i - Len(tail)) = i
      BY <1>3, <2>1
    <3> QED
      BY <1>3, <3>1
  <2> QED
    BY <1>3, <2>1
<1>5. ModeSType'
  BY <1>1, <1>2, <1>3 DEF ModeSType
<1>6. Growing(mag, heard)'
  <2>1. ASSUME NEW i \in 1 .. Len(mag')
        PROVE  mag'[i] <= heard'
    BY <1>1, <1>2, <1>3, <1>4, SMTT(30) DEF Growing, ModeSType
  <2>2. ASSUME NEW i \in 1 .. Len(mag'), NEW j \in 1 .. Len(mag'), i < j
        PROVE  mag'[i] < mag'[j]
    <3>1. CASE j \in 1 .. Len(tail)
      <4>1. i \in 1 .. Len(tail)
        BY <2>2, <3>1, <1>3
      <4>2. tail[i] < tail[j]
        BY <1>2, <2>2, <3>1, <4>1 DEF Growing
      <4> QED
        BY <1>3, <3>1, <4>1, <4>2
    <3>2. CASE j - Len(tail) \in 1 .. n /\ mag'[j] = heard + (j - Len(tail))
      <4>1. CASE i \in 1 .. Len(tail)
        <5>1. mag'[i] = tail[i] /\ tail[i] \in Nat /\ tail[i] <= heard
          BY <1>2, <1>3, <4>1 DEF Growing
        <5> QED
          BY <1>2, <1>3, <3>2, <5>1, SMTT(30)
      <4>2. CASE mag'[i] = heard + (i - Len(tail))
        BY <1>2, <1>3, <2>2, <3>2, <4>2 DEF ModeSType
      <4> QED
        BY <1>4, <4>1, <4>2
    <3> QED
      BY <1>4, <3>1, <3>2
  <2> QED
    BY <2>1, <2>2 DEF Growing
<1>7. Holds(mag, heard - F + 2)' /\ \A x \in Nat : unbroken <= x /\ heard - F + 2 <= x /\ x <= heard'
         => heard' - x < Len(mag') /\ mag'[Len(mag') - (heard' - x)] = x
  <2>1. ASSUME NEW x \in Nat, unbroken <= x, heard - F + 2 <= x, x <= heard'
        PROVE  heard' - x < Len(mag') /\ mag'[Len(mag') - (heard' - x)] = x
    <3>1. CASE x <= heard
      <4>1. heard - x < Len(tail) /\ tail[Len(tail) - (heard - x)] = x
        BY <1>2, <2>1, <3>1 DEF Holds
      <4>2. /\ heard' - x = (heard - x) + n
            /\ Len(mag') - (heard' - x) = Len(tail) - (heard - x)
            /\ Len(tail) - (heard - x) \in 1 .. Len(tail)
        BY <1>num, <3>1, <4>1
      <4>3. mag'[Len(tail) - (heard - x)] = x
        BY <1>3, <4>1, <4>2
      <4> QED
        BY <1>num, <4>1, <4>2, <4>3
    <3>2. CASE x > heard
      <4>1. /\ x - heard \in 1 .. n /\ heard + (x - heard) = x
            /\ Len(mag') - (heard' - x) = Len(tail) + (x - heard)
            /\ heard' - x < Len(mag')
        BY <1>num, <2>1, <3>2
      <4> QED
        BY <1>3, <4>1
    <3> QED
      BY <1>2, <2>1, <3>1, <3>2 DEF ModeSType
  <2>2. heard - F + 2 <= heard' - F + 2
    BY <1>1, <1>2 DEF ModeSType
  <2>3. Holds(mag, heard - F + 2)'
    <3>1. ASSUME NEW x \in Nat, unbroken' <= x, heard' - F + 2 <= x, x <= heard'
          PROVE  heard' - x < Len(mag') /\ mag'[Len(mag') - (heard' - x)] = x
      <4>1. unbroken <= x /\ heard - F + 2 <= x
        BY <1>1, <1>2, <3>1
      <4> QED
        BY <2>1, <3>1, <4>1
    <3> QED
      BY <3>1 DEF Holds
  <2> QED
    BY <2>1, <2>3
<1>8. Past(mag, index)'
  <2>1. ASSUME NEW a \in 1 .. Len(emitted), NEW i \in 1 .. Len(mag')
        PROVE  emitted[a] < mag'[i]
    <3>1. CASE i \in 1 .. Len(tail)
      <4>1. emitted[a] < tail[i]
        BY <1>2, <3>1 DEF Past
      <4> QED
        BY <1>3, <3>1, <4>1
    <3>2. CASE i - Len(tail) \in 1 .. n /\ mag'[i] = heard + (i - Len(tail))
      <4>1. emitted[a] \in Nat /\ emitted[a] <= heard
        BY <1>2
      <4> QED
        BY <1>2, <1>3, <3>2, <4>1, SMTT(30)
    <3> QED
      BY <1>4, <3>1, <3>2
  <2>2. \A a \in 1 .. Len(emitted'), i \in 1 .. Len(mag') : emitted'[a] < mag'[i]
    BY <1>1, <2>1
  <2> QED
    BY <2>2 DEF Past
<1>9. FoundInv'
  <2> SUFFICES ASSUME NEW p \in sent', unbroken' <= p, p + F - 1 <= heard'
               PROVE  Emitted(p)' \/ (index' > 0 /\ Ahead(p)')
    BY DEF FoundInv
  <2>0. p \in sent /\ unbroken <= p /\ index' > 0
    BY <1>1
  <2>1. p \in Nat
    BY <1>2, <2>0 DEF ModeSType
  <2>2. CASE p + F - 1 <= heard
    <3>1. Emitted(p)
      BY <1>1, <2>0, <2>2 DEF ModeSInv, FoundInv
    <3>2. emitted' = emitted
      BY <1>1
    <3> QED
      BY <3>1, <3>2 DEF Emitted
  <2>3. CASE p + F - 1 > heard
    <3> DEFINE i == Len(mag') - (heard' - p)
    <3>1. ASSUME NEW k \in 0 .. F - 1
          PROVE  mag'[i + k] = p + k /\ heard' - (p + k) < Len(mag')
      <4>1. /\ p + k \in Nat /\ unbroken <= p + k /\ heard - F + 2 <= p + k /\ p + k <= heard'
            /\ Len(mag') - (heard' - (p + k)) = i + k
        BY <1>num, <2>0, <2>1, <2>3
      <4> QED
        BY <1>7, <4>1
    <3>2. i \in 1 .. Len(mag') /\ i >= 1 /\ i + F - 1 <= Len(mag')
      <4>1. heard' - (p + 0) < Len(mag')
        BY <3>1
      <4> QED
        BY <1>num, <2>1, <4>1
    <3>3. i >= index' /\ \A k \in 0 .. F - 1 : mag'[i + k] = p + k
      BY <1>1, <3>1, <3>2
    <3> HIDE DEF i
    <3> QED
      BY <2>0, <3>2, <3>3 DEF Ahead
  <2> QED
    BY <1>num, <2>1, <2>2, <2>3
<1>10. BlockInv'
  <2>1. heard' - F + 2 \in Int
    BY <1>5 DEF ModeSType
  <2>2. \E lo \in Int : lo <= heard' - F + 2 /\ Holds(mag, lo)'
    BY <1>7, <2>1
  <2> QED
    BY <1>6, <1>8, <2>2 DEF BlockInv
<1>11. RestInv' /\ EmittedOnce' /\ \A a \in 1 .. Len(emitted') : emitted'[a] <= heard'
  BY <1>1, <1>2 DEF RestInv, ModeSInv, EmittedOnce, ModeSType
<1> QED
  BY <1>5, <1>9, <1>10, <1>11 DEF ModeSInv

LEMMA LoseBlockInv == ModeSInv /\ LoseBlock => ModeSInv'
<1> SUFFICES ASSUME ModeSInv, LoseBlock PROVE ModeSInv'
    OBVIOUS
<1>1. PICK n \in Nat :
         /\ index = 0 /\ index' = 0 /\ heard' = heard + n /\ unbroken' = heard + n + 1
         /\ mag' = mag /\ sent' = sent /\ tail' = tail /\ emitted' = emitted
  BY DEF LoseBlock
<1>2. ModeSType /\ Len(tail) \in Nat /\ Len(emitted) \in Nat
  BY DEF ModeSInv, ModeSType
<1>3. ModeSType'
  BY <1>1, <1>2 DEF ModeSType
<1>4. RestInv'
  <2>1. Growing(tail, heard)'
    BY <1>1, <1>2 DEF ModeSInv, RestInv, Growing, ModeSType
  <2>2. Holds(tail, heard - F + 2)'
    BY <1>1, <1>2 DEF Holds, ModeSType
  <2>3. Past(tail, 1)'
    BY <1>1 DEF ModeSInv, RestInv, Past
  <2> QED
    BY <1>1, <2>1, <2>2, <2>3 DEF ModeSInv, RestInv
<1>5. FoundInv'
  BY <1>1, <1>2 DEF FoundInv, ModeSType
<1>6. BlockInv' /\ EmittedOnce' /\ \A a \in 1 .. Len(emitted') : emitted'[a] <= heard'
  BY <1>1, <1>2 DEF BlockInv, ModeSInv, EmittedOnce, ModeSType
<1> QED
  BY <1>3, <1>4, <1>5, <1>6 DEF ModeSInv

LEMMA ResetDemodInv == ModeSInv /\ ResetDemod => ModeSInv'
<1> SUFFICES ASSUME ModeSInv, ResetDemod PROVE ModeSInv'
    OBVIOUS
<1>1. /\ index = 0 /\ index' = 0 /\ heard' = heard /\ unbroken' = heard + 1
      /\ mag' = mag /\ sent' = sent /\ tail' = <<>> /\ emitted' = emitted
  BY DEF ResetDemod
<1>2. ModeSType /\ ModeSType'
  BY <1>1 DEF ModeSInv, ModeSType
<1>3. RestInv'
  BY <1>1, <1>2 DEF RestInv, Growing, Holds, Past, ModeSType
<1>4. FoundInv'
  BY <1>1, <1>2 DEF FoundInv, ModeSType
<1> QED
  BY <1>1, <1>2, <1>3, <1>4 DEF ModeSInv, BlockInv, EmittedOnce

\* A sample further: the window at index is no frame, so that no frame still
\* to come begins there.
LEMMA NotFoundInv == ModeSInv /\ NotFound => ModeSInv'
<1> SUFFICES ASSUME ModeSInv, NotFound PROVE ModeSInv'
    OBVIOUS
<1>1. /\ index > 0 /\ index' = index + 1 /\ ~FrameAt(index)
      /\ sent' = sent /\ heard' = heard /\ tail' = tail /\ mag' = mag
      /\ emitted' = emitted /\ unbroken' = unbroken
  BY DEF NotFound, WindowLeft
<1>2. ModeSType /\ index \in Nat /\ heard \in Nat /\ Len(mag) \in Nat
  BY DEF ModeSInv, ModeSType
<1>3. ModeSType'
  BY <1>1, <1>2 DEF ModeSType
<1>4. BlockInv'
  <2>1. Growing(mag, heard) /\ Past(mag, index) /\ \E lo \in Int : lo <= heard - F + 2 /\ Holds(mag, lo)
    BY <1>1 DEF ModeSInv, BlockInv
  <2>2. Growing(mag, heard)' /\ Past(mag, index)'
    <3>1. \A i \in Int : i >= index' => i >= index
      BY <1>1, <1>2
    <3> QED
      BY <1>1, <2>1, <3>1 DEF Growing, Past
  <2>3. \E lo \in Int : lo <= heard' - F + 2 /\ Holds(mag, lo)'
    BY <1>1, <2>1 DEF Holds
  <2> QED
    BY <2>2, <2>3 DEF BlockInv
<1>5. FoundInv'
  <2> SUFFICES ASSUME NEW p \in sent, unbroken <= p, p + F - 1 <= heard
               PROVE  Emitted(p) \/ Ahead(p)'
    BY <1>1, <1>2 DEF FoundInv, Emitted
  <2>1. CASE Emitted(p)
    BY <2>1
  <2>2. CASE Ahead(p)
    <3>1. PICK i \in 1 .. Len(mag) : /\ i >= index /\ i + F - 1 <= Len(mag)
                                     /\ \A k \in 0 .. F - 1 : mag[i + k] = p + k
      BY <2>2 DEF Ahead
    <3>2. mag[i] = p
      <4>1. 0 \in 0 .. F - 1 /\ i + 0 = i /\ p + 0 = p
        BY <1>2 DEF ModeSType
      <4> QED
        BY <3>1, <4>1
    <3>3. i # index
      BY <1>1, <3>1, <3>2 DEF FrameAt
    <3>4. i >= index'
      BY <1>1, <1>2, <3>1, <3>3
    <3> QED
      BY <1>1, <3>1, <3>4 DEF Ahead
  <2> QED
    BY <2>1, <2>2 DEF ModeSInv, FoundInv
<1>6. RestInv' /\ EmittedOnce' /\ \A a \in 1 .. Len(emitted') : emitted'[a] <= heard'
  BY <1>1, <1>2 DEF RestInv, ModeSInv, EmittedOnce
<1> QED
  BY <1>3, <1>4, <1>5, <1>6 DEF ModeSInv

\* A frame: it began after all emitted before, and what begins inside it was
\* not sent.
LEMMA FoundFrameInv == ModeSInv /\ Found => ModeSInv'
<1> SUFFICES ASSUME ModeSInv, Found PROVE ModeSInv'
    OBVIOUS
<1> DEFINE q == mag[index]
<1>1. /\ index > 0 /\ index + F - 1 <= Len(mag) /\ index' = index + F
      /\ q \in sent /\ \A k \in 0 .. F - 1 : mag[index + k] = q + k
      /\ emitted' = Append(emitted, q)
      /\ sent' = sent /\ heard' = heard /\ tail' = tail /\ mag' = mag /\ unbroken' = unbroken
  BY DEF Found, WindowLeft, FrameAt
<1>2. /\ ModeSType /\ index \in Nat /\ heard \in Nat /\ Len(mag) \in Nat
      /\ emitted \in Seq(Nat) /\ Len(emitted) \in Nat /\ q \in Nat
      /\ index \in 1 .. Len(mag)
  <2>1. ModeSType
    BY DEF ModeSInv
  <2>2. sent \subseteq Nat /\ index \in Nat /\ heard \in Nat /\ Len(mag) \in Nat
        /\ emitted \in Seq(Nat) /\ Len(emitted) \in Nat
    BY <2>1 DEF ModeSType
  <2>3. index \in 1 .. Len(mag)
    BY <1>1, <2>2
  <2>4. q \in Nat
    BY <1>1, <2>2
  <2> QED
    BY <2>1, <2>2, <2>3, <2>4
<1>3. /\ Growing(mag, heard) /\ Past(mag, index)
      /\ \E lo \in Int : lo <= heard - F + 2 /\ Holds(mag, lo)
  BY <1>1 DEF ModeSInv, BlockInv
<1>4. /\ emitted' \in Seq(Nat) /\ Len(emitted') = Len(emitted) + 1
      /\ emitted'[Len(emitted) + 1] = q
      /\ \A a \in 1 .. Len(emitted) : emitted'[a] = emitted[a]
  BY <1>1, <1>2, AppendFacts
<1>5. \A a \in 1 .. Len(emitted') : a \in 1 .. Len(emitted) \/ (a = Len(emitted) + 1 /\ emitted'[a] = q)
  BY <1>2, <1>4
<1>6. ModeSType'
  BY <1>1, <1>2, <1>4 DEF ModeSType
<1>7. q <= heard /\ \A a \in 1 .. Len(emitted) : emitted[a] < q
  BY <1>2, <1>3 DEF Growing, Past
<1>8. EmittedOnce' /\ \A a \in 1 .. Len(emitted') : emitted'[a] <= heard'
  <2>1. ASSUME NEW a \in 1 .. Len(emitted')
        PROVE  emitted'[a] <= heard'
    <3>1. CASE a \in 1 .. Len(emitted)
      BY <1>1, <1>4, <3>1 DEF ModeSInv
    <3> QED
      BY <1>1, <1>5, <1>7, <3>1
  <2>2. ASSUME NEW a \in 1 .. Len(emitted'), NEW b \in 1 .. Len(emitted'), a < b
        PROVE  emitted'[a] < emitted'[b]
    <3>1. a \in 1 .. Len(emitted)
      BY <1>2, <1>4, <2>2
    <3>2. CASE b \in 1 .. Len(emitted)
      <4>1. emitted[a] < emitted[b]
        BY <2>2, <3>1, <3>2 DEF ModeSInv, EmittedOnce
      <4> QED
        BY <1>4, <3>1, <3>2, <4>1
    <3>3. CASE emitted'[b] = q
      <4>1. emitted[a] < q
        BY <1>7, <3>1
      <4> QED
        BY <1>4, <3>1, <3>3, <4>1
    <3> QED
      BY <1>5, <3>2, <3>3
  <2> QED
    BY <2>1, <2>2 DEF EmittedOnce
<1>9. BlockInv'
  <2>1. Growing(mag, heard)'
    BY <1>1, <1>3 DEF Growing
  <2>2. \E lo \in Int : lo <= heard' - F + 2 /\ Holds(mag, lo)'
    BY <1>1, <1>3 DEF Holds
  <2>3. ASSUME NEW a \in 1 .. Len(emitted'), NEW i \in 1 .. Len(mag),
               i >= index + F \/ i + F - 1 > Len(mag)
        PROVE  emitted'[a] < mag[i]
    <3>1. index < i
      BY <1>1, <1>2, <2>3
    <3>2. q < mag[i]
      BY <1>2, <1>3, <3>1 DEF Growing
    <3>3. CASE a \in 1 .. Len(emitted)
      <4>1. emitted[a] < mag[i]
        BY <1>2, <1>3, <3>1, <3>3 DEF Past
      <4> QED
        BY <1>4, <3>3, <4>1
    <3> QED
      BY <1>5, <3>2, <3>3
  <2>4. Past(mag, index)'
    BY <1>1, <2>3 DEF Past
  <2> QED
    BY <2>1, <2>2, <2>4 DEF BlockInv
<1>10. FoundInv'
  <2> SUFFICES ASSUME NEW p \in sent', unbroken' <= p, p + F - 1 <= heard'
               PROVE  Emitted(p)' \/ (index' > 0 /\ Ahead(p)')
    BY DEF FoundInv
  <2>0. p \in sent /\ index' > 0 /\ (Emitted(p) \/ Ahead(p)) /\ p \in Nat
    BY <1>1, <1>2 DEF ModeSInv, FoundInv, ModeSType
  <2>1. CASE Emitted(p)
    <3>1. PICK a \in 1 .. Len(emitted) : emitted[a] = p
      BY <2>1 DEF Emitted
    <3>2. a \in 1 .. Len(emitted') /\ emitted'[a] = p
      BY <1>2, <1>4, <3>1
    <3> QED
      BY <3>2 DEF Emitted
  <2>2. CASE p = q
    <3>1. Len(emitted) + 1 \in 1 .. Len(emitted')
      BY <1>2, <1>4
    <3> QED
      BY <1>4, <2>2, <3>1 DEF Emitted
  <2>3. CASE Ahead(p) /\ p # q
    <3>1. PICK i \in 1 .. Len(mag) : /\ i >= index /\ i + F - 1 <= Len(mag)
                                     /\ \A k \in 0 .. F - 1 : mag[i + k] = p + k
      BY <2>3 DEF Ahead
    <3>2. mag[i] = p
      <4>1. 0 \in 0 .. F - 1 /\ i + 0 = i /\ p + 0 = p
        BY <2>0
      <4> QED
        BY <3>1, <4>1
    <3>3. i # index /\ i > index
      BY <1>2, <2>3, <3>1, <3>2
    <3>4. q < p
      BY <1>2, <1>3, <3>2, <3>3 DEF Growing
    <3>5. q + F <= p
      BY <1>1, <1>2, <2>0, <3>4 DEF ModeSType, Apart
    <3>6. i >= index + F
      <4>1. CASE i - index \in 0 .. F - 1
        <5>1. mag[index + (i - index)] = q + (i - index) /\ index + (i - index) = i
          BY <1>1, <1>2, <4>1
        <5> QED
          BY <1>2, <2>0, <3>2, <3>5, <4>1, <5>1
      <4> QED
        BY <1>2, <3>3, <4>1
    <3> HIDE DEF q
    <3> QED
      BY <1>1, <2>0, <3>1, <3>6 DEF Ahead
  <2> QED
    BY <2>0, <2>1, <2>2, <2>3
<1>11. RestInv'
  BY <1>1, <1>2 DEF RestInv
<1> QED
  BY <1>6, <1>8, <1>9, <1>10, <1>11 DEF ModeSInv

\* The end of a block: every window was looked at, and the tail has the
\* samples of all those that were not complete.
LEMMA EndBlockInv == ModeSInv /\ EndBlock => ModeSInv'
<1> SUFFICES ASSUME ModeSInv, EndBlock PROVE ModeSInv'
    OBVIOUS
<1>1. /\ index > 0 /\ ~(index + F - 1 <= Len(mag)) /\ index' = 0
      /\ tail' = Last(mag, F - 1) /\ mag' = <<>>
      /\ sent' = sent /\ heard' = heard /\ emitted' = emitted /\ unbroken' = unbroken
  BY DEF EndBlock, WindowLeft, Keep
<1>2. /\ ModeSType /\ index \in Nat /\ heard \in Nat /\ mag \in Seq(Nat) /\ Len(mag) \in Nat
      /\ F - 1 \in Nat
  BY DEF ModeSInv, ModeSType
<1>3. PICK lo \in Int : /\ Growing(mag, heard) /\ Past(mag, index)
                        /\ lo <= heard - F + 2 /\ Holds(mag, lo)
  BY <1>1 DEF ModeSInv, BlockInv
<1> DEFINE skip == Len(mag) - Len(tail')
<1>4. /\ tail' \in Seq(Nat) /\ Len(tail') \in Nat
      /\ Len(tail') = IF Len(mag) <= F - 1 THEN Len(mag) ELSE F - 1
      /\ \A i \in 1 .. Len(tail') : tail'[i] = mag[skip + i]
  <2>1. /\ Last(mag, F - 1) \in Seq(Nat) /\ Len(Last(mag, F - 1)) \in Nat
        /\ Len(Last(mag, F - 1)) = IF Len(mag) <= F - 1 THEN Len(mag) ELSE F - 1
        /\ \A i \in 1 .. Len(Last(mag, F - 1)) :
               Last(mag, F - 1)[i] = mag[Len(mag) - Len(Last(mag, F - 1)) + i]
    BY <1>2, LastFacts
  <2> QED
    BY <1>1, <2>1
<1>len. /\ Len(tail') \in Nat /\ Len(tail') <= Len(mag) /\ Len(tail') <= F - 1
        /\ Len(tail') = Len(mag) \/ Len(tail') = F - 1
  BY <1>2, <1>4
<1>5. skip \in Nat /\ \A i \in 1 .. Len(tail') : skip + i \in 1 .. Len(mag) /\ skip + i + F - 1 > Len(mag)
  BY <1>2, <1>len
<1>6. ModeSType'
  BY <1>1, <1>2, <1>4 DEF ModeSType
<1>7. Growing(tail, heard)'
  <2>1. \A i \in 1 .. Len(tail') : mag[skip + i] <= heard
    BY <1>3, <1>5 DEF Growing
  <2>2. ASSUME NEW i \in 1 .. Len(tail'), NEW j \in 1 .. Len(tail'), i < j
        PROVE  tail'[i] < tail'[j]
    <3>1. skip + i < skip + j
      BY <1>5, <2>2
    <3>2. mag[skip + i] < mag[skip + j]
      BY <1>3, <1>5, <3>1 DEF Growing
    <3> QED
      BY <1>4, <3>2
  <2>3. \A i \in 1 .. Len(tail') : tail'[i] <= heard'
    BY <1>1, <1>4, <2>1
  <2> QED
    BY <2>2, <2>3 DEF Growing
<1>8. Holds(tail, heard - F + 2)'
  <2>1. ASSUME NEW x \in Nat, unbroken' <= x, heard' - F + 2 <= x, x <= heard'
        PROVE  heard' - x < Len(tail') /\ tail'[Len(tail') - (heard' - x)] = x
    <3>1. unbroken <= x /\ lo <= x /\ x <= heard /\ heard - x <= F - 2
      BY <1>1, <1>2, <1>3, <2>1
    <3>2. heard - x < Len(mag) /\ mag[Len(mag) - (heard - x)] = x
      BY <1>3, <3>1 DEF Holds
    <3>3. heard - x < Len(tail')
      BY <1>2, <1>len, <3>1, <3>2
    <3>4. /\ Len(tail') - (heard - x) \in 1 .. Len(tail')
          /\ skip + (Len(tail') - (heard - x)) = Len(mag) - (heard - x)
      BY <1>2, <1>len, <3>1, <3>3
    <3> HIDE DEF skip
    <3>5. tail'[Len(tail') - (heard - x)] = x
      BY <1>4, <3>2, <3>4
    <3> QED
      BY <1>1, <3>3, <3>5
  <2> QED
    BY <2>1 DEF Holds
<1>9. Past(tail, 1)'
  <2>1. ASSUME NEW a \in 1 .. Len(emitted), NEW i \in 1 .. Len(tail')
        PROVE  emitted[a] < tail'[i]
    <3>1. emitted[a] < mag[skip + i]
      BY <1>3, <1>5 DEF Past
    <3> QED
      BY <1>4, <3>1
  <2>2. \A a \in 1 .. Len(emitted'), i \in 1 .. Len(tail') : emitted'[a] < tail'[i]
    BY <1>1, <2>1
  <2> QED
    BY <2>2 DEF Past
<1>10. RestInv' /\ BlockInv'
  <2>1. Len(tail') <= F - 1
    BY <1>2, <1>4
  <2> QED
    BY <1>1, <1>7, <1>8, <1>9, <2>1 DEF RestInv, BlockInv
<1>11. FoundInv'
  <2> SUFFICES ASSUME NEW p \in sent', unbroken' <= p, p + F - 1 <= heard'
               PROVE  Emitted(p)'
    BY DEF FoundInv
  <2>1. Emitted(p) \/ Ahead(p)
    BY <1>1 DEF ModeSInv, FoundInv
  <2>2. ~Ahead(p)
    BY <1>1, <1>2 DEF Ahead
  <2>3. emitted' = emitted
    BY <1>1
  <2> QED
    BY <2>1, <2>2, <2>3 DEF Emitted
<1>12. EmittedOnce' /\ \A a \in 1 .. Len(emitted') : emitted'[a] <= heard'
  BY <1>1 DEF ModeSInv, EmittedOnce
<1> QED
  BY <1>6, <1>10, <1>11, <1>12 DEF ModeSInv

LEMMA ModeSNextInv == ModeSInv /\ [ModeSNext]_modeSVars => ModeSInv'
<1>1. ModeSInv /\ UNCHANGED modeSVars => ModeSInv'
  BY DEF ModeSInv, ModeSType, EmittedOnce, RestInv, BlockInv, FoundInv, Growing, Holds, Past,
         Emitted, Ahead
<1> QED
  BY <1>1, TakeBlockInv, LoseBlockInv, ResetDemodInv, NotFoundInv, FoundFrameInv, EndBlockInv
     DEF ModeSNext

LEMMA ModeSInvEnough == ModeSInv => FramesFoundOnce
<1> SUFFICES ASSUME ModeSInv PROVE FramesFoundOnce
    OBVIOUS
<1>1. ASSUME index = 0, NEW p \in sent, unbroken <= p, p + FrameSamples - 1 <= heard
      PROVE  \E a \in 1 .. Len(emitted) : emitted[a] = p
  BY <1>1 DEF ModeSInv, FoundInv, Emitted
<1> QED
  BY <1>1 DEF ModeSInv, FramesFoundOnce, NoneMissed

LEMMA DemodOrRest == [Next]_vars => [ModeSNext]_modeSVars
  BY DEF Next, vars, DemodStage, AircraftStage, ChannelStage, VesselStage, MuLawStage

\* A Mode S frame none of whose samples was lost is emitted, once and in order,
\* whatever its length and wherever the blocks cut it.
THEOREM FoundOnce == Spec => []FramesFoundOnce
<1>1. Init => ModeSInv
  BY ModeSInitInv DEF Init
<1>2. ModeSInv /\ [Next]_vars => ModeSInv'
  BY DemodOrRest, ModeSNextInv
<1> QED
  BY <1>1, <1>2, ModeSInvEnough, PTL DEF Spec

-----------------------------------------------------------------------------
(* The vessel table                                                         *)

LEMMA MergeKeeps ==
    ASSUME NEW old, NEW r, NEW f \in Fields, old[f] # NA
    PROVE  Merge(old, r)[f] # NA
  BY DEF Merge

LEMMA MergeIsVessel ==
    ASSUME NEW old, NEW r
    PROVE  Merge(old, r) # NoVessel
<1>1. "name" \in Fields /\ DOMAIN Merge(old, r) = Fields
  BY DEF Merge, Fields
<1>2. DOMAIN NoVessel = {}
  BY DEF NoVessel
<1> QED
  BY <1>1, <1>2

\* What the table knows of a ship it goes on knowing, until the ship is silent
\* for too long: whatever a report says or leaves out.
THEOREM NothingForgotten == Spec => KeepsKnown
<1> DEFINE Kept == vessel # NoVessel =>
         \/ vessel' # NoVessel /\ \A f \in Fields : vessel[f] # NA => vessel'[f] # NA
         \/ vessel' = NoVessel /\ silent > VesselMaxAge
<1>1. [Next]_vars => [VesselsNext]_vesselVars
  BY DEF Next, vars, DemodStage, AircraftStage, ChannelStage, VesselStage, MuLawStage, vesselVars
<1>2. VesselsNext => Kept
  <2>1. CASE UpdateVessel
    <3>1. PICK r : vessel' = Merge(IF vessel = NoVessel THEN Unknown ELSE vessel, r)
      BY <2>1 DEF UpdateVessel
    <3> QED
      BY <3>1, MergeKeeps, MergeIsVessel
  <2>2. CASE VesselSilent
    BY <2>2 DEF VesselSilent
  <2>3. CASE SnapshotVessels
    BY <2>3 DEF SnapshotVessels
  <2> QED
    BY <2>1, <2>2, <2>3 DEF VesselsNext
<1>3. [Next]_vars => [Kept]_vesselVars
  BY <1>1, <1>2
<1> QED
  BY <1>3, PTL DEF Spec, KeepsKnown
-----------------------------------------------------------------------------
(* The voice                                                                *)

Pow(k) == 2 ^ k
Bit(v, e) == (v \div Pow(e + 7)) % 2

LEMMA HighestBit ==
    ASSUME NEW v, NEW e \in 1 .. 7, Bit(v, e) = 1, \A d \in e + 1 .. 7 : Bit(v, d) = 0
    PROVE  Exponent(v) = e
<1> DEFINE Highest(k) == Bit(v, k) = 1 /\ \A d \in k + 1 .. 7 : Bit(v, d) = 0
<1>1. Exponent(v) = CHOOSE k \in 1 .. 7 : Highest(k)
  BY DEF Exponent, Bit, Pow
<1>2. ASSUME NEW k \in 1 .. 7, Highest(k) PROVE k = e
  <2>1. ~ (k < e)
    <3> SUFFICES ASSUME k < e PROVE FALSE
      OBVIOUS
    <3>1. e \in k + 1 .. 7
      OBVIOUS
    <3> QED
      BY <1>2, <3>1
  <2>2. ~ (e < k)
    <3> SUFFICES ASSUME e < k PROVE FALSE
      OBVIOUS
    <3>1. k \in e + 1 .. 7
      OBVIOUS
    <3> QED
      BY <1>2, <3>1
  <2> QED
    BY <2>1, <2>2
<1>3. Highest(e)
  OBVIOUS
<1> HIDE DEF Highest
<1> QED
  BY <1>1, <1>2, <1>3

LEMMA Once ==
    ASSUME NEW v \in Nat, NEW d \in Nat \ {0}
    PROVE  /\ v < d => (v \div d) % 2 = 0
           /\ d <= v /\ v < 2 * d => (v \div d) % 2 = 1
<1>1. v < d => v \div d = 0
  OBVIOUS
<1>2. d <= v /\ v < 2 * d => v \div d = 1
  OBVIOUS
<1> QED
  BY ONLY <1>1, <1>2

LEMMA Quotient ==
    ASSUME NEW v \in Nat, NEW d \in Nat \ {0}
    PROVE  v \div d \in Nat /\ (v \div d) * d <= v /\ v < (v \div d) * d + d
  OBVIOUS

\* The powers of two that occur.
LEMMA PowerAt ==
    ASSUME NEW e
    PROVE  /\ e = 0 => Pow(e + 7) = 128
           /\ e = 1 => Pow(e + 7) = 256
           /\ e = 2 => Pow(e + 7) = 512
           /\ e = 3 => Pow(e + 7) = 1024
           /\ e = 4 => Pow(e + 7) = 2048
           /\ e = 5 => Pow(e + 7) = 4096
           /\ e = 6 => Pow(e + 7) = 8192
           /\ e = 7 => Pow(e + 7) = 16384
<1>0. e = 0 => Pow(e + 7) = 128
  BY DEF Pow
<1>1. e = 1 => Pow(e + 7) = 256
  BY DEF Pow
<1>2. e = 2 => Pow(e + 7) = 512
  BY DEF Pow
<1>3. e = 3 => Pow(e + 7) = 1024
  BY DEF Pow
<1>4. e = 4 => Pow(e + 7) = 2048
  BY DEF Pow
<1>5. e = 5 => Pow(e + 7) = 4096
  BY DEF Pow
<1>6. e = 6 => Pow(e + 7) = 8192
  BY DEF Pow
<1>7. e = 7 => Pow(e + 7) = 16384
  BY DEF Pow
<1> QED
  BY ONLY <1>0, <1>1, <1>2, <1>3, <1>4, <1>5, <1>6, <1>7

LEMMA Powers ==
    ASSUME NEW e \in 0 .. 7
    PROVE  /\ Pow(e + 2) \in Nat \ {0} /\ Pow(e + 3) = 2 * Pow(e + 2)
           /\ Pow(e + 7) = 32 * Pow(e + 2) /\ Pow(e + 8) = 64 * Pow(e + 2)
<1>0. CASE e = 0
  <2>1. Pow(e + 2) = 4 /\ Pow(e + 3) = 8 /\ Pow(e + 7) = 128 /\ Pow(e + 8) = 256
    BY <1>0 DEF Pow
  <2> QED
    BY ONLY <2>1
<1>1. CASE e = 1
  <2>1. Pow(e + 2) = 8 /\ Pow(e + 3) = 16 /\ Pow(e + 7) = 256 /\ Pow(e + 8) = 512
    BY <1>1 DEF Pow
  <2> QED
    BY ONLY <2>1
<1>2. CASE e = 2
  <2>1. Pow(e + 2) = 16 /\ Pow(e + 3) = 32 /\ Pow(e + 7) = 512 /\ Pow(e + 8) = 1024
    BY <1>2 DEF Pow
  <2> QED
    BY ONLY <2>1
<1>3. CASE e = 3
  <2>1. Pow(e + 2) = 32 /\ Pow(e + 3) = 64 /\ Pow(e + 7) = 1024 /\ Pow(e + 8) = 2048
    BY <1>3 DEF Pow
  <2> QED
    BY ONLY <2>1
<1>4. CASE e = 4
  <2>1. Pow(e + 2) = 64 /\ Pow(e + 3) = 128 /\ Pow(e + 7) = 2048 /\ Pow(e + 8) = 4096
    BY <1>4 DEF Pow
  <2> QED
    BY ONLY <2>1
<1>5. CASE e = 5
  <2>1. Pow(e + 2) = 128 /\ Pow(e + 3) = 256 /\ Pow(e + 7) = 4096 /\ Pow(e + 8) = 8192
    BY <1>5 DEF Pow
  <2> QED
    BY ONLY <2>1
<1>6. CASE e = 6
  <2>1. Pow(e + 2) = 256 /\ Pow(e + 3) = 512 /\ Pow(e + 7) = 8192 /\ Pow(e + 8) = 16384
    BY <1>6 DEF Pow
  <2> QED
    BY ONLY <2>1
<1>7. CASE e = 7
  <2>1. Pow(e + 2) = 512 /\ Pow(e + 3) = 1024 /\ Pow(e + 7) = 16384 /\ Pow(e + 8) = 32768
    BY <1>7 DEF Pow
  <2> QED
    BY ONLY <2>1
<1> QED
  BY <1>0, <1>1, <1>2, <1>3, <1>4, <1>5, <1>6, <1>7

LEMMA PowersGrow ==
    ASSUME NEW d \in 0 .. 7, NEW e \in 0 .. 7, e < d
    PROVE  Pow(e + 8) <= Pow(d + 7)
<1> DEFINE a == Pow(e + 7)
           b == Pow(d + 7)
<1>1. /\ e = 0 => a = 128
      /\ e = 1 => a = 256
      /\ e = 2 => a = 512
      /\ e = 3 => a = 1024
      /\ e = 4 => a = 2048
      /\ e = 5 => a = 4096
      /\ e = 6 => a = 8192
      /\ e = 7 => a = 16384
  BY PowerAt
<1>2. /\ d = 0 => b = 128
      /\ d = 1 => b = 256
      /\ d = 2 => b = 512
      /\ d = 3 => b = 1024
      /\ d = 4 => b = 2048
      /\ d = 5 => b = 4096
      /\ d = 6 => b = 8192
      /\ d = 7 => b = 16384
  BY PowerAt
<1>3. Pow(e + 8) = 2 * a
  <2> DEFINE h == Pow(e + 2)
             g == Pow(e + 8)
  <2>1. h \in Nat /\ a = 32 * h /\ g = 64 * h
    BY Powers
  <2> HIDE DEF a, g, h
  <2>2. g = 2 * a
    BY ONLY <2>1
  <2> QED
    BY <2>2 DEF g
<1> HIDE DEF a, b
<1>4. 2 * a <= b
  BY ONLY <1>1, <1>2, d \in 0 .. 7, e \in 0 .. 7, e < d
<1> QED
  BY <1>3, <1>4 DEF b

\* The exponent of a level with the bias, clipped, is its segment.
LEMMA ExponentIs ==
    ASSUME NEW v \in Nat, NEW e \in 0 .. 6, v < Pow(e + 8), e > 0 => Pow(e + 7) <= v
    PROVE  Exponent(v) = e
<1>1. \A d \in e + 1 .. 7 : Bit(v, d) = 0
  <2> SUFFICES ASSUME NEW d \in e + 1 .. 7 PROVE Bit(v, d) = 0
    OBVIOUS
  <2> DEFINE p == Pow(d + 7)
             q == Pow(e + 8)
  <2>1. d \in 0 .. 7 /\ e \in 0 .. 7 /\ e < d
    OBVIOUS
  <2>2. p \in Nat \ {0} /\ q <= p /\ q \in Nat
    <3>1. p \in Nat \ {0}
      <4>1. Pow(d + 2) \in Nat \ {0} /\ Pow(d + 7) = 32 * Pow(d + 2)
        BY <2>1, Powers
      <4> QED
        BY ONLY <4>1
    <3>2. q \in Nat
      <4>1. Pow(e + 2) \in Nat \ {0} /\ Pow(e + 8) = 64 * Pow(e + 2)
        BY <2>1, Powers
      <4> QED
        BY ONLY <4>1
    <3> QED
      BY <2>1, <3>1, <3>2, PowersGrow
  <2>3. v < q /\ Bit(v, d) = (v \div p) % 2
    BY DEF Bit
  <2> HIDE DEF p, q
  <2>4. v < p
    BY ONLY <2>2, <2>3, v \in Nat
  <2> QED
    BY <2>2, <2>3, <2>4, Once
<1>2. CASE e > 0
  <2> DEFINE p == Pow(e + 7)
  <2>1. p \in Nat \ {0} /\ v < 2 * p /\ p <= v
    <3> DEFINE h == Pow(e + 2)
               g == Pow(e + 8)
    <3>1. h \in Nat \ {0} /\ p = 32 * h /\ g = 64 * h
      <4>1. e \in 0 .. 7
        OBVIOUS
      <4> QED
        BY <4>1, Powers
    <3>2. v < g /\ p <= v
      BY <1>2
    <3> HIDE DEF g, h, p
    <3> QED
      BY ONLY <3>1, <3>2, v \in Nat
  <2>2. Bit(v, e) = (v \div p) % 2
    BY DEF Bit
  <2> HIDE DEF p
  <2>3. Bit(v, e) = 1
    BY <2>1, <2>2, Once
  <2>4. e \in 1 .. 7
    BY <1>2
  <2> QED
    BY <1>1, <2>3, <2>4, HighestBit
<1>3. CASE e = 0
  <2>1. \A d \in 1 .. 7 : Bit(v, d) # 1
    BY <1>1, <1>3
  <2> QED
    BY <1>3, <2>1 DEF Exponent, Bit, Pow
<1> QED
  BY <1>2, <1>3

\* A level in a segment whose steps are 2 * h is decoded to the middle of its step.
LEMMA MiddleOfStep ==
    ASSUME NEW v \in Nat, NEW h \in Nat \ {0}, 32 * h <= v, v < 64 * h,
           NEW w, w = (((v \div (2 * h)) % 16) * 2 + 33) * h
    PROVE  w \in Int /\ (w - v) * 32 <= v /\ (v - w) * 32 <= v
<1> DEFINE d == 2 * h
           q == v \div d
<1>1. d \in Nat \ {0}
  OBVIOUS
<1> HIDE DEF d
<1>2. q \in Nat /\ q * d <= v /\ v < q * d + d
  BY <1>1, Quotient
<1> HIDE DEF q
<1>3. q * d = 2 * (q * h) /\ q * h \in Nat
  BY <1>2 DEF d
<1>4. 16 <= q
  <2> SUFFICES ASSUME q + 1 <= 16 PROVE FALSE
    BY <1>2
  <2>1. (q + 1) * h <= 16 * h
    BY <1>2
  <2>2. (q + 1) * h = q * h + h
    BY <1>2
  <2> QED
    BY <1>2, <1>3, <2>1, <2>2 DEF d
<1>5. q <= 31
  <2> SUFFICES ASSUME 32 <= q PROVE FALSE
    BY <1>2
  <2>1. 32 * h <= q * h
    BY <1>2
  <2> QED
    BY <1>2, <1>3, <2>1
<1>6. q % 16 = q - 16
  BY <1>2, <1>4, <1>5
<1>7. w = (2 * q + 1) * h
  <2>1. w = ((q % 16) * 2 + 33) * h
    BY DEF q, d
  <2>2. (q - 16) * 2 + 33 = 2 * q + 1
    BY <1>2
  <2> QED
    BY <1>6, <2>1, <2>2
<1>8. w = 2 * (q * h) + h
  BY <1>2, <1>7
<1> QED
  BY <1>2, <1>3, <1>8 DEF d

\* What the decoder makes of exponent and mantissa is half a step of the segment
\* from the level, on both sides.
LEMMA SegmentIs ==
    ASSUME NEW v \in Nat, Bias <= v, v <= 8191, NEW w,
           w = (((v \div Pow(Exponent(v) + 3)) % 16) * 2 + 33) * Pow(Exponent(v) + 2)
    PROVE  w \in Int /\ (w - v) * 32 <= v /\ (v - w) * 32 <= v
<1>0. v \in Nat /\ v >= 128 /\ v < 8192
  BY DEF Bias
<1>1. PICK e \in 0 .. 5 : v < Pow(e + 8) /\ Pow(e + 7) <= v
  <2>1. /\ Pow(0 + 7) = 128 /\ Pow(1 + 7) = 256 /\ Pow(2 + 7) = 512 /\ Pow(3 + 7) = 1024
        /\ Pow(4 + 7) = 2048 /\ Pow(5 + 7) = 4096
    BY DEF Pow
  <2>2. /\ Pow(0 + 8) = 256 /\ Pow(1 + 8) = 512 /\ Pow(2 + 8) = 1024
        /\ Pow(3 + 8) = 2048 /\ Pow(4 + 8) = 4096 /\ Pow(5 + 8) = 8192
    BY DEF Pow
  <2>3. CASE v < 256
    BY ONLY <1>0, <2>1, <2>2, <2>3
  <2>4. CASE 256 <= v /\ v < 512
    BY ONLY <1>0, <2>1, <2>2, <2>4
  <2>5. CASE 512 <= v /\ v < 1024
    BY ONLY <1>0, <2>1, <2>2, <2>5
  <2>6. CASE 1024 <= v /\ v < 2048
    BY ONLY <1>0, <2>1, <2>2, <2>6
  <2>7. CASE 2048 <= v /\ v < 4096
    BY ONLY <1>0, <2>1, <2>2, <2>7
  <2>8. CASE 4096 <= v
    BY ONLY <1>0, <2>1, <2>2, <2>8
  <2> QED
    BY ONLY <1>0, <2>3, <2>4, <2>5, <2>6, <2>7, <2>8
<1>2. Exponent(v) = e
  <2>1. e \in 0 .. 6 /\ v \in Nat
    BY <1>0
  <2>2. v < Pow(e + 8)
    BY <1>1
  <2>3. e > 0 => Pow(e + 7) <= v
    BY <1>1
  <2> QED
    BY <2>1, <2>2, <2>3, ExponentIs
<1> DEFINE h == Pow(e + 2)
<1>3. h \in Nat \ {0} /\ Pow(e + 3) = 2 * h /\ Pow(e + 7) = 32 * h /\ Pow(e + 8) = 64 * h
  <2>1. e \in 0 .. 7
    OBVIOUS
  <2> QED
    BY <2>1, Powers DEF h
<1>4. w = (((v \div (2 * h)) % 16) * 2 + 33) * h
  BY <1>2, <1>3
<1>5. 32 * h <= v /\ v < 64 * h
  BY <1>1, <1>3
<1> HIDE DEF h
<1> QED
  BY <1>0, <1>3, <1>4, <1>5, MiddleOfStep

LEMMA SignOf ==
    ASSUME NEW s \in Int, NEW e, NEW k, NEW r, NEW a, NEW b,
           r = [negative |-> s < 0, exponent |-> e, mantissa |-> k]
    PROVE  (IF r.negative THEN a ELSE b) = IF s < 0 THEN a ELSE b
<1>1. CASE s < 0
  BY <1>1
<1>2. CASE ~ (s < 0)
  BY <1>2
<1> QED
  BY <1>1, <1>2

LEMMA Int16Is ==
    ASSUME NEW x \in Nat, x <= 8191 PROVE Int16(x) = x
  BY DEF Int16

\* A level up to a quarter of the full scale is neither wrapped nor clipped.
LEMMA PlaysTrue ==
    ASSUME NEW s \in Int, 0 - 8059 <= s, s <= 8059
    PROVE  Distance(Decoded(LinearToMulaw(s)), s) * 32 <= Distance(s, 0) + Bias
<1> DEFINE m == Distance(s, 0)
           v == m + Bias
           e == Exponent(v)
           w == (((v \div Pow(e + 3)) % 16) * 2 + 33) * Pow(e + 2)
<1>1. m \in Nat /\ m <= 8059 /\ (s >= 0 => m = s) /\ (s < 0 => m = 0 - s)
  BY DEF Distance
<1>2. Magnitude(s) = m
  <2>1. CASE s >= 0
    BY <2>1 DEF Magnitude, Distance
  <2>2. CASE s < 0
    <3>1. Int16(0 - s) = 0 - s
      <4>1. 0 - s \in Nat /\ 0 - s <= 8191
        BY <2>2
      <4> QED
        BY ONLY <4>1, Int16Is
    <3>2. 0 - s > 0 /\ s <= 0
      BY <2>2
    <3>3. Magnitude(s) = 0 - s
      BY ONLY <3>1, <3>2, s \in Int, ~ (s >= 0) DEF Magnitude
    <3> QED
      BY <2>2, <3>3 DEF Distance
  <2> QED
    BY <2>1, <2>2
<1>3. Clip(Int16(m + Bias)) = v
  <2> HIDE DEF m
  <2>1. Int16(m + Bias) = m + Bias
    <3>1. m + Bias \in Nat /\ m + Bias <= 8191
      BY <1>1 DEF Bias
    <3> QED
      BY ONLY <3>1, Int16Is
  <2> QED
    BY <1>1, <2>1 DEF Clip, MulawMax, Bias
<1>4. LinearToMulaw(s) = [negative |-> s < 0, exponent |-> e, mantissa |-> (v \div Pow(e + 3)) % 16]
  BY <1>2, <1>3 DEF LinearToMulaw, Pow
<1>5. Decoded(LinearToMulaw(s)) = IF s < 0 THEN 0 - (w - Bias) ELSE w - Bias
  <2> DEFINE r == LinearToMulaw(s)
           x == (r.mantissa * 2 + 33) * Pow(r.exponent + 2)
  <2>1. x = w
    <3>1. r.mantissa = (v \div Pow(e + 3)) % 16 /\ r.exponent = e
      BY <1>4
    <3> HIDE DEF r
    <3> QED
      BY ONLY <3>1
  <2>2. Decoded(r) = IF r.negative THEN 0 - (x - Bias) ELSE x - Bias
    BY DEF Decoded, Pow
  <2> DEFINE k == (v \div Pow(e + 3)) % 16
  <2>7. r = [negative |-> s < 0, exponent |-> e, mantissa |-> k]
    BY <1>4
  <2> HIDE DEF k, v, e, w, m, r, x
  <2>3. Decoded(r) = IF s < 0 THEN 0 - (x - Bias) ELSE x - Bias
    BY ONLY s \in Int, <2>2, <2>7, SignOf
  <2> QED
    BY <2>1, <2>3 DEF r
<1> HIDE DEF m
<1>6. v \in Nat /\ Bias <= v /\ v <= 8191
  BY <1>1 DEF Bias
<1> HIDE DEF v
<1>7. w \in Int /\ (w - v) * 32 <= v /\ (v - w) * 32 <= v
  BY <1>6, SegmentIs
<1> HIDE DEF e, w
<1>8. CASE s >= 0
  <2>1. Decoded(LinearToMulaw(s)) = w - Bias /\ s = v - Bias /\ m = s
    BY <1>1, <1>5, <1>8 DEF v, Bias
  <2> QED
    BY <1>6, <1>7, <1>8, <2>1 DEF Distance, Bias, m
<1>9. CASE s < 0
  <2>1. Decoded(LinearToMulaw(s)) = Bias - w /\ s = Bias - v /\ m = 0 - s
    BY <1>1, <1>5, <1>7, <1>9 DEF v, Bias
  <2> QED
    BY <1>6, <1>7, <1>9, <2>1 DEF Distance, Bias, m
<1> QED
  BY <1>8, <1>9

\* A browser plays a level up to a quarter of the full scale as it was, within half
\* a step of its segment: every one, on both sides of zero.
THEOREM VoicePlaysTrue == Spec => []QuietPlaysTrue
<1> DEFINE Sent == byte = LinearToMulaw(level)
<1>1. Init => Sent
  BY DEF Init, MuLawInit
<1>2. Sent /\ [Next]_vars => Sent'
  <2>1. [Next]_vars => Pcm48ToMulaw8k \/ UNCHANGED mulawVars
    BY DEF Next, vars, DemodStage, AircraftStage, ChannelStage, VesselStage, MuLawStage
  <2>2. Pcm48ToMulaw8k => Sent'
    BY DEF Pcm48ToMulaw8k
  <2>3. Sent /\ UNCHANGED mulawVars => Sent'
    BY DEF mulawVars
  <2> QED
    BY <2>1, <2>2, <2>3
<1>3. Sent => QuietPlaysTrue
  <2> SUFFICES ASSUME Sent, level \in -8059 .. 8059
               PROVE  Distance(Decoded(byte), level) * 32 <= Distance(level, 0) + Bias
    BY DEF QuietPlaysTrue
  <2>1. Distance(Decoded(LinearToMulaw(level)), level) * 32 <= Distance(level, 0) + Bias
    <3>1. level \in Int /\ 0 - 8059 <= level /\ level <= 8059
      OBVIOUS
    <3> QED
      BY ONLY <3>1, PlaysTrue
  <2>2. byte = LinearToMulaw(level)
    OBVIOUS
  <2> QED
    BY ONLY <2>1, <2>2
<1> QED
  BY <1>1, <1>2, <1>3, PTL DEF Spec
-----------------------------------------------------------------------------
(* Quotients                                                                *)

LEMMA DivIs ==
    ASSUME NEW v \in Int, NEW d \in Nat \ {0}, NEW q \in Int, q * d <= v, v < q * d + d
    PROVE  v \div d = q
  BY SMT

LEMMA DivMod ==
    ASSUME NEW v \in Int, NEW d \in Nat \ {0}
    PROVE  /\ v \div d \in Int /\ v % d \in Int
           /\ d * (v \div d) + (v % d) = v /\ 0 <= v % d /\ v % d < d
  BY SMT

LEMMA ModOf ==
    ASSUME NEW v \in Int, NEW d \in Nat \ {0}, NEW q \in Int, NEW r \in Int,
           v = q * d + r, 0 <= r, r < d
    PROVE  v \div d = q /\ v % d = r
  BY SMT

LEMMA DivShift ==
    ASSUME NEW c \in Nat \ {0}, NEW a \in Int, NEW y \in Int
    PROVE  (c * a + y) \div c = a + (y \div c) /\ y \div c \in Int
  BY SMT

LEMMA ModShift ==
    ASSUME NEW c \in Nat \ {0}, NEW a \in Int, NEW y \in Int
    PROVE  (c * a + y) % c = y % c
<1>1. /\ y \div c \in Int /\ y % c \in Int
      /\ c * (y \div c) + (y % c) = y /\ 0 <= y % c /\ y % c < c
  BY DivMod
<1> DEFINE q == y \div c
           r == y % c
<1> HIDE DEF q, r
<1>2. q \in Int /\ r \in Int /\ c * q + r = y /\ 0 <= r /\ r < c
  BY <1>1 DEF q, r
<1>3. c * a + y = (a + q) * c + r
  BY ONLY <1>2, c \in Nat \ {0}, a \in Int
<1>4. (c * a + y) % c = r
  <2>1. c * a + y \in Int /\ a + q \in Int /\ y \in Int
    BY <1>2
  <2> QED
    BY ONLY <2>1, <1>2, <1>3, c \in Nat \ {0}, ModOf
<1> QED
  BY <1>4 DEF r

LEMMA SentEven ==
    ASSUME NEW L \in Int, NEW p, p = (2 * (L % 241664) + 59) \div 118
    PROVE  \E S \in Int : /\ (L \div 241664) * 241664 + p * 59 = 59 * S
                          /\ 2 * (59 * S - L) <= 59 /\ 2 * (L - 59 * S) <= 59
<1> DEFINE k == L \div 241664
           r == L % 241664
           S == 4096 * k + p
<1>1. k \in Int /\ r \in Int /\ L = 241664 * k + r /\ p = (2 * r + 59) \div 118
  BY SMT
<1> HIDE DEF k, r
<1>2. p \in Int /\ 118 * p <= 2 * r + 59 /\ 2 * r + 59 < 118 * p + 118
  BY <1>1, SMT
<1>3. S \in Int /\ k * 241664 + p * 59 = 59 * S /\ 2 * (59 * S - L) <= 59 /\ 2 * (L - 59 * S) <= 59
  BY <1>1, <1>2, SMT
<1> HIDE DEF S
<1> QED
  BY ONLY <1>3, SMT DEF k

LEMMA SentOdd ==
    ASSUME NEW L \in Int, NEW p, p = (2 * (L % 245760) + 60) \div 120
    PROVE  \E S \in Int : /\ (L \div 245760) * 245760 + p * 60 = 60 * S
                          /\ 2 * (60 * S - L) <= 60 /\ 2 * (L - 60 * S) <= 60
<1> DEFINE k == L \div 245760
           r == L % 245760
           S == 4096 * k + p
<1>1. k \in Int /\ r \in Int /\ L = 245760 * k + r /\ p = (2 * r + 60) \div 120
  BY SMT
<1> HIDE DEF k, r
<1>2. p \in Int /\ 120 * p <= 2 * r + 60 /\ 2 * r + 60 < 120 * p + 120
  BY <1>1, SMT
<1>3. S \in Int /\ k * 245760 + p * 60 = 60 * S /\ 2 * (60 * S - L) <= 60 /\ 2 * (L - 60 * S) <= 60
  BY <1>1, <1>2, SMT
<1> HIDE DEF S
<1> QED
  BY ONLY <1>3, SMT DEF k

\* The zone indices are the difference of the fractions, if both frames are from
\* nearly the same latitude.
LEMMA ZoneIndex ==
    ASSUME NEW E \in Int, NEW O \in Int, 59 * E - 60 * O < 2048, 60 * O - 59 * E < 2048
    PROVE  (59 * (E % 4096) - 60 * (O % 4096) + 2048) \div 4096 = 60 * (O \div 4096) - 59 * (E \div 4096)
  BY SMT

LEMMA EvenZone ==
    ASSUME NEW E \in Int, NEW k \in Int, NEW i \in Int,
           k = E \div 4096, 59 * E <= 3624960, 0 - 3624960 <= 59 * E
    PROVE  \/ (60 * i - 59 * k) % 60 = k /\ 0 <= E
           \/ (60 * i - 59 * k) % 60 = k + 60 /\ E < 0
  BY SMT

LEMMA OddZone ==
    ASSUME NEW O \in Int, NEW k \in Int, NEW i \in Int,
           k = O \div 4096, 60 * O <= 3624960, 0 - 3624960 <= 60 * O
    PROVE  \/ (60 * k - 59 * i) % 59 = k /\ 0 <= O
           \/ (60 * k - 59 * i) % 59 = k + 59 /\ O < 0
  BY SMT

-----------------------------------------------------------------------------
(* The position                                                             *)

\* The latitude at which a frame is sent from latitude L, and its two fields.
SentFrom(odd, L) ==
    (L \div LatCell(odd)) * LatCell(odd)
      + ((2 * (L % LatCell(odd)) + LatCells(~odd)) \div (2 * LatCells(~odd))) * LatCells(~odd)
LatField(odd, L) == (SentFrom(odd, L) \div LatCells(~odd)) % CprN
Fraction(v) == (((v % Circle) + 1770) \div 3540) % CprN
LonField(odd, L, x) == Fraction(x * LonCells(odd, SentFrom(odd, L)))

\* The cell and the fraction of a step counted from 0 degrees.
Cell(S) == S \div 4096
Frac(S) == S % 4096

InSky(L) == L \in Int /\ 4 * AbsOf(L) < Circle

LEMMA CircleIs == /\ Circle = 14499840 /\ CprN = 4096 /\ Circle \div 60 = 241664 /\ Circle \div 59 = 245760
  <1>1. Circle = 14499840 /\ CprN = 4096
    BY SMT DEF Circle, CprN
  <1> QED
    BY <1>1, SMT

LEMMA SkyIs ==
    ASSUME NEW L, InSky(L)
    PROVE  L \in Int /\ 4 * L < 14499840 /\ 0 - 14499840 < 4 * L
  BY CircleIs, SMT DEF InSky, AbsOf

\* The frame tells L in steps of w, the step S is the one nearest to it.
StepOf(S, w, L) == /\ 2 * (w * S - L) <= w /\ 2 * (L - w * S) <= w
                   /\ w * S <= 3624960 /\ 0 - 3624960 <= w * S
SentAt(odd, L, S) == /\ SentFrom(odd, L) = LatCells(~odd) * S
                     /\ LatField(odd, L) = Frac(S)
                     /\ StepOf(S, LatCells(~odd), L)

LEMMA SentIs ==
    ASSUME NEW odd \in BOOLEAN, NEW L, InSky(L)
    PROVE  \E S \in Int : SentAt(odd, L, S)
<1>1. L \in Int /\ 4 * L < 14499840 /\ 0 - 14499840 < 4 * L
  BY SkyIs, SMT
<1>2. CASE odd
  <2>1. LatCells(~odd) = 60 /\ LatCell(odd) = 245760
    BY <1>2, CircleIs, SMT DEF LatCells, LatCell
  <2> DEFINE p == (2 * (L % 245760) + 60) \div 120
  <2>2. PICK S \in Int : /\ (L \div 245760) * 245760 + p * 60 = 60 * S
                         /\ 2 * (60 * S - L) <= 60 /\ 2 * (L - 60 * S) <= 60
    BY <1>1, SentOdd, SMT
  <2>3. SentFrom(odd, L) = 60 * S
    <3>1. SentFrom(odd, L) = (L \div 245760) * 245760
                               + ((2 * (L % 245760) + 60) \div (2 * 60)) * 60
      BY <2>1, SMT DEF SentFrom
    <3>2. 2 * 60 = 120
      BY SMT
    <3> QED
      BY <3>1, <3>2, <2>2, SMT
  <2>4. (60 * S) \div 60 = S
    BY <2>2, SMT
  <2>5. LatField(odd, L) = Frac(S)
    BY <2>1, <2>3, <2>4, CircleIs, SMT DEF LatField, Frac
  <2>6. 60 * S <= 3624960 /\ 0 - 3624960 <= 60 * S
    BY <2>2, <1>1, SMT
  <2> HIDE DEF p
  <2> DEFINE W == LatCells(~odd)
  <2>7. W = 60
    BY <2>1
  <2>8. SentFrom(odd, L) = W * S /\ StepOf(S, W, L)
    BY ONLY <2>7, <2>2, <2>3, <2>6, SMT DEF StepOf
  <2>9. SentAt(odd, L, S) /\ S \in Int
    BY ONLY <2>2, <2>5, <2>8 DEF SentAt, W
  <2> HIDE DEF W
  <2> QED
    BY ONLY <2>9
<1>3. CASE ~odd
  <2>1. LatCells(~odd) = 59 /\ LatCell(odd) = 241664
    BY <1>3, CircleIs, SMT DEF LatCells, LatCell
  <2> DEFINE p == (2 * (L % 241664) + 59) \div 118
  <2>2. PICK S \in Int : /\ (L \div 241664) * 241664 + p * 59 = 59 * S
                         /\ 2 * (59 * S - L) <= 59 /\ 2 * (L - 59 * S) <= 59
    BY <1>1, SentEven, SMT
  <2>3. SentFrom(odd, L) = 59 * S
    <3>1. SentFrom(odd, L) = (L \div 241664) * 241664
                               + ((2 * (L % 241664) + 59) \div (2 * 59)) * 59
      BY <2>1, SMT DEF SentFrom
    <3>2. 2 * 59 = 118
      BY SMT
    <3> QED
      BY <3>1, <3>2, <2>2, SMT
  <2>4. (59 * S) \div 59 = S
    BY <2>2, SMT
  <2>5. LatField(odd, L) = Frac(S)
    BY <2>1, <2>3, <2>4, CircleIs, SMT DEF LatField, Frac
  <2>6. 59 * S <= 3624960 /\ 0 - 3624960 <= 59 * S
    BY <2>2, <1>1, SMT
  <2> HIDE DEF p
  <2> DEFINE W == LatCells(~odd)
  <2>7. W = 59
    BY <2>1
  <2>8. SentFrom(odd, L) = W * S /\ StepOf(S, W, L)
    BY ONLY <2>7, <2>2, <2>3, <2>6, SMT DEF StepOf
  <2>9. SentAt(odd, L, S) /\ S \in Int
    BY ONLY <2>2, <2>5, <2>8 DEF SentAt, W
  <2> HIDE DEF W
  <2> QED
    BY ONLY <2>9
<1> QED
  BY <1>2, <1>3, SMT

LEMMA NLIs ==
    ASSUME NEW L
    PROVE  NL(L) \in Nat /\ 1 <= NL(L) /\ NL(L) <= 59
<1> DEFINE Z == {z \in 1 .. 58 : AbsOf(L) <= ZoneEnds[z]}
<1>1. IsFiniteSet(1 .. 58) /\ Cardinality(1 .. 58) = 58
  <2> DEFINE a == 1
             b == 58
  <2>1. a \in Int /\ b \in Int /\ ~(a > b) /\ b - a + 1 = 58
    OBVIOUS
  <2> HIDE DEF Z, a, b
  <2>2. IsFiniteSet(a .. b) /\ Cardinality(a .. b) = 58
    BY <2>1, FS_Interval
  <2> QED
    BY <2>2 DEF a, b
<1>2. Z \subseteq 1 .. 58
  OBVIOUS
<1> HIDE DEF Z
<1>3. IsFiniteSet(Z) /\ Cardinality(Z) <= 58
  <2>1. IsFiniteSet(Z) /\ Cardinality(Z) <= Cardinality(1 .. 58)
    BY <1>1, <1>2, FS_Subset
  <2> QED
    BY <2>1, <1>1
<1>4. Cardinality(Z) \in Nat
  BY <1>3, FS_CardinalityType
<1> QED
  BY <1>3, <1>4 DEF NL, Z

\* A pair of frames is fresh: the aircraft has hardly moved between them.
Close(a, b) == a - b <= 1900 /\ b - a <= 1900

\* A latitude below the equator is decoded above the pole.
Low(u) == IF 4 * u >= 3 * Circle THEN u - Circle ELSE u

\* The cells around the meridian, in an even and in an odd frame.
EvenCell == 59 * 4096
OddCell == 60 * 4096

\* A pair sent from nearly the same latitude, an even frame at the step E and an
\* odd one at O.
LEMMA LatGlobal ==
    ASSUME NEW E \in Int, NEW O \in Int, NEW K \in Int, NEW L \in Int, NEW j,
           StepOf(E, 59, L), StepOf(O, 60, K), Close(L, K),
           j = (59 * Frac(E) - 60 * Frac(O) + CprN \div 2) \div CprN
    PROVE  /\ Low(EvenCell * (j % 60) + 59 * Frac(E)) = 59 * E
           /\ Low(OddCell * (j % 59) + 60 * Frac(O)) = 60 * O
<1> DEFINE k == E \div 4096
           i == O \div 4096
           e == E % 4096
           o == O % 4096
<1>1. /\ k \in Int /\ e \in Int /\ E = 4096 * k + e /\ 0 <= e /\ e < 4096
      /\ i \in Int /\ o \in Int /\ O = 4096 * i + o /\ 0 <= o /\ o < 4096
  BY SMT
<1>2. j = 60 * i - 59 * k
  <2>1. 59 * E - 60 * O < 2048 /\ 60 * O - 59 * E < 2048
    BY SMT DEF StepOf, Close
  <2>2. j = (59 * (E % 4096) - 60 * (O % 4096) + 2048) \div 4096
    BY CircleIs, SMT DEF Frac
  <2> QED
    BY <2>1, <2>2, ZoneIndex, SMT
<1>3. \/ (60 * i - 59 * k) % 60 = k /\ 0 <= E
      \/ (60 * i - 59 * k) % 60 = k + 60 /\ E < 0
  BY <1>1, EvenZone, SMT DEF StepOf
<1>4. \/ (60 * i - 59 * k) % 59 = i /\ 0 <= O
      \/ (60 * i - 59 * k) % 59 = i + 59 /\ O < 0
  BY <1>1, OddZone, SMT DEF StepOf
<1> HIDE DEF k, i, e, o
<1>0. \A u \in Int : Low(u) = IF 4 * u >= 43499520 THEN u - 14499840 ELSE u
  BY CircleIs, SMT DEF Low
<1>5. Low(241664 * (j % 60) + 59 * e) = 59 * E
  <2> DEFINE t == j % 60
             x == 241664 * t + 59 * e
  <2>1. \/ x = 59 * E /\ 0 <= E
        \/ x = 59 * E + 14499840 /\ E < 0
    <3>1. (t = k /\ 0 <= E) \/ (t = k + 60 /\ E < 0)
      BY <1>2, <1>3
    <3> HIDE DEF t
    <3> QED
      BY <1>1, <3>1, SMT
  <2> HIDE DEF x, t
  <2>2. x \in Int
    BY <2>1, SMT
  <2>3. Low(x) = IF 4 * x >= 43499520 THEN x - 14499840 ELSE x
    BY ONLY <2>2, <1>0, SMT
  <2> QED
    BY <2>1, <2>2, <2>3, SMT DEF x, t, StepOf
<1>6. Low(245760 * (j % 59) + 60 * o) = 60 * O
  <2> DEFINE t == j % 59
             x == 245760 * t + 60 * o
  <2>1. \/ x = 60 * O /\ 0 <= O
        \/ x = 60 * O + 14499840 /\ O < 0
    <3>1. (t = i /\ 0 <= O) \/ (t = i + 59 /\ O < 0)
      BY <1>2, <1>4
    <3> HIDE DEF t
    <3> QED
      BY <1>1, <3>1, SMT
  <2> HIDE DEF x, t
  <2>2. x \in Int
    BY <2>1, SMT
  <2>3. Low(x) = IF 4 * x >= 43499520 THEN x - 14499840 ELSE x
    BY ONLY <2>2, <1>0, SMT
  <2> QED
    BY <2>1, <2>2, <2>3, SMT DEF x, t, StepOf
<1>7. e = Frac(E) /\ o = Frac(O)
  BY SMT DEF e, o, Frac
<1>8. EvenCell = 241664 /\ OddCell = 245760
  BY SMT DEF EvenCell, OddCell
<1>9. Frac(E) \in Int /\ Frac(O) \in Int /\ j \in Int
  BY <1>1, <1>2, <1>7, SMT
<1>10. Low(EvenCell * (j % 60) + 59 * Frac(E)) = 59 * E
  BY ONLY <1>5, <1>7, <1>8, <1>9, SMT
<1>11. Low(OddCell * (j % 59) + 60 * Frac(O)) = 60 * O
  BY ONLY <1>6, <1>7, <1>8, <1>9, SMT
<1> QED
  BY ONLY <1>10, <1>11

\* a is b and no more than B from it, around the circle.
Around(a, b, B) == /\ a \in Int /\ b \in Int
                   /\ \E q, z \in Int : a = b + z + Circle * q /\ z <= B /\ 0 - B <= z

LEMMA AroundIs ==
    ASSUME NEW a, NEW b, NEW B \in Nat, Around(a, b, B), B < 14499840
    PROVE  LonDistance(a, b) <= B
<1>1. PICK q \in Int, z \in Int : a = b + z + 14499840 * q /\ z <= B /\ 0 - B <= z
  BY CircleIs, SMT DEF Around
<1>2. a \in Int /\ b \in Int /\ a - b = 14499840 * q + z
  BY <1>1, SMT DEF Around
<1>3. (a - b) % 14499840 = z % 14499840
  BY <1>1, <1>2, ModShift, SMT
<1>4. z % 14499840 = IF z < 0 THEN z + 14499840 ELSE z
  BY <1>1, SMT
<1> DEFINE d == (a - b) % 14499840
<1>5. LonDistance(a, b) = IF 2 * d > 14499840 THEN 14499840 - d ELSE d
  BY CircleIs, SMT DEF LonDistance
<1>6. d = IF z < 0 THEN z + 14499840 ELSE z
  BY <1>3, <1>4
<1> HIDE DEF d
<1> QED
  BY <1>1, <1>5, <1>6, SMT

LEMMA AroundTurn ==
    ASSUME NEW a, NEW b, NEW B \in Nat, Around(a, b, B), NEW q \in Int
    PROVE  Around(a + Circle * q, b, B)
<1>1. PICK r \in Int, z \in Int : a = b + z + 14499840 * r /\ z <= B /\ 0 - B <= z
  BY CircleIs, SMT DEF Around
<1>2. a + 14499840 * q = b + z + 14499840 * (r + q) /\ r + q \in Int /\ a + 14499840 * q \in Int
  BY <1>1, SMT DEF Around
<1> DEFINE c == a + 14499840 * q
           s == r + q
<1>3. c \in Int /\ b \in Int /\ s \in Int /\ c = b + z + 14499840 * s
  BY <1>2 DEF Around
<1> HIDE DEF c, s
<1>4. Around(c, b, B)
  BY <1>1, <1>3, CircleIs, SMT DEF Around
<1>5. c = a + Circle * q
  BY CircleIs, SMT DEF c
<1> QED
  BY <1>4, <1>5

\* R is the step of x, in steps of which 4096 are one of n cells; the longitude
\* of the fraction r in cell z; how far the last step may be off.
Nearly(R, v) == 3540 * R - v <= 1770 /\ v - 3540 * R <= 1770
Fits(R, n, x) == Nearly(R, n * x)
LonFrom(z, r, n) == (14499840 * z + 3540 * r) \div n
LonStep(n) == 1 + (1770 \div n)

\* A longitude decoded in the right cell, for n cells and the fraction R.
LEMMA LonDecoded ==
    ASSUME NEW n \in Nat \ {0}, NEW R \in Int, NEW x \in Int, NEW q \in Int,
           Fits(R, n, x)
    PROVE  Around(LonFrom(Cell(R) + n * q, Frac(R), n), x, LonStep(n))
<1> DEFINE k == R \div 4096
           r == R % 4096
           d == 3540 * R - n * x
<1>1. k \in Int /\ r \in Int /\ R = 4096 * k + r
  BY SMT
<1>2. d \in Int /\ d <= 1770 /\ 0 - 1770 <= d
  BY SMT DEF Fits, Nearly
<1> HIDE DEF k, r
<1>3. 14499840 * (k + n * q) + 3540 * r = n * (x + 14499840 * q) + d
  <2>1. 14499840 * (k + n * q) = 14499840 * k + n * (14499840 * q)
    BY <1>1, SMT
  <2>2. n * (x + 14499840 * q) = n * x + n * (14499840 * q)
    BY SMT
  <2>3. 14499840 * k + 3540 * r = 3540 * R
    BY <1>1, SMT
  <2>4. n * (14499840 * q) \in Int /\ n * x \in Int
    BY SMT
  <2> DEFINE u == n * (14499840 * q)
             v == n * x
  <2> HIDE DEF u, v
  <2>5. 14499840 * (k + n * q) = 14499840 * k + u /\ n * (x + 14499840 * q) = v + u /\ d = 3540 * R - v
          /\ u \in Int /\ v \in Int
    BY <2>1, <2>2, <2>4 DEF u, v
  <2> QED
    BY ONLY <2>3, <2>5, <1>1, R \in Int, SMT
<1> HIDE DEF d
<1>4. (14499840 * (k + n * q) + 3540 * r) \div n = x + 14499840 * q + (d \div n)
  <2>1. x + 14499840 * q \in Int
    BY SMT
  <2> QED
    BY <1>2, <1>3, <2>1, DivShift, SMT
<1>5. d \div n \in Int /\ d \div n <= 1 + (1770 \div n) /\ 0 - (1 + (1770 \div n)) <= d \div n
  <2> DEFINE b == 1770 \div n
             c == d \div n
  <2>1. b \in Int /\ n * b <= 1770 /\ 1770 < n * b + n
    BY DivMod, SMT
  <2>2. c \in Int /\ n * c <= d /\ d < n * c + n
    BY <1>2, DivMod, SMT
  <2> HIDE DEF b, c
  <2>3. n * c < n * (b + 1) /\ n * (0 - b - 2) < n * c
    BY <1>2, <2>1, <2>2, SMT
  <2>4. c < b + 1 /\ 0 - b - 2 < c
    BY <2>1, <2>2, <2>3, SMT
  <2> QED
    BY <2>1, <2>2, <2>4, SMT DEF b, c
<1>6. (14499840 * (k + n * q) + 3540 * r) \div n = x + (d \div n) + 14499840 * q
  BY <1>4, <1>5, SMT
<1>7. x + (d \div n) + 14499840 * q \in Int
  BY <1>5, SMT
<1> DEFINE a == (14499840 * (k + n * q) + 3540 * r) \div n
           z == d \div n
           B == 1 + (1770 \div n)
<1>8. a = x + z + 14499840 * q /\ z \in Int /\ z <= B /\ 0 - B <= z
  BY <1>5, <1>6
<1>9. a \in Int
  BY <1>6, <1>7
<1> HIDE DEF a, z, B
<1>10. Around(a, x, B)
  BY <1>8, <1>9, CircleIs, SMT DEF Around
<1>11. a = LonFrom(Cell(R) + n * q, Frac(R), n) /\ B = LonStep(n)
  BY SMT DEF a, B, k, r, LonFrom, LonStep, Cell, Frac
<1> QED
  BY <1>10, <1>11

LEMMA Product ==
    ASSUME NEW a \in Nat, NEW A \in Nat, a <= A, NEW y \in Int, NEW Y \in Nat, y <= Y, 0 - Y <= y
    PROVE  a * y \in Int /\ a * y <= A * Y /\ 0 - A * Y <= a * y
<1>1. a * y <= a * Y /\ 0 - a * Y <= a * y
  BY SMT
<1>2. a * Y <= A * Y
  BY SMT
<1> QED
  BY <1>1, <1>2, SMT

LEMMA CellsOrder ==
    ASSUME NEW odd \in BOOLEAN, NEW L
    PROVE  /\ LonCells(odd, L) \in Nat /\ 1 <= LonCells(odd, L) /\ LonCells(odd, L) <= 59
           /\ LonCells(TRUE, L) \in Nat /\ 1 <= LonCells(TRUE, L)
           /\ LonCells(TRUE, L) <= LonCells(odd, L)
  BY NLIs, SMT DEF LonCells, AtLeast1

\* The cells around the circle of an odd frame, if there are nl of an even one.
OddCells(nl) == IF nl = 1 THEN 1 ELSE nl - 1

\* The zone indices of a fresh pair, for nl cells at the even one.
LEMMA LonIndex ==
    ASSUME NEW nl \in Nat, 1 <= nl, nl <= 59, NEW n1, n1 = OddCells(nl),
           NEW E \in Int, NEW O \in Int, NEW x \in Int, NEW y \in Int, NEW m,
           Fits(E, nl, x), Fits(O, n1, y), Close(x, y),
           m = (Frac(E) * (nl - 1) - Frac(O) * nl + CprN \div 2) \div CprN
    PROVE  /\ \E q \in Int : m % nl = Cell(E) + nl * q
           /\ \E q \in Int : m % n1 = Cell(O) + n1 * q
<1> DEFINE k == E \div 4096
           i == O \div 4096
           e == E % 4096
           o == O % 4096
<1>1. /\ k \in Int /\ e \in Int /\ E = 4096 * k + e
      /\ i \in Int /\ o \in Int /\ O = 4096 * i + o
  BY SMT
<1> HIDE DEF k, i, e, o
<1>2. e * (nl - 1) - o * nl + 2048 \in Int
  BY <1>1, SMT
<1>0. k = Cell(E) /\ i = Cell(O) /\ m = (e * (nl - 1) - o * nl + 2048) \div 4096
  BY CircleIs, SMT DEF e, o, k, i, Cell, Frac
<1>3. m \in Int
  BY <1>0, <1>2, SMT
<1>4. CASE nl = 1
  <2>1. n1 = 1 /\ m % 1 = 0
    BY <1>3, <1>4, SMT DEF OddCells
  <2>2. m % nl = k + nl * (0 - k) /\ m % n1 = i + n1 * (0 - i) /\ 0 - k \in Int /\ 0 - i \in Int
    BY <1>1, <1>4, <2>1, SMT
  <2> DEFINE a == 0 - k
             b == 0 - i
  <2>3. m % nl = Cell(E) + nl * a /\ m % n1 = Cell(O) + n1 * b /\ a \in Int /\ b \in Int
    BY <1>0, <2>2
  <2> HIDE DEF a, b
  <2> QED
    BY ONLY <2>3
<1>5. CASE nl # 1
  <2>1. n1 = nl - 1 /\ n1 \in Nat /\ 1 <= n1 /\ n1 <= 58
    BY <1>5, SMT DEF OddCells
  <2> DEFINE a == 3540 * E - nl * x
             b == 3540 * O - n1 * y
             z == x - y
             D == E * n1 - O * nl
  <2>2. /\ a \in Int /\ a <= 1770 /\ 0 - 1770 <= a
        /\ b \in Int /\ b <= 1770 /\ 0 - 1770 <= b
        /\ z \in Int /\ z <= 1900 /\ 0 - 1900 <= z
        /\ D \in Int
    BY <2>1, SMT DEF Fits, Nearly, Close
  <2>3. 3540 * D = n1 * a - nl * b + nl * (n1 * z)
    BY <2>1, SMT
  <2> HIDE DEF a, b, z, D
  <2>4. n1 * a \in Int /\ n1 * a <= 58 * 1770 /\ 0 - 58 * 1770 <= n1 * a
    BY <2>1, <2>2, Product, SMT
  <2>5. nl * b \in Int /\ nl * b <= 59 * 1770 /\ 0 - 59 * 1770 <= nl * b
    BY <2>1, <2>2, Product, SMT
  <2>6. n1 * z \in Int /\ n1 * z <= 58 * 1900 /\ 0 - 58 * 1900 <= n1 * z
    BY <2>1, <2>2, Product, SMT
  <2>7. nl * (n1 * z) \in Int /\ nl * (n1 * z) <= 59 * 110200 /\ 0 - 59 * 110200 <= nl * (n1 * z)
    <3> DEFINE w == n1 * z
    <3>1. w \in Int /\ w <= 110200 /\ 0 - 110200 <= w
      BY <2>6, SMT
    <3> HIDE DEF w
    <3>2. nl * w \in Int /\ nl * w <= 59 * 110200 /\ 0 - 59 * 110200 <= nl * w
      BY <3>1, Product, SMT
    <3> QED
      BY <3>2 DEF w
  <2>8. D < 2048 /\ 0 - 2048 <= D
    BY <2>2, <2>3, <2>4, <2>5, <2>7, SMT
  <2>9. m = i * nl - k * n1
    <3>1. e * (nl - 1) - o * nl + 2048 = (i * nl - k * n1) * 4096 + (D + 2048)
      BY <1>1, <2>1, SMT DEF D
    <3>2. i * nl - k * n1 \in Int /\ D + 2048 \in Int /\ 0 <= D + 2048 /\ D + 2048 < 4096
      BY <1>1, <2>1, <2>2, <2>8, SMT
    <3> DEFINE v == e * (nl - 1) - o * nl + 2048
               g == i * nl - k * n1
               r == D + 2048
    <3>3. m = v \div 4096 /\ v \in Int /\ g \in Int /\ r \in Int /\ v = g * 4096 + r /\ 0 <= r /\ r < 4096
      BY <1>0, <1>2, <3>1, <3>2, SMT
    <3> HIDE DEF v, g, r
    <3>4. m = g
      BY ONLY <3>3, SMT
    <3> QED
      BY <3>4 DEF g
  <2>10. \A n \in Nat \ {0} : m % n = m - n * (m \div n) /\ m \div n \in Int
    <3> TAKE n \in Nat \ {0}
    <3> DEFINE d == m \div n
               r == m % n
    <3>1. d \in Int /\ r \in Int /\ n * d + r = m
      BY <1>3, DivMod
    <3> HIDE DEF d, r
    <3>2. r = m - n * d /\ d \in Int
      BY <1>3, <3>1, SMT
    <3> QED
      BY <3>2 DEF d, r
  <2>11. m % nl = k + nl * (i - k - (m \div nl)) /\ i - k - (m \div nl) \in Int
    <3> DEFINE d == m \div nl
               r == m % nl
    <3>1. r = m - nl * d /\ d \in Int
      BY <2>10
    <3> HIDE DEF d, r
    <3>2. r = k + nl * (i - k - d) /\ i - k - d \in Int
      BY ONLY <1>1, <2>1, <2>9, <3>1, nl \in Nat, SMT
    <3> QED
      BY <3>2 DEF d, r
  <2>12. m % n1 = i + n1 * (i - k - (m \div n1)) /\ i - k - (m \div n1) \in Int
    <3> DEFINE d == m \div n1
               r == m % n1
    <3>1. r = m - n1 * d /\ d \in Int
      BY <2>1, <2>10
    <3> HIDE DEF d, r
    <3>2. r = i + n1 * (i - k - d) /\ i - k - d \in Int
      BY ONLY <1>1, <2>1, <2>9, <3>1, nl \in Nat, SMT
    <3> QED
      BY <3>2 DEF d, r
  <2> DEFINE c == i - k - (m \div nl)
             d == i - k - (m \div n1)
  <2>13. m % nl = Cell(E) + nl * c /\ m % n1 = Cell(O) + n1 * d /\ c \in Int /\ d \in Int
    BY <1>0, <2>11, <2>12
  <2> HIDE DEF c, d
  <2> QED
    BY ONLY <2>13
<1> QED
  BY <1>4, <1>5

LEMMA FractionIs ==
    ASSUME NEW x \in Int
    PROVE  \E R \in Int : Fraction(x) = Frac(R) /\ Nearly(R, x)
<1> DEFINE b == x % 14499840
           q == x \div 14499840
           R0 == (b + 1770) \div 3540
<1>1. b \in Int /\ q \in Int /\ 14499840 * q + b = x
  BY SMT, DivMod
<1> HIDE DEF b, q
<1>2. R0 \in Int /\ 3540 * R0 - b <= 1770 /\ b - 3540 * R0 <= 1770
  BY <1>1, SMT
<1> HIDE DEF R0
<1>3. (4096 * q + R0) % 4096 = R0 % 4096
  BY <1>1, <1>2, ModShift, SMT
<1> DEFINE S == 4096 * q + R0
<1>4. S \in Int /\ Nearly(S, x)
  BY <1>1, <1>2, SMT DEF Nearly
<1>5. Fraction(x) = Frac(S)
  BY <1>3, CircleIs, SMT DEF Fraction, Frac, R0, b
<1> HIDE DEF S
<1> QED
  BY <1>4, <1>5

LEMMA LonFieldIs ==
    ASSUME NEW odd \in BOOLEAN, NEW L, NEW x \in Int, NEW n, n = LonCells(odd, SentFrom(odd, L))
    PROVE  \E R \in Int : LonField(odd, L, x) = Frac(R) /\ Fits(R, n, x)
<1>1. n \in Nat
  BY CellsOrder
<1> DEFINE v == x * n
<1>2. v \in Int /\ v = n * x
  BY <1>1, SMT
<1> HIDE DEF v
<1>3. PICK R \in Int : Fraction(v) = Frac(R) /\ Nearly(R, v)
  BY <1>2, FractionIs
<1>4. LonField(odd, L, x) = Fraction(v)
  BY DEF LonField, v
<1>5. Fits(R, n, x)
  BY <1>2, <1>3 DEF Fits
<1> QED
  BY <1>3, <1>4, <1>5

\* p is where the aircraft at L and x says it is.
Located(p, L, x) ==
    /\ \E odd \in BOOLEAN : p.lat = SentFrom(odd, L)
    /\ Around(p.lon, x, LonStep(LonCells(TRUE, p.lat)))

LEMMA AroundWider ==
    ASSUME NEW a, NEW b, NEW m \in Nat, NEW n \in Nat, 1 <= m, m <= n,
           Around(a, b, LonStep(n))
    PROVE  Around(a, b, LonStep(m))
<1> DEFINE B == LonStep(n)
           C == LonStep(m)
<1>1. B \in Nat /\ C \in Nat /\ B <= C
  <2> DEFINE u == 1770 \div n
             v == 1770 \div m
  <2>1. /\ u \in Int /\ n * u <= 1770 /\ 1770 < n * u + n
        /\ v \in Int /\ m * v <= 1770 /\ 1770 < m * v + m
    BY DivMod, SMT
  <2> HIDE DEF u, v
  <2>2. 0 <= u /\ m * u <= n * u
    BY <2>1, SMT
  <2>3. m * u < m * (v + 1)
    BY <2>1, <2>2, SMT
  <2>4. u <= v
    BY <2>1, <2>3, SMT
  <2> QED
    BY <2>1, <2>2, <2>4, SMT DEF u, v, LonStep
<1>2. Around(a, b, B)
  OBVIOUS
<1> HIDE DEF B, C
<1>3. PICK q \in Int, z \in Int : a = b + z + Circle * q /\ z <= B /\ 0 - B <= z
  BY <1>2 DEF Around
<1>4. z <= C /\ 0 - C <= z
  BY <1>1, <1>3, SMT
<1>5. Around(a, b, C)
  BY <1>2, <1>3, <1>4 DEF Around
<1> QED
  BY <1>5 DEF C

\* A pair of fresh frames gives the place of the newer one.
LEMMA GlobalIs ==
    ASSUME NEW even, NEW odd, NEW L, NEW K, NEW x \in Int, NEW y \in Int, NEW en \in BOOLEAN,
           InSky(L), InSky(K), Close(L, K), Close(x, y),
           even.lat = LatField(FALSE, L), even.lon = LonField(FALSE, L, x),
           odd.lat = LatField(TRUE, K), odd.lon = LonField(TRUE, K, y),
           CprGlobal(even, odd, en) # None
    PROVE  Located(CprGlobal(even, odd, en), IF en THEN L ELSE K, IF en THEN x ELSE y)
<1>1. PICK E \in Int : SentFrom(FALSE, L) = 59 * E /\ even.lat = Frac(E) /\ StepOf(E, 59, L)
  <2>1. LatCells(~FALSE) = 59
    BY SMT DEF LatCells
  <2> QED
    BY <2>1, SentIs DEF SentAt
<1>2. PICK O \in Int : SentFrom(TRUE, K) = 60 * O /\ odd.lat = Frac(O) /\ StepOf(O, 60, K)
  <2>1. LatCells(~TRUE) = 60
    BY SMT DEF LatCells
  <2> QED
    BY <2>1, SentIs DEF SentAt
<1> DEFINE j == (59 * even.lat - 60 * odd.lat + CprN \div 2) \div CprN
           rlatE == Low(LatCell(FALSE) * (j % 60) + 59 * even.lat)
           rlatO == Low(LatCell(TRUE) * (j % 59) + 60 * odd.lat)
           nl == NL(rlatE)
           m == (even.lon * (nl - 1) - odd.lon * nl + CprN \div 2) \div CprN
           newer == IF en THEN even ELSE odd
           ni == AtLeast1(IF en THEN nl ELSE nl - 1)
           lon == (Circle * (m % ni) + 3540 * newer.lon) \div ni
           g == [lat |-> IF en THEN rlatE ELSE rlatO,
                 lon |-> IF 2 * lon >= Circle THEN lon - Circle ELSE lon]
<1>4. CprGlobal(even, odd, en) = IF nl # NL(rlatO) THEN None ELSE g
  BY ONLY SMTT(60) DEF CprGlobal, Low
<1>5. rlatE = 59 * E /\ rlatO = 60 * O
  <2>1. LatCell(FALSE) = EvenCell /\ LatCell(TRUE) = OddCell
    BY CircleIs, SMT DEF LatCell, LatCells, EvenCell, OddCell
  <2>2. j = (59 * Frac(E) - 60 * Frac(O) + CprN \div 2) \div CprN
    BY <1>1, <1>2
  <2> HIDE DEF j
  <2>3. L \in Int /\ K \in Int
    BY DEF InSky
  <2>4. /\ Low(EvenCell * (j % 60) + 59 * Frac(E)) = 59 * E
        /\ Low(OddCell * (j % 59) + 60 * Frac(O)) = 60 * O
    BY <1>1, <1>2, <2>2, <2>3, LatGlobal
  <2> QED
    BY <1>1, <1>2, <2>1, <2>4
<1> HIDE DEF j, rlatE, rlatO, g
<1>6. CprGlobal(even, odd, en) = g /\ nl = NL(rlatO)
  BY <1>4
<1>7. nl \in Nat /\ 1 <= nl /\ nl <= 59
  BY NLIs
<1> HIDE DEF nl
<1> DEFINE n1 == OddCells(nl)
<1>8. LonCells(FALSE, SentFrom(FALSE, L)) = nl /\ LonCells(TRUE, SentFrom(TRUE, K)) = n1
  <2>1. NL(SentFrom(FALSE, L)) = nl /\ NL(SentFrom(TRUE, K)) = nl
    BY <1>1, <1>2, <1>5, <1>6 DEF nl
  <2>2. AtLeast1(nl) = nl /\ AtLeast1(nl - 1) = n1
    BY <1>7, SMT DEF AtLeast1, OddCells
  <2>3. LonCells(FALSE, SentFrom(FALSE, L)) = AtLeast1(NL(SentFrom(FALSE, L)))
    BY DEF LonCells
  <2>4. LonCells(TRUE, SentFrom(TRUE, K)) = AtLeast1(NL(SentFrom(TRUE, K)) - 1)
    BY DEF LonCells
  <2> QED
    BY <2>1, <2>2, <2>3, <2>4
<1>9. ni = IF en THEN nl ELSE n1
  BY <1>7, SMT DEF AtLeast1, OddCells
<1>10. n1 = OddCells(nl) /\ n1 \in Nat \ {0} /\ nl \in Nat \ {0} /\ 1 <= n1 /\ n1 <= nl
  BY <1>7, SMT DEF OddCells
<1> HIDE DEF ni, n1
<1>11. PICK R \in Int : even.lon = Frac(R) /\ Fits(R, nl, x)
  BY <1>8, LonFieldIs
<1>12. PICK Q \in Int : odd.lon = Frac(Q) /\ Fits(Q, n1, y)
  BY <1>8, LonFieldIs
<1>13. m = (Frac(R) * (nl - 1) - Frac(Q) * nl + CprN \div 2) \div CprN
  BY <1>11, <1>12
<1> HIDE DEF m
<1>14. /\ \E q \in Int : m % nl = Cell(R) + nl * q
       /\ \E q \in Int : m % n1 = Cell(Q) + n1 * q
  <2>1. n1 = OddCells(nl) /\ Fits(R, nl, x) /\ Fits(Q, n1, y)
    BY <1>10, <1>11, <1>12
  <2> QED
    BY ONLY <2>1, <1>7, <1>13, x \in Int, y \in Int, R \in Int, Q \in Int, Close(x, y), LonIndex
<1> DEFINE place == IF en THEN x ELSE y
<1>15. Around(lon, place, LonStep(ni)) /\ ni \in Nat /\ 1 <= ni /\ n1 <= ni
  <2>1. CASE en
    <3>1. PICK q \in Int : m % nl = Cell(R) + nl * q
      BY <1>14
    <3>2. Around(LonFrom(Cell(R) + nl * q, Frac(R), nl), x, LonStep(nl))
      BY <1>10, <1>11, LonDecoded
    <3>3. lon = LonFrom(Cell(R) + nl * q, Frac(R), nl)
      BY <1>9, <1>11, <2>1, <3>1, CircleIs, SMT DEF LonFrom
    <3> HIDE DEF lon
    <3> QED
      BY <1>7, <1>9, <1>10, <2>1, <3>2, <3>3
  <2>2. CASE ~en
    <3>1. PICK q \in Int : m % n1 = Cell(Q) + n1 * q
      BY <1>14
    <3>2. Around(LonFrom(Cell(Q) + n1 * q, Frac(Q), n1), y, LonStep(n1))
      BY <1>10, <1>12, LonDecoded
    <3>3. lon = LonFrom(Cell(Q) + n1 * q, Frac(Q), n1)
      BY <1>9, <1>12, <2>2, <3>1, CircleIs, SMT DEF LonFrom
    <3> HIDE DEF lon
    <3> QED
      BY <1>9, <1>10, <2>2, <3>2, <3>3, SMT
  <2> QED
    BY <2>1, <2>2
<1> HIDE DEF lon
<1>16. g.lat = IF en THEN SentFrom(FALSE, L) ELSE SentFrom(TRUE, K)
  BY <1>1, <1>2, <1>5 DEF g
<1>17. LonCells(TRUE, g.lat) = n1
  <2>1. NL(g.lat) = nl
    BY <1>5, <1>6 DEF g, nl
  <2> QED
    BY <1>7, <2>1, SMT DEF LonCells, AtLeast1, OddCells, n1
<1>18. Around(lon, place, LonStep(n1))
  BY <1>10, <1>15, AroundWider
<1>19. Around(g.lon, place, LonStep(n1))
  <2> DEFINE B == LonStep(n1)
  <2>1. B \in Nat
    BY <1>10, SMT DEF LonStep
  <2>2. g.lon = IF 2 * lon >= Circle THEN lon - Circle ELSE lon
    BY DEF g
  <2>3. Around(lon, place, B)
    BY <1>18
  <2> HIDE DEF B, place
  <2>4. lon \in Int
    BY <2>3 DEF Around
  <2>5. CASE 2 * lon >= Circle
    <3>1. Around(lon + Circle * (0 - 1), place, B)
      BY <2>1, <2>3, AroundTurn, SMT
    <3>2. lon + Circle * (0 - 1) = g.lon
      BY <2>2, <2>4, <2>5, CircleIs, SMT
    <3> QED
      BY <3>1, <3>2 DEF B
  <2>6. CASE ~(2 * lon >= Circle)
    BY <2>2, <2>3, <2>6 DEF B
  <2> QED
    BY <2>5, <2>6
<1>20. Located(g, IF en THEN L ELSE K, place)
  <2>1. Around(g.lon, place, LonStep(LonCells(TRUE, g.lat)))
    BY <1>17, <1>19
  <2>2. \E d \in BOOLEAN : g.lat = SentFrom(d, IF en THEN L ELSE K)
    BY <1>16
  <2> QED
    BY <2>1, <2>2 DEF Located
<1> QED
  BY <1>6, <1>20

\* The aircraft has not left the half cell around its last position.
Within(a, b) == a - b <= 120000 /\ b - a <= 120000

\* t turns away, r is closer to the step S than half a circle.
HalfTurn(r, S, t) == /\ 2 * (r - 3540 * S - Circle * t) < Circle
                     /\ 0 - Circle < 2 * (r - 3540 * S - Circle * t)

\* No more than an exact decoding is off.
Slight(z) == z <= 1771 /\ 0 - 1771 <= z

LEMMA NearestIs ==
    ASSUME NEW a \in Int, NEW n \in Int, NEW S \in Int, NEW t \in Int, HalfTurn(a * n, S, t)
    PROVE  Nearest(a, n, Frac(S)) = Cell(S) + t
<1> DEFINE v == a * n
           b == v \div 14499840
           c == v % 14499840
           k == Cell(S)
           f == Frac(S)
<1>1. v \in Int
  BY SMT
<1>2. Nearest(a, n, f) = b + (2 * c - 7080 * f + 14499840) \div 28999680
  BY CircleIs, SMT DEF Nearest
<1>3. 2 * (v - 3540 * S - 14499840 * t) < 14499840 /\ 0 - 14499840 < 2 * (v - 3540 * S - 14499840 * t)
  BY CircleIs, SMT DEF HalfTurn
<1> HIDE DEF v
<1>4. b \in Int /\ c \in Int /\ v = 14499840 * b + c /\ k \in Int /\ f \in Int /\ S = 4096 * k + f
  BY <1>1, SMT DEF Cell, Frac
<1> HIDE DEF b, c, k, f
<1> DEFINE w == 2 * c - 7080 * f + 14499840
           g == k + t - b
           e == 2 * (v - 3540 * S - 14499840 * t) + 14499840
<1>5. w = g * 28999680 + e /\ w \in Int /\ g \in Int /\ e \in Int
  BY <1>1, <1>4, SMT
<1>6. 0 < e /\ e < 28999680
  BY <1>1, <1>3, SMT
<1> HIDE DEF w, g, e
<1>7. w \div 28999680 = g
  BY <1>5, <1>6, SMT
<1> QED
  BY <1>2, <1>4, <1>7, SMT DEF w, g, k, f

\* Near the last position, a frame gives the place it is sent from.
LEMMA LocalIs ==
    ASSUME NEW f, NEW odd \in BOOLEAN, NEW ref, NEW L, NEW K, NEW x \in Int, NEW y \in Int,
           InSky(L), InSky(K), Within(L, K), Within(x, y), Located(ref, K, y),
           f.lat = LatField(odd, L), f.lon = LonField(odd, L, x)
    PROVE  Located(CprLocal(f, odd, ref), L, x)
<1>1. L \in Int /\ K \in Int
  BY DEF InSky
<1>2. PICK S \in Int : SentAt(odd, L, S)
  BY SentIs
<1>3. ref.lat \in Int /\ ref.lat - K <= 30 /\ K - ref.lat <= 30
  <2>1. PICK d \in BOOLEAN : ref.lat = SentFrom(d, K)
    BY DEF Located
  <2>2. PICK T \in Int : SentAt(d, K, T)
    BY SentIs
  <2> DEFINE w == LatCells(~d)
  <2>3. w \in {59, 60}
    BY DEF LatCells
  <2>4. ref.lat = w * T /\ StepOf(T, w, K)
    BY <2>1, <2>2 DEF SentAt
  <2> HIDE DEF w
  <2> QED
    BY <1>1, <2>2, <2>3, <2>4, SMT DEF StepOf
<1>4. Nearest(ref.lat, LatCells(odd), f.lat) = Cell(S) /\ f.lat = Frac(S)
  <2> DEFINE a == ref.lat
             n == LatCells(odd)
             w == LatCells(~odd)
  <2>1. (n = 59 /\ w = 60) \/ (n = 60 /\ w = 59)
    BY SMT DEF LatCells
  <2>2. StepOf(S, w, L) /\ f.lat = Frac(S)
    BY <1>2 DEF SentAt
  <2>3. a \in Int /\ a - K <= 30 /\ K - a <= 30
    BY <1>3
  <2> HIDE DEF a, n, w
  <2>4. n \in Int /\ HalfTurn(a * n, S, 0)
    BY <1>1, <2>1, <2>2, <2>3, CircleIs, SMT DEF StepOf, Within, HalfTurn
  <2>5. Nearest(a, n, Frac(S)) = Cell(S) + 0
    BY <2>3, <2>4, NearestIs, SMT
  <2>6. Cell(S) \in Int
    BY SMT DEF Cell
  <2>7. Cell(S) + 0 = Cell(S)
    BY <2>6, SMT
  <2> QED
    BY <2>2, <2>5, <2>7 DEF a, n
<1> DEFINE lat == LatCell(odd) * Nearest(ref.lat, LatCells(odd), f.lat) + LatCells(~odd) * f.lat
           n == LonCells(odd, lat)
           lon == (Circle * Nearest(ref.lon, n, f.lon) + 3540 * f.lon) \div n
<1>5. lat = SentFrom(odd, L)
  <2> DEFINE w == LatCells(~odd)
             c == LatCell(odd)
  <2>1. (c = 245760 /\ w = 60) \/ (c = 241664 /\ w = 59)
    BY CircleIs, SMT DEF LatCell, LatCells
  <2>2. lat = c * Cell(S) + w * Frac(S)
    BY <1>4
  <2>3. SentFrom(odd, L) = w * S
    BY <1>2 DEF SentAt
  <2> HIDE DEF w, c, lat
  <2>4. lat = w * S
    BY <2>1, <2>2, SMT DEF Cell, Frac
  <2> QED
    BY <2>3, <2>4
<1> HIDE DEF lat
<1>6. /\ n \in Nat \ {0} /\ n <= 59 /\ LonCells(TRUE, lat) \in Nat /\ 1 <= LonCells(TRUE, lat)
      /\ LonCells(TRUE, lat) <= n /\ 1 <= n
  <2>1. n \in Nat /\ 1 <= n /\ n <= 59
    BY CellsOrder
  <2>2. n \in Nat \ {0}
    BY <2>1, SMT
  <2> QED
    BY <2>1, <2>2, CellsOrder
<1> HIDE DEF n
<1>7. PICK R \in Int : f.lon = Frac(R) /\ Fits(R, n, x)
  BY <1>5, LonFieldIs DEF n
<1>8. PICK q \in Int, z \in Int : ref.lon = y + z + Circle * q /\ Slight(z)
  <2> DEFINE l == LonCells(TRUE, ref.lat)
             B == LonStep(l)
  <2>1. l \in Nat /\ 1 <= l
    BY CellsOrder
  <2>2. Around(ref.lon, y, B)
    BY DEF Located
  <2> HIDE DEF l
  <2>3. B \in Nat /\ B <= 1771
    BY <2>1, SMT DEF LonStep
  <2> HIDE DEF B
  <2>4. PICK q \in Int, z \in Int : ref.lon = y + z + Circle * q /\ z <= B /\ 0 - B <= z
    BY <2>2 DEF Around
  <2>5. Slight(z)
    BY <2>3, <2>4, SMT DEF Slight
  <2> QED
    BY <2>4, <2>5
<1>9. Nearest(ref.lon, n, f.lon) = Cell(R) + n * q
  <2> DEFINE a == ref.lon
             u == n * (y - x + z)
             d == n * x - 3540 * R
             t == n * q
  <2>1. a \in Int /\ a = y + z + 14499840 * q
    BY <1>8, CircleIs, SMT
  <2>2. u \in Int /\ u <= 59 * 121771 /\ 0 - 59 * 121771 <= u
    <3> DEFINE s == y - x + z
    <3>1. s \in Int /\ s <= 121771 /\ 0 - 121771 <= s
      BY <1>8, SMT DEF Within, Slight
    <3> HIDE DEF s
    <3>2. n * s \in Int /\ n * s <= 59 * 121771 /\ 0 - 59 * 121771 <= n * s
      BY <1>6, <3>1, Product, SMT
    <3> QED
      BY <3>2 DEF s
  <2>3. d \in Int /\ d <= 1770 /\ 0 - 1770 <= d
    BY <1>6, <1>7, SMT DEF Fits, Nearly
  <2>4. a * n - 3540 * R - 14499840 * t = u + d /\ t \in Int /\ a * n \in Int
    BY <1>6, <2>1, SMT
  <2> HIDE DEF a, u, d
  <2>5. HalfTurn(a * n, R, t)
    <3> DEFINE v == a * n
    <3> HIDE DEF v, t
    <3>1. v \in Int /\ t \in Int /\ v - 3540 * R - 14499840 * t = u + d
      BY <2>4 DEF v
    <3>2. HalfTurn(v, R, t)
      BY <2>2, <2>3, <3>1, CircleIs, SMT DEF HalfTurn
    <3> QED
      BY <3>2 DEF v
  <2> HIDE DEF t
  <2>6. Nearest(a, n, Frac(R)) = Cell(R) + t
    BY <1>6, <2>1, <2>4, <2>5, NearestIs
  <2> QED
    BY <1>7, <2>6 DEF a, t
<1>10. lon = LonFrom(Cell(R) + n * q, Frac(R), n)
  BY <1>7, <1>9, CircleIs, SMT DEF LonFrom
<1>11. n \in Nat \ {0} /\ n \in Nat /\ Fits(R, n, x)
  BY <1>6, <1>7
<1> DEFINE p == [lat |-> lat, lon |-> lon]
<1>14. CprLocal(f, odd, ref) = p
  BY DEF CprLocal, lat, lon, n
<1> HIDE DEF lon
<1>12. Around(lon, x, LonStep(n))
  BY ONLY <1>10, <1>11, R \in Int, q \in Int, x \in Int, LonDecoded
<1>13. Around(lon, x, LonStep(LonCells(TRUE, lat)))
  BY ONLY <1>6, <1>11, <1>12, AroundWider
<1>15. p.lat = lat /\ p.lon = lon
  OBVIOUS
<1> HIDE DEF p
<1>16. \E d \in BOOLEAN : p.lat = SentFrom(d, L)
  BY <1>5, <1>15
<1>17. Around(p.lon, x, LonStep(LonCells(TRUE, p.lat)))
  BY <1>13, <1>15
<1> QED
  BY <1>14, <1>16, <1>17 DEF Located

-----------------------------------------------------------------------------
(* The aircraft table                                                       *)

Lat(f, t) == f.lat + f.north * t
Lon(f, t) == f.lon + f.east * t
Height(f, t, gnss) == f.alt + f.up * t + (IF gnss THEN f.gnss ELSE 0)

\* The sky a flight f stays in until now.
Sky(f, now) ==
    /\ f \in Starts /\ now \in Nat
    /\ \/ now <= MaxTick
       \/ AwayTicks <= now /\ now <= AwayTicks + MaxTick /\ InSky(Lat(f, AwayTicks + MaxTick))

LEMMA StartIs ==
    ASSUME NEW f \in Starts
    PROVE  /\ f.lat \in Int /\ f.lon \in Int /\ f.north \in Int /\ f.east \in Int
           /\ f.alt \in Int /\ f.up \in Int /\ f.alt % 25 = 0 /\ f.up % 25 = 0
           /\ f.gnss \in Int /\ f.gnss % 25 = 0
           /\ f.vel \in Int \X Int \X Int
           /\ f.vel[1] % 4 = 0 /\ f.vel[2] % 4 = 0 /\ f.vel[3] % 64 = 0
           /\ InSky(f.lat) /\ InSky(f.lat + f.north * MaxTick)
           /\ CprMaxAge * AbsOf(f.north) <= 1900 /\ CprMaxAge * AbsOf(f.east) <= 1900
<1>1. /\ f.lat \in Int /\ f.lon \in Int /\ f.north \in Int /\ f.east \in Int
      /\ f.alt \in Int /\ f.up \in Int /\ f.gnss \in Int
  BY StartsAssumption
<1>2. /\ f.alt % 25 = 0 /\ f.up % 25 = 0 /\ f.gnss % 25 = 0 /\ f.vel \in Int \X Int \X Int
      /\ f.vel[1] % 4 = 0 /\ f.vel[2] % 4 = 0 /\ f.vel[3] % 64 = 0
  BY StartsAssumption, SMT
<1>3. \A t \in {0, MaxTick} : 4 * AbsOf(f.lat + f.north * t) < Circle
  BY StartsAssumption, SMT
<1>4. InSky(f.lat) /\ InSky(f.lat + f.north * MaxTick)
  <2>1. 4 * AbsOf(f.lat + f.north * 0) < Circle /\ 4 * AbsOf(f.lat + f.north * MaxTick) < Circle
    BY <1>3
  <2>2. f.lat + f.north * 0 = f.lat /\ f.lat + f.north * MaxTick \in Int
    BY <1>1, AircraftAssumption, SMT
  <2> QED
    BY <1>1, <2>1, <2>2 DEF InSky
<1>5. CprMaxAge * AbsOf(f.north) <= 1900 /\ CprMaxAge * AbsOf(f.east) <= 1900
  BY StartsAssumption, SMT
<1> QED
  BY ONLY <1>1, <1>2, <1>4, <1>5, SMT

LEMMA Straight ==
    ASSUME NEW a \in Int, NEW v \in Int, NEW t \in Nat, NEW T \in Nat, t <= T,
           InSky(a), InSky(a + v * T)
    PROVE  InSky(a + v * t)
<1>1. 0 <= v => 0 <= v * t /\ v * t <= v * T
  BY SMT
<1>2. v < 0 => v * t <= 0 /\ v * T <= v * t
  BY SMT
<1> DEFINE x == v * t
           y == v * T
<1>3. x \in Int /\ y \in Int /\ ((0 <= x /\ x <= y) \/ (x <= 0 /\ y <= x))
  BY <1>1, <1>2, SMT
<1>4. InSky(a + y)
  OBVIOUS
<1> HIDE DEF x, y
<1>5. InSky(a + x)
  BY <1>3, <1>4, CircleIs, SMT DEF InSky, AbsOf
<1> QED
  BY <1>5 DEF x

LEMMA SkyAt ==
    ASSUME NEW f, NEW now, Sky(f, now), NEW t \in Nat, t <= now
    PROVE  InSky(Lat(f, t)) /\ Lat(f, t) \in Int /\ Lon(f, t) \in Int
<1>1. f \in Starts /\ now \in Nat
  BY DEF Sky
<1>2. /\ f.lat \in Int /\ f.lon \in Int /\ f.north \in Int /\ f.east \in Int
      /\ InSky(f.lat) /\ InSky(f.lat + f.north * MaxTick)
  BY <1>1, StartIs
<1>3. CASE now <= MaxTick
  <2>1. MaxTick \in Nat /\ t <= MaxTick
    BY <1>1, <1>3, AircraftAssumption, SMT
  <2>2. InSky(f.lat + f.north * t)
    BY <1>2, <2>1, Straight
  <2> QED
    BY <1>2, <2>2, SMT DEF Lat, Lon
<1>4. CASE AwayTicks <= now /\ now <= AwayTicks + MaxTick /\ InSky(Lat(f, AwayTicks + MaxTick))
  <2> DEFINE T == AwayTicks + MaxTick
  <2>1. T \in Nat /\ t <= T
    BY <1>1, <1>4, AircraftAssumption, SMT
  <2>2. InSky(f.lat + f.north * T)
    BY <1>4 DEF Lat
  <2> HIDE DEF T
  <2>3. InSky(f.lat + f.north * t)
    BY <1>2, <2>1, <2>2, Straight
  <2> QED
    BY <1>2, <2>3, SMT DEF Lat, Lon
<1> QED
  BY <1>3, <1>4 DEF Sky

Off(a, b, B) == a - b <= B /\ b - a <= B

LEMMA Drift ==
    ASSUME NEW a \in Int, NEW v \in Int, NEW N \in Nat, NEW B \in Nat, N * AbsOf(v) <= B,
           NEW t \in Nat, NEW u \in Nat, t - u <= N, u - t <= N
    PROVE  Off(a + v * t, a + v * u, B)
<1> DEFINE w == AbsOf(v)
           d == t - u
<1>1. w \in Nat /\ v <= w /\ 0 - w <= v
  BY SMT DEF AbsOf
<1>2. d \in Int /\ d <= N /\ 0 - N <= d
  BY SMT
<1>3. N * w <= B
  OBVIOUS
<1>4. (a + v * t) - (a + v * u) = v * d /\ (a + v * u) - (a + v * t) = 0 - v * d
  BY SMT
<1> HIDE DEF w, d
<1>5. w * d \in Int /\ w * d <= w * N /\ 0 - w * N <= w * d
  BY <1>1, <1>2, Product, SMT
<1>6. v * d <= w * N /\ 0 - w * N <= v * d
  <2>1. CASE 0 <= d
    <3>1. v * d <= w * d /\ 0 - w * d <= v * d
      BY <1>1, <1>2, <2>1, SMT
    <3> QED
      BY <1>1, <1>2, <1>5, <3>1, SMT
  <2>2. CASE d < 0
    <3>1. w * d <= v * d /\ v * d <= 0 - w * d
      BY <1>1, <1>2, <2>2, SMT
    <3> QED
      BY <1>1, <1>2, <1>5, <3>1, SMT
  <2> QED
    BY <1>2, <2>1, <2>2, SMT
<1> QED
  BY <1>1, <1>2, <1>3, <1>4, <1>6, SMT DEF Off

\* The frames of a pair are from close by.
LEMMA PairClose ==
    ASSUME NEW f \in Starts, NEW t \in Nat, NEW u \in Nat, AbsOf(t - u) < CprMaxAge
    PROVE  Close(Lat(f, t), Lat(f, u)) /\ Close(Lon(f, t), Lon(f, u))
<1>1. t - u <= CprMaxAge /\ u - t <= CprMaxAge /\ CprMaxAge \in Nat
  BY AircraftAssumption, SMT DEF AbsOf
<1> DEFINE B == 1900
<1>2. /\ f.lat \in Int /\ f.lon \in Int /\ f.north \in Int /\ f.east \in Int
      /\ B \in Nat /\ CprMaxAge * AbsOf(f.north) <= B /\ CprMaxAge * AbsOf(f.east) <= B
  BY StartIs, SMT
<1> HIDE DEF B
<1>3. Off(f.lat + f.north * t, f.lat + f.north * u, B)
  BY <1>1, <1>2, Drift
<1>4. Off(f.lon + f.east * t, f.lon + f.east * u, B)
  BY <1>1, <1>2, Drift
<1> QED
  BY <1>3, <1>4 DEF Off, Close, Lat, Lon, B

\* A frame was sent by the flight f before now.
FrameIs(r, odd, f, now) ==
    /\ r.t \in Nat /\ r.t < now
    /\ r.lat = LatField(odd, Lat(f, r.t))
    /\ r.lon = LonField(odd, Lat(f, r.t), Lon(f, r.t))

FramesAre(a, f, now) == /\ a.even # None => FrameIs(a.even, FALSE, f, now)
                        /\ a.odd # None => FrameIs(a.odd, TRUE, f, now)

LEMMA LaterFrames ==
    ASSUME NEW a, NEW b, NEW f, NEW now \in Nat, FramesAre(a, f, now), b.even = a.even, b.odd = a.odd
    PROVE  FramesAre(b, f, now + 1)
<1>1. ASSUME NEW r, NEW d, FrameIs(r, d, f, now)
      PROVE  FrameIs(r, d, f, now + 1)
  <2>1. r.t \in Nat /\ r.t < now + 1
    BY <1>1, SMT DEF FrameIs
  <2> QED
    BY <1>1, <2>1 DEF FrameIs
<1> QED
  BY <1>1 DEF FramesAre

Shape(a) == a = [even |-> a.even, odd |-> a.odd, pos |-> a.pos,
                 alt |-> a.alt, vel |-> a.vel, seen |-> a.seen]

\* a's position, if it has one, is where the flight f was at t.
PlaceIs(a, f, t) == a.pos # None => Located(a.pos, Lat(f, t), Lon(f, t))

\* It is where it was at its last position message, unless it is lost.
Placed(a, f, l, now) ==
    ~l.lost => /\ a.pos # None => l.pos \in Nat /\ l.pos < now
               /\ PlaceIs(a, f, l.pos)

\* The frame of the message that is heard now.
FrameOf(me) == [lat |-> me.lat, lon |-> me.lon, t |-> tick]

\* me is a position message of the flight now.
SentNow(me, odd) == /\ me.odd = odd
                    /\ me.lat = LatField(odd, Lat(flight, tick))
                    /\ me.lon = LonField(odd, Lat(flight, tick), Lon(flight, tick))

LEMMA HeardIs ==
    ASSUME NEW odd \in BOOLEAN, NEW gnss, NEW gillham
    PROVE  SentNow(PositionME(odd, gnss, gillham), odd)
<1> DEFINE me == PositionME(odd, gnss, gillham)
<1>1. LatAt(tick) = Lat(flight, tick) /\ LonAt(tick) = Lon(flight, tick)
  BY DEF LatAt, LonAt, Lat, Lon
<1>2. SentLat(odd) = SentFrom(odd, Lat(flight, tick))
  BY <1>1 DEF SentLat, SentFrom
<1>3. me.lat = (SentLat(odd) \div LatCells(~odd)) % CprN /\ me.lon = LonFraction(odd) /\ me.odd = odd
  BY DEF PositionME
<1> HIDE DEF me
<1>4. me.lat = LatField(odd, Lat(flight, tick))
  BY <1>2, <1>3 DEF LatField
<1>5. me.lon = LonField(odd, Lat(flight, tick), Lon(flight, tick))
  BY <1>1, <1>2, <1>3 DEF LonField, LonFraction, Fraction
<1> QED
  BY <1>3, <1>4, <1>5 DEF SentNow, me

LEMMA WithFrameIs ==
    ASSUME Sky(flight, tick), NEW odd \in BOOLEAN, NEW me, SentNow(me, odd),
           NEW a, Shape(a), FramesAre(a, flight, tick), NEW b, b = WithFrame(a, me)
    PROVE  /\ Shape(b) /\ FramesAre(b, flight, tick + 1)
           /\ b.pos = a.pos /\ b.alt = a.alt /\ b.vel = a.vel /\ b.seen = a.seen
           /\ IF odd THEN b.odd.t = tick /\ b.even = a.even ELSE b.even.t = tick /\ b.odd = a.odd
<1> DEFINE h == FrameOf(me)
<1>1. FrameIs(h, odd, flight, tick + 1) /\ h.t = tick
  <2>1. h.t = tick /\ h.lat = me.lat /\ h.lon = me.lon
    BY DEF FrameOf
  <2>2. tick \in Nat /\ tick < tick + 1
    BY SMT DEF Sky
  <2> HIDE DEF h
  <2> QED
    BY <2>1, <2>2 DEF FrameIs, SentNow
<1>2. FramesAre(a, flight, tick + 1)
  BY LaterFrames DEF Sky
<1>0. b = IF odd THEN [a EXCEPT !.odd = h] ELSE [a EXCEPT !.even = h]
  BY DEF WithFrame, FrameOf, SentNow
<1> HIDE DEF h
<1>3. CASE odd
  <2>1. b = [a EXCEPT !.odd = h]
    BY <1>0, <1>3
  <2>2. /\ b = [even |-> a.even, odd |-> h, pos |-> a.pos, alt |-> a.alt, vel |-> a.vel, seen |-> a.seen]
    BY <2>1, SMT DEF Shape
  <2>3. /\ b.even = a.even /\ b.odd = h /\ b.pos = a.pos /\ b.alt = a.alt /\ b.vel = a.vel
        /\ b.seen = a.seen
    BY <2>2
  <2>4. Shape(b)
    BY ONLY <2>2, <2>3 DEF Shape
  <2>5. odd = TRUE
    BY <1>3
  <2>6. FrameIs(h, TRUE, flight, tick + 1)
    BY ONLY <1>1, <2>5
  <2>7. a.even # None => FrameIs(a.even, FALSE, flight, tick + 1)
    BY <1>2 DEF FramesAre
  <2>8. FramesAre(b, flight, tick + 1)
    BY ONLY <2>3, <2>6, <2>7 DEF FramesAre
  <2> QED
    BY <1>1, <1>3, <2>3, <2>4, <2>8
<1>4. CASE ~odd
  <2>1. b = [a EXCEPT !.even = h]
    BY <1>0, <1>4
  <2>2. /\ b = [even |-> h, odd |-> a.odd, pos |-> a.pos, alt |-> a.alt, vel |-> a.vel, seen |-> a.seen]
    BY <2>1, SMT DEF Shape
  <2>3. /\ b.even = h /\ b.odd = a.odd /\ b.pos = a.pos /\ b.alt = a.alt /\ b.vel = a.vel
        /\ b.seen = a.seen
    BY <2>2
  <2>4. Shape(b)
    BY ONLY <2>2, <2>3 DEF Shape
  <2>5. odd = FALSE
    BY <1>4
  <2>6. FrameIs(h, FALSE, flight, tick + 1)
    BY ONLY <1>1, <2>5
  <2>7. a.odd # None => FrameIs(a.odd, TRUE, flight, tick + 1)
    BY <1>2 DEF FramesAre
  <2>8. FramesAre(b, flight, tick + 1)
    BY ONLY <2>3, <2>6, <2>7 DEF FramesAre
  <2> QED
    BY <1>1, <1>4, <2>3, <2>4, <2>8
<1> QED
  BY <1>3, <1>4

\* A fresh pair, one of its frames heard now, gives the place now.
LEMMA PairGives ==
    ASSUME Sky(flight, tick), NEW odd \in BOOLEAN, NEW me, SentNow(me, odd),
           NEW a, Shape(a), FramesAre(a, flight, tick), NEW b, b = WithFrame(a, me),
           Pair(b), NEW g, g = CprGlobal(b.even, b.odd, b.even.t > b.odd.t), g # None
    PROVE  Located(g, Lat(flight, tick), Lon(flight, tick))
<1> DEFINE e == b.even
           o == b.odd
           en == e.t > o.t
<1>1. FrameIs(e, FALSE, flight, tick + 1) /\ FrameIs(o, TRUE, flight, tick + 1)
  BY WithFrameIs DEF FramesAre, Pair
<1>2. AbsOf(e.t - o.t) < CprMaxAge
  BY DEF Pair
<1>3. IF odd THEN o.t = tick /\ e = a.even ELSE e.t = tick /\ o = a.odd
  BY WithFrameIs
<1>4. IF en THEN e.t = tick ELSE o.t = tick
  <2>1. e # None /\ o # None
    BY DEF Pair
  <2>2. CASE odd
    <3>1. o.t = tick /\ e = a.even
      BY <1>3, <2>2
    <3>2. FrameIs(a.even, FALSE, flight, tick)
      BY <2>1, <3>1 DEF FramesAre
    <3>3. e.t \in Nat /\ e.t < tick /\ tick \in Nat
      BY <3>1, <3>2 DEF FrameIs, Sky
    <3> QED
      BY <3>1, <3>3, SMT
  <2>3. CASE ~odd
    <3>1. e.t = tick /\ o = a.odd
      BY <1>3, <2>3
    <3>2. FrameIs(a.odd, TRUE, flight, tick)
      BY <2>1, <3>1 DEF FramesAre
    <3>3. o.t \in Nat /\ o.t < tick /\ tick \in Nat
      BY <3>1, <3>2 DEF FrameIs, Sky
    <3> QED
      BY <3>1, <3>3, SMT
  <2> QED
    BY <2>2, <2>3
<1>5. en \in BOOLEAN
  OBVIOUS
<1>6. g = CprGlobal(e, o, en)
  OBVIOUS
<1> HIDE DEF en, e, o
<1> DEFINE L == Lat(flight, e.t)
           K == Lat(flight, o.t)
           x == Lon(flight, e.t)
           y == Lon(flight, o.t)
<1>7. /\ e.lat = LatField(FALSE, L) /\ e.lon = LonField(FALSE, L, x)
      /\ o.lat = LatField(TRUE, K) /\ o.lon = LonField(TRUE, K, y)
      /\ e.t \in Nat /\ o.t \in Nat
  BY <1>1 DEF FrameIs
<1>8. e.t <= tick /\ o.t <= tick
  BY <1>1, SMT DEF FrameIs, Sky
<1>9. InSky(L) /\ InSky(K) /\ x \in Int /\ y \in Int
  BY <1>7, <1>8, SkyAt
<1>10. Close(L, K) /\ Close(x, y)
  BY <1>2, <1>7, PairClose DEF Sky
<1>11. (IF en THEN L ELSE K) = Lat(flight, tick) /\ (IF en THEN x ELSE y) = Lon(flight, tick)
  BY <1>4
<1> HIDE DEF L, K, x, y
<1>12. Located(CprGlobal(e, o, en), IF en THEN L ELSE K, IF en THEN x ELSE y)
  BY ONLY <1>5, <1>6, <1>7, <1>9, <1>10, g # None, GlobalIs
<1> QED
  BY <1>6, <1>11, <1>12

\* The place after a position message is the one now, unless it is lost.
LEMMA UpdateIs ==
    ASSUME Sky(flight, tick), NEW odd \in BOOLEAN, NEW me, SentNow(me, odd),
           NEW a, Shape(a), FramesAre(a, flight, tick), NEW c, c = UpdatePosition(a, me),
           Placed(a, flight, last, tick)
    PROVE  /\ Shape(c) /\ FramesAre(c, flight, tick + 1)
           /\ c.alt = a.alt /\ c.vel = a.vel /\ c.seen = a.seen
           /\ ~Lost(a, me) => PlaceIs(c, flight, tick)
<1> DEFINE b == WithFrame(a, me)
           g == Global(b)
           l == Local(a, me)
<1>2. c = [b EXCEPT !.pos = Or(g, l)]
  BY DEF UpdatePosition
<1>3. /\ Shape(b) /\ FramesAre(b, flight, tick + 1)
      /\ b.alt = a.alt /\ b.vel = a.vel /\ b.seen = a.seen
  BY WithFrameIs
<1>4. g # None => Located(g, Lat(flight, tick), Lon(flight, tick))
  BY PairGives DEF Global
<1>5. ASSUME g = None, l # None, ~Lost(a, me)
      PROVE  Located(l, Lat(flight, tick), Lon(flight, tick))
  <2> DEFINE u == last.pos
  <2>1. l = CprLocal(me, odd, a.pos) /\ a.pos # None
    BY <1>5 DEF Local, SentNow
  <2>2. ~last.lost /\ ~Far
    BY <1>5, <2>1 DEF Lost
  <2>3. u \in Nat /\ u < tick /\ Located(a.pos, Lat(flight, u), Lon(flight, u))
    BY <2>1, <2>2 DEF Placed, PlaceIs
  <2>4. tick \in Nat /\ tick <= tick /\ u <= tick
    BY <2>3, SMT DEF Sky
  <2>5. /\ InSky(Lat(flight, tick)) /\ Lat(flight, tick) \in Int /\ Lon(flight, tick) \in Int
        /\ InSky(Lat(flight, u)) /\ Lat(flight, u) \in Int /\ Lon(flight, u) \in Int
    BY <2>3, <2>4, SkyAt
  <2>6. Within(Lat(flight, tick), Lat(flight, u)) /\ Within(Lon(flight, tick), Lon(flight, u))
    <3>1. /\ LatAt(tick) = Lat(flight, tick) /\ LonAt(tick) = Lon(flight, tick)
          /\ LatAt(last.pos) = Lat(flight, u) /\ LonAt(last.pos) = Lon(flight, u)
      BY DEF LatAt, LonAt, Lat, Lon
    <3>2. /\ ~(AbsOf(Lat(flight, tick) - Lat(flight, u)) > 120000)
          /\ ~(AbsOf(Lon(flight, tick) - Lon(flight, u)) > 120000)
      BY <2>2, <3>1 DEF Far, HalfCell
    <3>3. ASSUME NEW x \in Int, NEW y \in Int, ~(AbsOf(x - y) > 120000)
          PROVE  Within(x, y)
      BY <3>3, SMT DEF AbsOf, Within
    <3> QED
      BY <2>5, <3>2, <3>3
  <2>7. me.lat = LatField(odd, Lat(flight, tick)) /\ me.lon = LonField(odd, Lat(flight, tick), Lon(flight, tick))
    BY DEF SentNow
  <2> HIDE DEF l, u
  <2> QED
    BY <2>1, <2>3, <2>5, <2>6, <2>7, LocalIs
<1> HIDE DEF b, g, l
<1>6. c = [even |-> b.even, odd |-> b.odd, pos |-> Or(g, l), alt |-> b.alt, vel |-> b.vel, seen |-> b.seen]
  BY <1>2, <1>3, SMT DEF Shape
<1>7. /\ c.even = b.even /\ c.odd = b.odd /\ c.pos = Or(g, l) /\ c.alt = b.alt /\ c.vel = b.vel
      /\ c.seen = b.seen
  BY <1>6
<1>8. Shape(c)
  BY ONLY <1>6, <1>7 DEF Shape
<1>9. FramesAre(c, flight, tick + 1)
  BY ONLY <1>3, <1>7 DEF FramesAre
<1>10. ~Lost(a, me) => PlaceIs(c, flight, tick)
  BY <1>4, <1>5, <1>7 DEF PlaceIs, Or
<1> QED
  BY <1>3, <1>7, <1>8, <1>9, <1>10

-----------------------------------------------------------------------------
(* The other fields                                                         *)

LEMMA AltitudeIs ==
    ASSUME flight \in Starts, tick \in Nat, NEW odd, NEW gnss \in BOOLEAN, NEW gillham \in BOOLEAN
    PROVE  DecodeAltitude(PositionME(odd, gnss, gillham).ac) \in {None, Height(flight, tick, gnss)}
<1> DEFINE A == Height(flight, tick, gnss)
           n == (A + 1000) \div 25
           q == n \div 16
           r == n % 16
           ac == IF gillham THEN q * 32 + r ELSE q * 32 + 16 + r
<1>1. PositionME(odd, gnss, gillham).ac = ac
  BY DEF PositionME, HeightAt, Height
<1>2. /\ flight.alt \in Int /\ flight.alt % 25 = 0 /\ flight.up \in Int /\ flight.up % 25 = 0
      /\ flight.gnss \in Int /\ flight.gnss % 25 = 0
  BY StartIs
<1>3. A \in Int /\ A = 25 * n - 1000 /\ n \in Int
  <2> DEFINE c == flight.alt \div 25
             d == flight.up \div 25
             o == flight.gnss \div 25
  <2>1. /\ c \in Int /\ d \in Int /\ o \in Int
        /\ flight.alt = 25 * c /\ flight.up = 25 * d /\ flight.gnss = 25 * o
    BY <1>2, SMT
  <2> HIDE DEF c, d, o
  <2>2. flight.up * tick = 25 * (d * tick) /\ d * tick \in Int
    BY <2>1, SMT
  <2> DEFINE e == d * tick
             i == IF gnss THEN o ELSE 0
  <2>3. A = 25 * (c + e + i) /\ e \in Int /\ i \in Int
    BY <2>1, <2>2, SMT DEF Height
  <2> HIDE DEF e, i, A
  <2> QED
    BY <2>1, <2>3, SMT
<1> HIDE DEF A, n
<1>4. q \in Int /\ r \in Int /\ n = 16 * q + r /\ 0 <= r /\ r < 16
  BY <1>3, SMT
<1> HIDE DEF q, r
<1>5. CASE gillham
  <2>1. ac = q * 32 + r
    BY <1>5
  <2> HIDE DEF ac
  <2>2. (ac \div 16) % 2 = 0
    BY <1>4, <2>1, SMT
  <2> QED
    BY <1>1, <2>2 DEF DecodeAltitude
<1>6. CASE ~gillham
  <2>1. ac = q * 32 + 16 + r
    BY <1>6
  <2> HIDE DEF ac
  <2>2. ac \div 32 = q /\ ac % 16 = r
    BY <1>4, <2>1, SMT
  <2>3. ((ac \div 32) * 16 + (ac % 16)) * 25 - 1000 = A
    BY <1>3, <1>4, <2>2, SMT
  <2> QED
    BY <1>1, <2>3 DEF DecodeAltitude, A
<1> QED
  BY <1>5, <1>6

\* A value a velocity message can tell comes back as it was.
LEMMA FieldIs ==
    ASSUME NEW v \in Int, NEW s \in Int, s = 1 \/ s = 4 \/ s = 64, v % s = 0,
           NEW n, n = AbsOf(v) \div s + 1
    PROVE  /\ n \in Int /\ n > 0
           /\ v < 0 => 0 - (n - 1) * s = v
           /\ ~(v < 0) => (n - 1) * s = v
<1>1. CASE s = 1
  BY <1>1, SMT DEF AbsOf
<1>2. CASE s = 4
  BY <1>2, SMT DEF AbsOf
<1>3. CASE s = 64
  BY <1>3, SMT DEF AbsOf
<1> QED
  BY <1>1, <1>2, <1>3

LEMMA SignedIs ==
    ASSUME NEW v \in Int, NEW s \in Int, s = 1 \/ s = 4 \/ s = 64, v % s = 0,
           NEW n, n = AbsOf(v) \div s + 1, NEW negative, negative = (v < 0)
    PROVE  Signed(negative, (n - 1) * s) = v /\ n # 0
<1>1. /\ n \in Int /\ n > 0
      /\ v < 0 => 0 - (n - 1) * s = v
      /\ ~(v < 0) => (n - 1) * s = v
  BY FieldIs
<1>2. Signed(negative, (n - 1) * s) = v
  <2>1. CASE v < 0
    BY <1>1, <2>1 DEF Signed
  <2>2. CASE ~(v < 0)
    BY <1>1, <2>2 DEF Signed
  <2> QED
    BY <2>1, <2>2
<1>3. n # 0
  BY <1>1, SMT
<1> QED
  BY <1>2, <1>3

\* The velocity a message tells, with the vertical rate or without.
ToldVel(f, rated) == <<f.vel[1], f.vel[2], IF rated THEN f.vel[3] ELSE 0>>

LEMMA VelocityIs ==
    ASSUME flight \in Starts, NEW st \in {1, 2, 3}, NEW known \in BOOLEAN, NEW rated \in BOOLEAN
    PROVE  DecodeVelocity(VelocityME(st, known, rated)) \in {None, ToldVel(flight, rated)}
<1> DEFINE me == VelocityME(st, known, rated)
           s == IF st = 2 THEN 4 ELSE 1
           v == flight.vel
<1>1. v \in Int \X Int \X Int /\ v[1] % 4 = 0 /\ v[2] % 4 = 0 /\ v[3] % 64 = 0
  BY StartIs
<1>2. v[1] \in Int /\ v[2] \in Int /\ v[3] \in Int /\ v = <<v[1], v[2], v[3]>>
  BY <1>1, SMT
<1> HIDE DEF v
<1>3. s = 1 \/ s = 4
  OBVIOUS
<1>4. v[1] % s = 0 /\ v[2] % s = 0 /\ s \in Int
  BY <1>1, <1>2, SMT
<1>5. /\ me.st = st /\ me.west = (v[1] < 0) /\ me.south = (v[2] < 0) /\ me.down = (v[3] < 0)
      /\ me.ew = AbsOf(v[1]) \div s + 1
      /\ me.ns = IF known THEN AbsOf(v[2]) \div s + 1 ELSE 0
      /\ me.vr = IF rated THEN AbsOf(v[3]) \div 64 + 1 ELSE 0
  BY DEF VelocityME, v
<1> HIDE DEF me, s
<1>6. CASE st = 3 \/ ~known
  <2>1. me.st \notin {1, 2} \/ me.ns = 0
    BY <1>5, <1>6
  <2> QED
    BY <2>1 DEF DecodeVelocity, me
<1>7. CASE st # 3 /\ known
  <2> DEFINE x == Signed(me.west, (me.ew - 1) * s)
             y == Signed(me.south, (me.ns - 1) * s)
             z == Signed(me.down, (me.vr - 1) * 64)
  <2>1. /\ x = v[1] /\ y = v[2] /\ me.ew # 0 /\ me.ns # 0
        /\ IF rated THEN z = v[3] /\ me.vr # 0 ELSE me.vr = 0
    <3>1. x = v[1] /\ me.ew # 0
      BY <1>2, <1>3, <1>4, <1>5, SignedIs
    <3>2. y = v[2] /\ me.ns # 0
      BY <1>2, <1>3, <1>4, <1>5, <1>7, SignedIs
    <3>3. ASSUME rated PROVE z = v[3] /\ me.vr # 0
      <4> DEFINE c == 64
      <4>1. c \in Int /\ (c = 1 \/ c = 4 \/ c = 64) /\ v[3] % c = 0
        BY <1>1
      <4>2. me.vr = AbsOf(v[3]) \div c + 1 /\ me.down = (v[3] < 0)
        BY <1>5, <3>3
      <4>3. z = Signed(me.down, (me.vr - 1) * c)
        OBVIOUS
      <4> HIDE DEF c, z
      <4> QED
        BY <1>2, <4>1, <4>2, <4>3, SignedIs
    <3> QED
      BY <1>5, <3>1, <3>2, <3>3
  <2>2. me.st \in {1, 2}
    BY <1>5, <1>7
  <2>3. DecodeVelocity(me) = <<x, y, IF me.vr = 0 THEN 0 ELSE z>>
    BY <1>5, <2>1, <2>2 DEF DecodeVelocity, s
  <2> HIDE DEF x, y, z
  <2>4. DecodeVelocity(me) = <<v[1], v[2], IF rated THEN v[3] ELSE 0>>
    BY <2>1, <2>3
  <2> QED
    BY <2>4 DEF me, v, ToldVel
<1> QED
  BY <1>6, <1>7

-----------------------------------------------------------------------------
(* The invariant                                                            *)

LastIs == last = [pos |-> last.pos, alt |-> last.alt, gnss |-> last.gnss,
                  rated |-> last.rated, lost |-> last.lost]

Valued(a, f, l) == /\ a.alt # None => a.alt = Height(f, l.alt, l.gnss)
                   /\ a.vel # None => a.vel = ToldVel(f, l.rated)

EntryIs(a, f, l, now) ==
    /\ Shape(a) /\ FramesAre(a, f, now)
    /\ a.seen \in Nat /\ a.seen < now
    /\ Placed(a, f, l, now) /\ Valued(a, f, l)

AirInv == /\ Sky(flight, tick) /\ LastIs
          /\ entry # None => EntryIs(entry, flight, last, tick)

LEMMA TickIs ==
    ASSUME Sky(flight, tick), TickLeft
    PROVE  Sky(flight, tick + 1) /\ tick \in Nat /\ tick < tick + 1
<1>1. tick \in Nat /\ MaxTick \in Nat /\ AwayTicks \in Nat /\ MaxTick < AwayTicks
  BY AircraftAssumption, SMT DEF Sky
<1>2. CASE tick <= MaxTick
  <2>1. tick % AwayTicks = tick
    BY <1>1, <1>2, SMT
  <2>2. tick < MaxTick /\ tick + 1 <= MaxTick /\ tick + 1 \in Nat
    BY <1>1, <2>1, SMT DEF TickLeft
  <2> QED
    BY <1>1, <2>2, SMT DEF Sky
<1>3. CASE AwayTicks <= tick /\ tick <= AwayTicks + MaxTick /\ InSky(Lat(flight, AwayTicks + MaxTick))
  <2> DEFINE r == tick - AwayTicks
  <2>1. /\ r \in Int /\ tick = 1 * AwayTicks + r /\ 0 <= r /\ r < AwayTicks
        /\ tick \in Int /\ AwayTicks \in Nat \ {0} /\ 1 \in Int
    BY <1>1, <1>3, SMT
  <2>2. tick % AwayTicks = r
    <3> HIDE DEF r
    <3> QED
      BY ONLY <2>1, ModOf
  <2>3. tick + 1 \in Nat /\ AwayTicks <= tick + 1 /\ tick + 1 <= AwayTicks + MaxTick
    BY <1>1, <1>3, <2>1, <2>2, SMT DEF TickLeft
  <2> QED
    BY <1>1, <1>3, <2>3, SMT DEF Sky
<1> QED
  BY <1>2, <1>3 DEF Sky

\* The entry a message updates: a new one, or the one there is.
LEMMA KnownIs ==
    ASSUME AirInv, TickLeft, NEW k, k = Known
    PROVE  /\ Shape(k) /\ FramesAre(k, flight, tick) /\ k.seen = tick
           /\ Placed(k, flight, last, tick) /\ Valued(k, flight, last)
<1>4. CASE entry = None
  <2>1. k = [even |-> None, odd |-> None, pos |-> None, alt |-> None, vel |-> None, seen |-> tick]
    BY <1>4 DEF Known, NewEntry
  <2>2. /\ k.even = None /\ k.odd = None /\ k.pos = None /\ k.alt = None /\ k.vel = None
        /\ k.seen = tick
    BY <2>1
  <2>3. Shape(k)
    BY ONLY <2>1, <2>2 DEF Shape
  <2>4. FramesAre(k, flight, tick) /\ Placed(k, flight, last, tick) /\ Valued(k, flight, last)
    BY <2>2 DEF FramesAre, Placed, PlaceIs, Valued
  <2> QED
    BY <2>2, <2>3, <2>4
<1>5. CASE entry # None
  <2>0. EntryIs(entry, flight, last, tick)
    BY <1>5 DEF AirInv
  <2>1. k = [entry EXCEPT !.seen = tick]
    BY <1>5 DEF Known
  <2>2. k = [even |-> entry.even, odd |-> entry.odd, pos |-> entry.pos,
             alt |-> entry.alt, vel |-> entry.vel, seen |-> tick]
    BY <2>0, <2>1, SMT DEF EntryIs, Shape
  <2>3. /\ k.even = entry.even /\ k.odd = entry.odd /\ k.pos = entry.pos /\ k.alt = entry.alt
        /\ k.vel = entry.vel /\ k.seen = tick
    BY <2>2
  <2>4. Shape(k)
    BY ONLY <2>2, <2>3 DEF Shape
  <2>5. FramesAre(k, flight, tick) /\ Placed(k, flight, last, tick) /\ Valued(k, flight, last)
    BY <2>0, <2>3 DEF EntryIs, FramesAre, Placed, PlaceIs, Valued
  <2> QED
    BY <2>3, <2>4, <2>5
<1> QED
  BY <1>4, <1>5

\* What was where it was at the last message before now is so before the next tick.
LEMMA PlacedLater ==
    ASSUME NEW a, NEW f, NEW l, NEW now \in Nat, NEW next \in Nat, now <= next, Placed(a, f, l, now)
    PROVE  Placed(a, f, l, next)
<1>1. ASSUME l.pos \in Nat, l.pos < now
      PROVE  l.pos < next
  BY <1>1, SMT
<1> QED
  BY <1>1 DEF Placed

\* What a message leaves, if it sets the fields of the entry and of last right.
LEMMA HeardKeeps ==
    ASSUME AirInv, TickLeft, tick' = tick + 1, flight' = flight, LastIs',
           Shape(entry)', FramesAre(entry', flight, tick + 1), entry'.seen = tick,
           Placed(entry', flight, last', tick + 1), Valued(entry', flight, last')
    PROVE  AirInv'
<1>1. Sky(flight, tick + 1) /\ tick \in Nat /\ tick < tick + 1
  BY TickIs DEF AirInv
<1>2. Sky(flight, tick)'
  BY <1>1 DEF Sky, InSky, Lat
<1>3. EntryIs(entry', flight, last', tick + 1)
  BY <1>1 DEF EntryIs, Shape
<1>4. EntryIs(entry, flight, last, tick)'
  BY <1>3 DEF EntryIs, FramesAre, FrameIs, Shape, Placed, PlaceIs, Located, Valued
<1> QED
  BY <1>2, <1>4 DEF AirInv

LEMMA HearPositionKeeps ==
    ASSUME AirInv, TickLeft, tick' = tick + 1, flight' = flight,
           NEW odd \in BOOLEAN, NEW gnss \in BOOLEAN, NEW gillham \in BOOLEAN,
           HearPosition(odd, gnss, gillham)
    PROVE  AirInv'
<1> DEFINE k == Known
           me == PositionME(odd, gnss, gillham)
           alt == DecodeAltitude(me.ac)
           a == [k EXCEPT !.alt = Or(alt, @)]
           h == IF alt = None THEN last.alt ELSE tick
           i == IF alt = None THEN last.gnss ELSE gnss
           o == Lost(a, me)
<1>1. /\ Shape(k) /\ FramesAre(k, flight, tick) /\ k.seen = tick
      /\ Placed(k, flight, last, tick) /\ Valued(k, flight, last)
  BY KnownIs
<1>2. Sky(flight, tick) /\ flight \in Starts /\ tick \in Nat /\ LastIs
  BY DEF AirInv, Sky
<1>3. /\ entry' = UpdatePosition(a, me)
      /\ last' = [last EXCEPT !.pos = tick, !.alt = h, !.gnss = i, !.lost = o]
  BY DEF HearPosition
<1>4. alt \in {None, Height(flight, tick, gnss)}
  BY <1>2, AltitudeIs
<1>0. SentNow(me, odd)
  BY HeardIs
<1> HIDE DEF k, me, alt, o
<1>5. last' = [pos |-> tick, alt |-> h, gnss |-> i, rated |-> last.rated, lost |-> o]
  <2> HIDE DEF h, i
  <2> QED
    BY <1>2, <1>3 DEF LastIs
<1>6. last'.pos = tick /\ last'.alt = h /\ last'.gnss = i /\ last'.rated = last.rated /\ last'.lost = o
  BY <1>5
<1>7. LastIs'
  <2> HIDE DEF h, i
  <2> QED
    BY <1>5, <1>6 DEF LastIs
<1>8. a = [even |-> k.even, odd |-> k.odd, pos |-> k.pos, alt |-> Or(alt, k.alt), vel |-> k.vel, seen |-> k.seen]
  BY <1>1, SMT DEF Shape
<1>14. o = Lost(a, me)
  BY DEF o
<1> HIDE DEF a
<1>9. /\ a.even = k.even /\ a.odd = k.odd /\ a.pos = k.pos /\ a.alt = Or(alt, k.alt) /\ a.vel = k.vel
      /\ a.seen = k.seen
  BY <1>8
<1>10. Shape(a)
  BY ONLY <1>8, <1>9 DEF Shape
<1>11. FramesAre(a, flight, tick) /\ Placed(a, flight, last, tick)
  BY <1>1, <1>9 DEF FramesAre, Placed, PlaceIs
<1> DEFINE c == UpdatePosition(a, me)
<1>12. /\ Shape(c) /\ FramesAre(c, flight, tick + 1)
       /\ c.alt = a.alt /\ c.vel = a.vel /\ c.seen = a.seen
       /\ ~Lost(a, me) => PlaceIs(c, flight, tick)
  BY <1>0, <1>2, <1>10, <1>11, UpdateIs
<1>13. entry' = c
  BY <1>3
<1> HIDE DEF c
<1>15. Shape(entry)'
  BY <1>12, <1>13 DEF Shape
<1>16. Placed(c, flight, last', tick + 1)
  <2>1. tick < tick + 1
    BY <1>2, SMT
  <2> QED
    BY <1>2, <1>6, <1>12, <1>14, <2>1 DEF Placed
<1>17. Valued(c, flight, last')
  BY <1>1, <1>4, <1>6, <1>9, <1>12 DEF Valued, Or
<1> QED
  BY <1>1, <1>7, <1>9, <1>12, <1>13, <1>15, <1>16, <1>17, HeardKeeps

LEMMA HearVelocityKeeps ==
    ASSUME AirInv, TickLeft, tick' = tick + 1, flight' = flight,
           NEW st \in {1, 2, 3}, NEW known \in BOOLEAN, NEW rated \in BOOLEAN,
           HearVelocity(st, known, rated)
    PROVE  AirInv'
<1> DEFINE k == Known
           vel == DecodeVelocity(VelocityME(st, known, rated))
           c == [k EXCEPT !.vel = Or(vel, @)]
           r == IF vel = None THEN last.rated ELSE rated
<1>1. /\ Shape(k) /\ FramesAre(k, flight, tick) /\ k.seen = tick
      /\ Placed(k, flight, last, tick) /\ Valued(k, flight, last)
  BY KnownIs
<1>2. flight \in Starts /\ tick \in Nat /\ Sky(flight, tick) /\ LastIs
  BY DEF AirInv, Sky
<1>3. entry' = c /\ last' = [last EXCEPT !.rated = r]
  BY DEF HearVelocity
<1>4. vel \in {None, ToldVel(flight, rated)}
  BY <1>2, VelocityIs
<1> HIDE DEF k, vel
<1>5. c = [even |-> k.even, odd |-> k.odd, pos |-> k.pos, alt |-> k.alt, vel |-> Or(vel, k.vel), seen |-> k.seen]
  BY <1>1, SMT DEF Shape
<1> HIDE DEF c
<1>6. /\ c.even = k.even /\ c.odd = k.odd /\ c.pos = k.pos /\ c.alt = k.alt /\ c.vel = Or(vel, k.vel)
      /\ c.seen = tick
  BY <1>1, <1>5
<1>7. Shape(c)
  BY ONLY <1>1, <1>5, <1>6 DEF Shape
<1>8. FramesAre(c, flight, tick + 1)
  BY <1>1, <1>2, <1>6, LaterFrames
<1>12. last' = [pos |-> last.pos, alt |-> last.alt, gnss |-> last.gnss, rated |-> r, lost |-> last.lost]
  <2> HIDE DEF r
  <2> QED
    BY <1>2, <1>3 DEF LastIs
<1>13. /\ last'.pos = last.pos /\ last'.alt = last.alt /\ last'.gnss = last.gnss /\ last'.rated = r
       /\ last'.lost = last.lost
  BY <1>12
<1>9. Placed(c, flight, last', tick + 1)
  <2>1. Placed(k, flight, last, tick + 1)
    BY <1>1, <1>2, PlacedLater, SMT
  <2> QED
    BY <1>6, <1>13, <2>1 DEF Placed, PlaceIs
<1>14. Valued(c, flight, last')
  BY <1>1, <1>4, <1>6, <1>13 DEF Valued, Or
<1>10. LastIs'
  <2> HIDE DEF r
  <2> QED
    BY <1>12, <1>13 DEF LastIs
<1>11. Shape(entry)'
  BY <1>3, <1>7 DEF Shape
<1> QED
  BY <1>3, <1>6, <1>8, <1>9, <1>10, <1>11, <1>14, HeardKeeps

LEMMA HearOtherKeeps ==
    ASSUME AirInv, TickLeft, tick' = tick + 1, flight' = flight, HearOther
    PROVE  AirInv'
<1> DEFINE k == Known
<1>1. /\ Shape(k) /\ FramesAre(k, flight, tick) /\ k.seen = tick
      /\ Placed(k, flight, last, tick) /\ Valued(k, flight, last)
  BY KnownIs
<1>2. entry' = k /\ last' = last
  BY DEF HearOther
<1> HIDE DEF k
<1>3. FramesAre(k, flight, tick + 1)
  BY <1>1, LaterFrames DEF AirInv, Sky
<1>4. LastIs'
  BY <1>2 DEF LastIs, AirInv
<1>5. Shape(entry)'
  BY <1>1, <1>2 DEF Shape
<1>6. Placed(k, flight, last, tick + 1)
  BY <1>1, PlacedLater, SMT DEF AirInv, Sky
<1> QED
  BY <1>1, <1>2, <1>3, <1>4, <1>5, <1>6, HeardKeeps

LEMMA HearKeeps == AirInv /\ Hear => AirInv'
<1> SUFFICES ASSUME AirInv, Hear PROVE AirInv'
  OBVIOUS
<1>1. TickLeft /\ tick' = tick + 1 /\ flight' = flight
  BY DEF Hear
<1>2. ASSUME NEW odd \in BOOLEAN, NEW gnss \in BOOLEAN, NEW gillham \in BOOLEAN,
             HearPosition(odd, gnss, gillham)
      PROVE  AirInv'
  BY <1>1, <1>2, HearPositionKeeps
<1>3. ASSUME NEW st \in {1, 2, 3}, NEW known \in BOOLEAN, NEW rated \in BOOLEAN,
             HearVelocity(st, known, rated)
      PROVE  AirInv'
  BY <1>1, <1>3, HearVelocityKeeps
<1>4. HearOther => AirInv'
  BY <1>1, HearOtherKeeps
<1> QED
  BY <1>2, <1>3, <1>4 DEF Hear

LEMMA AwayKeeps == AirInv /\ Away => AirInv'
<1> SUFFICES ASSUME AirInv, Away PROVE AirInv'
  OBVIOUS
<1> DEFINE now == tick + AwayTicks
           T == AwayTicks + MaxTick
           S == tick + T
<1>1. /\ tick < AwayTicks /\ tick' = now /\ flight' = flight /\ entry' = entry /\ last' = last
      /\ 4 * AbsOf(LatAt(now + MaxTick)) < Circle
  BY DEF Away
<1>2. tick \in Nat /\ MaxTick \in Nat /\ AwayTicks \in Nat /\ MaxTick < AwayTicks
  BY AircraftAssumption, SMT DEF AirInv, Sky
<1>3. tick <= MaxTick /\ flight \in Starts
  BY <1>1, <1>2, SMT DEF AirInv, Sky
<1>4. /\ flight.lat \in Int /\ flight.north \in Int /\ InSky(flight.lat)
  BY <1>3, StartIs
<1>5. T \in Nat /\ S \in Nat /\ T <= S /\ now \in Nat /\ tick <= now /\ AwayTicks <= now /\ now <= T
      /\ now + MaxTick = S
  BY <1>2, <1>3, SMT
<1> HIDE DEF S
<1>6. InSky(flight.lat + flight.north * S)
  <2>1. 4 * AbsOf(flight.lat + flight.north * S) < Circle
    BY <1>1, <1>5 DEF LatAt
  <2>2. flight.lat + flight.north * S \in Int
    BY <1>4, <1>5, SMT
  <2> QED
    BY <2>1, <2>2 DEF InSky
<1> HIDE DEF T, now
<1>7. InSky(flight.lat + flight.north * T)
  BY <1>4, <1>5, <1>6, Straight
<1>8. Sky(flight, now)
  BY <1>3, <1>5, <1>7 DEF Sky, T, Lat
<1>9. Sky(flight, tick)'
  BY <1>1, <1>8 DEF Sky, InSky, Lat
<1>10. ASSUME entry # None
       PROVE  EntryIs(entry, flight, last, now)
  <2>1. EntryIs(entry, flight, last, tick)
    BY <1>10 DEF AirInv
  <2>2. FramesAre(entry, flight, now)
    <3>1. ASSUME NEW r, NEW d, FrameIs(r, d, flight, tick)
          PROVE  FrameIs(r, d, flight, now)
      <4>1. r.t \in Nat /\ r.t < now
        BY <1>2, <1>5, <3>1, SMT DEF FrameIs
      <4> QED
        BY <3>1, <4>1 DEF FrameIs
    <3> QED
      BY <2>1, <3>1 DEF EntryIs, FramesAre
  <2>3. entry.seen \in Nat /\ entry.seen < now
    BY <1>2, <1>5, <2>1, SMT DEF EntryIs
  <2>4. Placed(entry, flight, last, now)
    BY <1>2, <1>5, <2>1, PlacedLater DEF EntryIs
  <2> QED
    BY <2>1, <2>2, <2>3, <2>4 DEF EntryIs
<1>11. (entry # None => EntryIs(entry, flight, last, tick))'
  BY <1>1, <1>10 DEF EntryIs, FramesAre, FrameIs, Shape, Placed, PlaceIs, Located, Valued
<1>12. LastIs'
  BY <1>1 DEF AirInv, LastIs
<1> QED
  BY <1>9, <1>11, <1>12 DEF AirInv

LEMMA SilenceKeeps == AirInv /\ Silence => AirInv'
<1> SUFFICES ASSUME AirInv, Silence PROVE AirInv'
  OBVIOUS
<1>1. TickLeft /\ tick' = tick + 1 /\ flight' = flight /\ entry' = entry /\ last' = last
  BY DEF Silence
<1>2. Sky(flight, tick + 1) /\ tick \in Nat
  BY <1>1, TickIs DEF AirInv
<1>3. Sky(flight, tick)'
  BY <1>1, <1>2 DEF Sky, InSky, Lat
<1>4. ASSUME entry # None
      PROVE  EntryIs(entry, flight, last, tick + 1)
  <2>1. EntryIs(entry, flight, last, tick)
    BY <1>4 DEF AirInv
  <2>2. FramesAre(entry, flight, tick + 1)
    BY <1>2, <2>1, LaterFrames DEF EntryIs
  <2>3. entry.seen \in Nat /\ entry.seen < tick + 1
    BY <1>2, <2>1, SMT DEF EntryIs
  <2>4. Placed(entry, flight, last, tick + 1)
    BY <1>2, <2>1, PlacedLater, SMT DEF EntryIs
  <2> QED
    BY <2>1, <2>2, <2>3, <2>4 DEF EntryIs
<1>5. (entry # None => EntryIs(entry, flight, last, tick))'
  BY <1>1, <1>4 DEF EntryIs, FramesAre, FrameIs, Shape, Placed, PlaceIs, Located, Valued
<1>6. LastIs'
  BY <1>1 DEF AirInv, LastIs
<1> QED
  BY <1>3, <1>5, <1>6 DEF AirInv

LEMMA SnapshotKeeps == AirInv /\ Snapshot => AirInv'
<1> SUFFICES ASSUME AirInv, Snapshot PROVE AirInv'
  OBVIOUS
<1>1. /\ entry' = None /\ flight' = flight /\ tick' = tick
      /\ last' = [pos |-> None, alt |-> None, gnss |-> FALSE, rated |-> FALSE, lost |-> FALSE]
  BY DEF Snapshot, Nothing
<1>2. Sky(flight, tick)'
  BY <1>1 DEF AirInv, Sky, InSky, Lat
<1>3. /\ last'.pos = None /\ last'.alt = None /\ last'.gnss = FALSE /\ last'.rated = FALSE
      /\ last'.lost = FALSE
  BY <1>1
<1>4. LastIs'
  BY <1>1, <1>3 DEF LastIs
<1> QED
  BY <1>1, <1>2, <1>4 DEF AirInv

LEMMA AirInitIs == AircraftInit => AirInv
<1> SUFFICES ASSUME AircraftInit PROVE AirInv
  OBVIOUS
<1>1. /\ flight \in Starts /\ tick = 0 /\ entry = None
      /\ last = [pos |-> None, alt |-> None, gnss |-> FALSE, rated |-> FALSE, lost |-> FALSE]
  BY DEF AircraftInit, Nothing
<1>2. last.pos = None /\ last.alt = None /\ last.gnss = FALSE /\ last.rated = FALSE /\ last.lost = FALSE
  BY <1>1
<1>3. LastIs
  BY <1>1, <1>2 DEF LastIs
<1>4. Sky(flight, tick)
  BY <1>1, AircraftAssumption, SMT DEF Sky
<1> QED
  BY <1>1, <1>3, <1>4 DEF AirInv

LEMMA AirNextKeeps == AirInv /\ [AircraftNext]_aircraftVars => AirInv'
<1>1. AirInv /\ UNCHANGED aircraftVars => AirInv'
  <2> SUFFICES ASSUME AirInv, UNCHANGED aircraftVars PROVE AirInv'
    OBVIOUS
  <2>1. flight' = flight /\ tick' = tick /\ entry' = entry /\ last' = last
    BY DEF aircraftVars
  <2> QED
    BY <2>1 DEF AirInv, Sky, InSky, Lat, LastIs, EntryIs, FramesAre, FrameIs, Shape, Placed, PlaceIs, Located, Valued
<1> QED
  BY <1>1, HearKeeps, AwayKeeps, SilenceKeeps, SnapshotKeeps DEF AircraftNext

LEMMA AirInvIs == AirInv => TableTrue
<1> SUFFICES ASSUME AirInv, entry # None
             PROVE  TableTrue
  BY DEF TableTrue, PositionTrue, FieldsTrue
<1>1. EntryIs(entry, flight, last, tick)
  BY DEF AirInv
<1>2. FieldsTrue
  <2>1. Valued(entry, flight, last)
    BY <1>1 DEF EntryIs
  <2>2. HeightAt(last.alt, last.gnss) = Height(flight, last.alt, last.gnss)
    BY DEF HeightAt, Height
  <2> QED
    BY <2>1, <2>2 DEF FieldsTrue, Valued, ToldVel
<1>3. PositionTrue
  <2> SUFFICES ASSUME entry.pos # None, ~last.lost
               PROVE  /\ AbsOf(entry.pos.lat - LatAt(last.pos)) <= 31
                      /\ LonDistance(entry.pos.lon, LonAt(last.pos)) <= LonError(entry.pos.lat)
    BY DEF PositionTrue
  <2> DEFINE p == entry.pos
             t == last.pos
             L == Lat(flight, t)
             x == Lon(flight, t)
             n == LonCells(TRUE, p.lat)
  <2>1. t \in Nat /\ t < tick /\ Located(p, L, x)
    BY <1>1 DEF EntryIs, Placed, PlaceIs
  <2>2. L = LatAt(t) /\ x = LonAt(t)
    BY DEF LatAt, LonAt, Lat, Lon
  <2>3. Sky(flight, tick) /\ t \in Nat /\ t <= tick
    <3>1. Sky(flight, tick)
      BY DEF AirInv
    <3> QED
      BY <2>1, <3>1, SMT DEF Sky
  <2>4. InSky(L) /\ L \in Int
    BY <2>3, SkyAt
  <2> HIDE DEF p, t, L, x, n
  <2>5. AbsOf(p.lat - L) <= 31
    <3>1. PICK d \in BOOLEAN : p.lat = SentFrom(d, L)
      BY <2>1 DEF Located
    <3>2. PICK S \in Int : SentAt(d, L, S)
      BY <2>4, SentIs
    <3> DEFINE w == LatCells(~d)
    <3>3. w \in {59, 60}
      BY DEF LatCells
    <3>4. p.lat = w * S /\ StepOf(S, w, L)
      BY <3>1, <3>2 DEF SentAt
    <3> HIDE DEF w
    <3> QED
      BY <2>4, <3>2, <3>3, <3>4, SMT DEF StepOf, AbsOf
  <2>6. LonDistance(p.lon, x) <= LonStep(n)
    <3>1. n \in Nat /\ 1 <= n
      BY CellsOrder DEF n
    <3>2. LonStep(n) \in Nat /\ LonStep(n) < 14499840
      BY <3>1, SMT DEF LonStep
    <3>3. Around(p.lon, x, LonStep(n))
      BY <2>1 DEF Located, n
    <3> QED
      BY <3>2, <3>3, AroundIs, SMT
  <2>7. LonError(p.lat) = LonStep(n)
    BY SMT DEF LonError, LonStep, n
  <2> QED
    BY <2>2, <2>5, <2>6, <2>7 DEF p, t
<1> QED
  BY <1>2, <1>3 DEF TableTrue

\* An aircraft of the table is where it was at its last position message, whatever
\* the flight, the order of messages, the silences, the stays at another service and
\* the snapshots: no frame is decoded in a wrong cell, unless the reference is one the
\* aircraft has flown more than half a cell from, or was lost so; and then until the
\* next pair.  Its altitude is the height told last, of either kind; its velocity is
\* the one it has, with a vertical rate of 0 if the last velocity told none.
THEOREM TableIsTrue == Spec => []TableTrue
<1>1. Init => AirInv
  BY AirInitIs DEF Init
<1>2. AirInv /\ [Next]_vars => AirInv'
  <2>1. [Next]_vars => [AircraftNext]_aircraftVars
    BY DEF Next, vars, DemodStage, AircraftStage, ChannelStage, VesselStage, MuLawStage
  <2> QED
    BY <2>1, AirNextKeeps
<1>3. AirInv => TableTrue
  BY AirInvIs
<1> QED
  BY <1>1, <1>2, <1>3, PTL DEF Spec
=============================================================================
