----------------------------- MODULE ScanProofs -----------------------------
(***************************************************************************)
(* Proofs about Scan, for every plan, air, capacity and number of scans:   *)
(* the frame that says a full scan is complete is not lost in decodeCh,    *)
(* and it reports what the scan has heard.                                 *)
(***************************************************************************)
EXTENDS Scan, FiniteSetTheorems, TLAPS

USE FeedAssumption
USE DEF feedVars, scanVars, vars

\* n is the newest frame of the channel, or the one taken last from it.
NewestIs(n) == IF ch = <<>> THEN taken = n ELSE ch[Len(ch)] = n

\* Of the frame being put, the channel knows nothing before the third select,
\* which finds room: only the read goroutine puts.
ChannelInv ==
    /\ put \in Nat /\ ch \in Seq(Nat) /\ Len(ch) <= Cap
    /\ putStage \in {"idle", "full", "retry"}
    /\ putStage = "idle" => NewestIs(put)
    /\ putStage = "retry" => Len(ch) < Cap

\* The frames due are numbered on from those pushed, and nothing comes after the
\* end of a scan unless another one begins.
FramesInv ==
    /\ \E S : frames \in Seq(S)
    /\ outcome = "done" => /\ ~listening /\ frames # <<>>
                           /\ frames[Len(frames)] = "done"

ScanInv == ChannelInv /\ FramesInv

-----------------------------------------------------------------------------
LEMMA EmptyLen ==
    ASSUME NEW q, q = <<>>
    PROVE  Len(q) = 0
<1>1. Len(<<>>) = 0
  OBVIOUS
<1> QED
  BY <1>1

LEMMA TailFacts ==
    ASSUME NEW q \in Seq(Nat), q # <<>>
    PROVE  /\ Len(q) \in Nat \ {0} /\ Len(Tail(q)) = Len(q) - 1 /\ Tail(q) \in Seq(Nat)
           /\ Tail(q) # <<>> => Tail(q)[Len(Tail(q))] = q[Len(q)]
           /\ Tail(q) = <<>> => Head(q) = q[Len(q)]
<1>1. /\ Len(q) \in Nat \ {0} /\ Len(Tail(q)) = Len(q) - 1 /\ Tail(q) \in Seq(Nat)
      /\ Head(q) = q[1] /\ \A i \in 1 .. Len(q) - 1 : Tail(q)[i] = q[i + 1]
  OBVIOUS
<1>2. ASSUME Tail(q) # <<>>
      PROVE  Tail(q)[Len(Tail(q))] = q[Len(q)]
  <2>1. Len(Tail(q)) # 0
    BY <1>1, <1>2
  <2>2. Len(q) - 1 \in 1 .. Len(q) - 1 /\ Len(q) - 1 + 1 = Len(q)
    BY <1>1, <2>1
  <2> QED
    BY <1>1, <2>2
<1>3. ASSUME Tail(q) = <<>>
      PROVE  Head(q) = q[Len(q)]
  <2>1. Len(Tail(q)) = 0
    BY <1>3, EmptyLen
  <2>2. Len(q) = 1
    <3> DEFINE n == Len(q)
               m == Len(Tail(q))
    <3>1. n \in Nat /\ m = n - 1 /\ m = 0
      BY <1>1, <2>1
    <3> HIDE DEF n, m
    <3>2. n = 1
      BY <3>1
    <3> QED
      BY <3>2 DEF n
  <2> QED
    BY <1>1, <2>2
<1> QED
  BY <1>1, <1>2, <1>3

LEMMA AppendFacts ==
    ASSUME NEW S, NEW q \in Seq(S), NEW x
    PROVE  /\ Append(q, x) \in Seq(S \cup {x}) /\ Len(q) \in Nat
           /\ Len(Append(q, x)) = Len(q) + 1 /\ Append(q, x) # <<>>
           /\ Append(q, x)[Len(Append(q, x))] = x
<1> DEFINE T == S \cup {x}
<1>1. q \in Seq(T) /\ x \in T
  OBVIOUS
<1> HIDE DEF T
<1>2. /\ Append(q, x) \in Seq(T) /\ Len(q) \in Nat
      /\ Len(Append(q, x)) = Len(q) + 1 /\ Append(q, x)[Len(q) + 1] = x
  BY <1>1
<1>3. Append(q, x) # <<>>
  BY <1>1
<1> QED
  BY <1>2, <1>3 DEF T

LEMMA ConcatFacts ==
    ASSUME NEW T, NEW q \in Seq(T), NEW b \in Seq(T)
    PROVE  /\ q \o b \in Seq(T) /\ Len(q \o b) = Len(q) + Len(b) /\ Len(q) \in Nat
           /\ \A i \in 1 .. Len(b) : (q \o b)[Len(q) + i] = b[i]
  OBVIOUS

LEMMA LastOfTwo ==
    ASSUME NEW S, NEW q \in Seq(S), NEW x, NEW y
    PROVE  /\ q \o <<x, y>> \in Seq(S \cup {x, y}) /\ q \o <<x, y>> # <<>>
           /\ (q \o <<x, y>>)[Len(q \o <<x, y>>)] = y
<1> DEFINE T == S \cup {x, y}
           b == <<x, y>>
<1>1. q \in Seq(T) /\ b \in Seq(T) /\ Len(b) = 2 /\ b[2] = y
  OBVIOUS
<1> HIDE DEF T, b
<1>2. /\ q \o b \in Seq(T) /\ Len(q) \in Nat /\ Len(q \o b) = Len(q) + 2
      /\ (q \o b)[Len(q) + 2] = b[2]
  <2>1. 2 \in 1 .. Len(b)
    BY <1>1
  <2>2. /\ q \o b \in Seq(T) /\ Len(q) \in Nat /\ Len(q \o b) = Len(q) + Len(b)
        /\ \A i \in 1 .. Len(b) : (q \o b)[Len(q) + i] = b[i]
    <3>1. q \in Seq(T) /\ b \in Seq(T)
      BY <1>1
    <3> QED
      BY ONLY <3>1, ConcatFacts
  <2>3. (q \o b)[Len(q) + 2] = b[2]
    BY <2>1, <2>2
  <2>4. Len(q \o b) = Len(q) + 2
    BY <1>1, <2>2
  <2> QED
    BY <2>2, <2>3, <2>4
<1>3. q \o b # <<>>
  <2>1. Len(<<>>) = 0
    OBVIOUS
  <2> QED
    BY <1>2, <2>1
<1> QED
  BY <1>1, <1>2, <1>3 DEF T, b

-----------------------------------------------------------------------------
(* The channel, whatever the scan does                                      *)

LEMMA ChannelNext == ChannelInv /\ [Next]_vars => ChannelInv'
<1> SUFFICES ASSUME ChannelInv, [Next]_vars PROVE ChannelInv'
    OBVIOUS
<1> USE DEF ChannelInv, NewestIs
<1>1. CASE Offer
  <2>1. CASE HasRoom
    <3>1. ch' = Append(ch, put') /\ put' \in Nat /\ putStage' = "idle"
      BY <1>1, <2>1 DEF Offer
    <3>2. /\ ch' \in Seq(Nat \cup {put'}) /\ Len(ch') = Len(ch) + 1 /\ ch' # <<>>
          /\ ch'[Len(ch')] = put' /\ Len(ch) \in Nat
      BY <3>1, AppendFacts
    <3>3. ch' \in Seq(Nat) /\ Len(ch') <= Cap
      <4>1. Nat \cup {put'} = Nat
        BY <3>1
      <4>2. ch' \in Seq(Nat)
        BY <3>2, <4>1
      <4>3. Len(ch) < Cap
        BY <2>1 DEF HasRoom
      <4> QED
        BY <3>2, <4>2, <4>3
    <3> QED
      BY <3>1, <3>2, <3>3
  <2>2. CASE ~HasRoom
    BY <1>1, <2>2 DEF Offer
  <2> QED
    BY <2>1, <2>2
<1>2. CASE MakeRoom
  <2>1. CASE ch = <<>>
    BY <1>2, <2>1 DEF MakeRoom
  <2>2. CASE ch # <<>>
    BY <1>2, <2>2, TailFacts DEF MakeRoom
  <2> QED
    BY <2>1, <2>2
<1>3. CASE Retry
  <2>1. HasRoom /\ ch' = Append(ch, put) /\ put' = put /\ putStage' = "idle"
    BY <1>3 DEF Retry, HasRoom
  <2>2. /\ ch' \in Seq(Nat \cup {put}) /\ Len(ch') = Len(ch) + 1 /\ ch' # <<>>
        /\ ch'[Len(ch')] = put /\ Len(ch) \in Nat
    BY <2>1, AppendFacts
  <2>3. Nat \cup {put} = Nat
    OBVIOUS
  <2> QED
    BY <2>1, <2>2, <2>3 DEF HasRoom
<1>4. CASE Take
  <2>1. /\ ch # <<>> /\ taken' = Head(ch) /\ ch' = Tail(ch) /\ put' = put /\ putStage' = putStage
    BY <1>4 DEF Take
  <2>2. ch' \in Seq(Nat) /\ Len(ch') < Cap
    BY <2>1, TailFacts
  <2>3. NewestIs(put) => NewestIs(put)'
    BY <2>1, TailFacts
  <2> QED
    BY <2>1, <2>2, <2>3
<1>5. CASE UNCHANGED feedVars
  BY <1>5
<1> QED
  BY <1>1, <1>2, <1>3, <1>4, <1>5
     DEF Next, ReadLoop, Push, Receive, Begin, Stop, Dwell, StopDone, ScanDone

-----------------------------------------------------------------------------
(* The channel as LatestWins has it                                         *)

LEMMA TailOfAppend ==
    ASSUME NEW q \in Seq(Nat), q # <<>>, NEW x \in Nat
    PROVE  /\ Head(Append(q, x)) = Head(q) /\ Append(q, x) # <<>>
           /\ Tail(Append(q, x)) = Append(Tail(q), x)
  OBVIOUS

\* A step of the channel is a Put, a Take or a stutter of LatestWins, and no step
\* of the scan touches the channel.
LEMMA ChannelRefines == ChannelInv /\ [Next]_vars => [LW!Put \/ LW!Take]_(LW!vars)
<1> SUFFICES ASSUME ChannelInv, [Next]_vars
             PROVE  LW!Put \/ LW!Take \/ UNCHANGED LW!vars
    OBVIOUS
<1> USE DEF ChannelInv, HasRoom
<1>1. CASE Offer
  BY <1>1 DEF Offer, LW!Put, LW!vars
<1>2. CASE MakeRoom
  <2>1. CASE ch = <<>>
    BY <1>2, <2>1 DEF MakeRoom, LW!Put
  <2>2. CASE ch # <<>>
    BY <1>2, <2>2 DEF MakeRoom, LW!Put
  <2> QED
    BY <2>1, <2>2
<1>3. CASE Retry
  BY <1>3 DEF Retry, LW!vars
<1>4. CASE Take
  <2>1. ch # <<>> /\ taken' = Head(ch) /\ ch' = Tail(ch) /\ put' = put /\ putStage' = putStage
    BY <1>4 DEF Take
  <2>2. CASE putStage = "retry"
    <3>1. /\ Head(Append(ch, put)) = Head(ch) /\ Append(ch, put) # <<>>
          /\ Tail(Append(ch, put)) = Append(Tail(ch), put)
      BY <2>1, TailOfAppend
    <3> QED
      BY <2>1, <2>2, <3>1 DEF LW!Take
  <2>3. CASE putStage # "retry"
    BY <2>1, <2>3 DEF LW!Take
  <2> QED
    BY <2>2, <2>3
<1>5. CASE UNCHANGED feedVars
  BY <1>5 DEF LW!vars
<1> QED
  BY <1>1, <1>2, <1>3, <1>4, <1>5
     DEF Next, ReadLoop, Push, Receive, Begin, Stop, Dwell, StopDone, ScanDone

\* decodeCh is the same latest-wins channel as audioCh, whenever the scans begin,
\* stop and end and the hub takes their frames: the hub may miss a progress
\* report only to a newer one, and sees none twice or out of order.
THEOREM DecodeChannelKeepsNewest == FairSpec => LW!Spec
<1>1. Init => ChannelInv /\ LW!Init
  BY DEF Init, FeedInit, ChannelInv, NewestIs, LW!Init
<1> QED
  BY <1>1, ChannelNext, ChannelRefines, PTL DEF FairSpec, LW!Spec

-----------------------------------------------------------------------------
(* The frames                                                               *)

LEMMA FramesNext == FramesInv /\ [Next]_vars => FramesInv'
<1> SUFFICES ASSUME FramesInv, [Next]_vars PROVE FramesInv'
    OBVIOUS
<1> USE DEF FramesInv
<1>e. ASSUME NEW since, NEW table, NEW more, MaybeEmit(since, table, more)
      PROVE  \E S : frames' \in Seq(S)
  <2>1. PICK S : frames \in Seq(S)
    OBVIOUS
  <2>2. CASE frames' = Append(frames, "scanning")
    BY <2>1, <2>2, AppendFacts
  <2>3. CASE frames' = frames
    BY <2>1, <2>3
  <2> QED
    BY <1>e, <2>2, <2>3 DEF MaybeEmit
<1>1. CASE Begin
  BY <1>1 DEF Begin
<1>2. CASE Stop
  BY <1>2 DEF Stop
<1>3. CASE Dwell
  <2>1. outcome' = outcome /\ listening
    BY <1>3 DEF Dwell
  <2>2. \E since, table, more : MaybeEmit(since, table, more)
    BY <1>3 DEF Dwell
  <2> QED
    BY <1>e, <2>1, <2>2
<1>4. CASE StopDone
  <2>1. outcome' = outcome /\ listening
    BY <1>4 DEF StopDone
  <2>2. \E since, table, more : MaybeEmit(since, table, more)
    BY <1>4 DEF StopDone
  <2> QED
    BY <1>e, <2>1, <2>2
<1>5. CASE ScanDone
  <2>1. ~listening' /\ frames' = frames \o <<"analyzing", "done">>
    BY <1>5 DEF ScanDone, LastFrames
  <2>2. PICK S : frames \in Seq(S)
    OBVIOUS
  <2>3. /\ frames' \in Seq(S \cup {"analyzing", "done"})
        /\ frames' # <<>> /\ frames'[Len(frames')] = "done"
    BY <2>1, <2>2, LastOfTwo
  <2> QED
    BY <2>1, <2>3
<1>6. CASE UNCHANGED scanVars
  BY <1>6
<1> QED
  BY <1>1, <1>2, <1>3, <1>4, <1>5, <1>6 DEF Next, ReadLoop, Push, Receive

LEMMA ScanInit == Init => ScanInv
  BY DEF Init, FeedInit, ScanInv, ChannelInv, NewestIs, FramesInv

\* The last frame of a scan is pushed once, and the channel has it until the
\* broadcast loop takes it.
THEOREM LastFrameKept == FairSpec => []DoneIsKept
<1>1. Init => ScanInv
  BY ScanInit
<1>2. ScanInv /\ [Next]_vars => ScanInv'
  BY ChannelNext, FramesNext DEF ScanInv
<1>3. ScanInv => DoneIsKept
  BY DEF ScanInv, ChannelInv, NewestIs, FramesInv, DoneIsKept, Pushed
<1> QED
  BY <1>1, <1>2, <1>3, PTL DEF FairSpec

-----------------------------------------------------------------------------
(* The plan                                                                 *)

Stops == 1 .. Len(FullSweepBands)

LEMMA DivNat ==
    ASSUME NEW a \in Nat, NEW b \in Nat \ {0} PROVE a \div b \in Nat
  OBVIOUS

LEMMA ModIs ==
    ASSUME NEW a \in Nat, NEW b \in Nat \ {0}, a < b PROVE a % b = a
  OBVIOUS

LEMMA PlanIs == Len(FullSweepBands) \in Nat \ {0} /\ DOMAIN FullSweepBands = Stops
<1> DEFINE n == 1 + (FullScanMax - FullScanStart) \div FullScanStep
           q == [i \in 1 .. n |-> StopAt(FullScanStart + (i - 1) * FullScanStep)]
<1>1. n \in Nat \ {0}
  <2>1. FullScanMax - FullScanStart \in Nat /\ FullScanStep \in Nat \ {0}
    BY ScanAssumption
  <2> QED
    BY <2>1, DivNat
<1>2. FullSweepBands = q
  BY DEF FullSweepBands
<1> HIDE DEF n
<1>3. Len(q) = n /\ DOMAIN q = 1 .. n
  BY <1>1
<1> HIDE DEF q
<1> QED
  BY <1>1, <1>2, <1>3 DEF Stops

-----------------------------------------------------------------------------
(* What the report has                                                      *)

\* The carriers of stop i that are to be shown, and are loud enough for the blocks
\* it is mixed with, are among the signals.
Shown(i, mixed, signals) ==
    FullSweepBands[i].decode = "" =>
        \A c \in OnAir(i) : Loud(i, c, mixed) /\ PickType(i, <<i, c>>) \cap NeedDecode = {} =>
            \E t \in PickType(i, <<i, c>>) : Classify(i, <<i, c>>, t) \in signals

\* The aircraft a running scan has heard are in the rows or, at a stop with the
\* decoder on, in the table; the rows and the records have the same signals, and
\* after such a stop the same aircraft.
HeardInv ==
    /\ heard \subseteq Planes /\ adsbTable \subseteq Planes
    /\ \E S : bandRecords \in Seq(S)
    /\ listening =>
          /\ outcome = "running" /\ adsbTable \subseteq heard
          /\ rows \cap Planes \subseteq heard /\ heard \subseteq rows \cup adsbTable
          /\ Report(bandRecords) \subseteq rows /\ rows \subseteq Report(bandRecords) \cup Planes
          /\ band.decode # "adsb" => heard \subseteq rows /\ rows \subseteq Report(bandRecords)

\* Of n blocks averaged for stop i, mean of each stop, all but as many as were on their
\* way are its own, and the others are among those that were; coming are still to come.
MixedIs(i, mean, n, mixed, coming) ==
    /\ n + coming <= Len(mixed) + mean[i]
    /\ \A s \in 0 .. Len(FullSweepBands) : s # i =>
          /\ mean[s] + coming <= Len(mixed)
          /\ mean[s] > 0 => \E k \in 1 .. Len(mixed) : mixed[k] = s

\* The average of a stop without a decoder, and the stops before it recorded.
CarrierInv ==
    /\ bandIdx \in Stops /\ accumFrames \in Nat
    /\ accum \in [0 .. Len(FullSweepBands) -> Nat] /\ late \in Seq(0 .. Len(FullSweepBands))
    /\ listening =>
          /\ delays \in Seq(Seq(0 .. Len(FullSweepBands))) /\ Len(delays) = bandIdx
          /\ band.decode = "" =>
                /\ MixedIs(bandIdx, accum, accumFrames, delays[bandIdx], Len(late))
                /\ \A k \in 1 .. Len(late) :
                      \E m \in 1 .. Len(delays[bandIdx]) : delays[bandIdx][m] = late[k]
          /\ \A i \in 1 .. bandIdx - 1 : Shown(i, delays[i], Report(bandRecords))

LEMMA ReportEmpty == Report(<<>>) = {}
  BY DEF Report

LEMMA UnionOne ==
    ASSUME NEW Q, NEW R, NEW x, R = Q \cup {x} PROVE UNION R = (UNION Q) \cup x
<1>1. ASSUME NEW e \in UNION R PROVE e \in (UNION Q) \cup x
  <2>1. PICK y \in R : e \in y
    OBVIOUS
  <2>2. y \in Q \/ y = x
    BY <2>1
  <2> QED
    BY <2>1, <2>2
<1>2. ASSUME NEW e \in (UNION Q) \cup x PROVE e \in UNION R
  <2>1. CASE e \in x
    BY <2>1
  <2>2. CASE e \in UNION Q
    BY <2>2
  <2> QED
    BY <2>1, <2>2
<1> QED
  BY <1>1, <1>2

LEMMA ReportAppend ==
    ASSUME NEW S, NEW q \in Seq(S), NEW x
    PROVE  Report(Append(q, x)) = Report(q) \cup x
<1> DEFINE T == S \cup {x}
<1>1. q \in Seq(T) /\ x \in T
  OBVIOUS
<1> HIDE DEF T
<1>2. /\ DOMAIN Append(q, x) = DOMAIN q \cup {Len(q) + 1}
      /\ \A i \in DOMAIN q : Append(q, x)[i] = q[i]
      /\ Append(q, x)[Len(q) + 1] = x
  BY <1>1
<1> DEFINE r == Append(q, x)
<1> HIDE DEF r
<1>3. {r[i] : i \in DOMAIN r} = {q[i] : i \in DOMAIN q} \cup {x}
  <2>1. ASSUME NEW e \in {r[i] : i \in DOMAIN r} PROVE e \in {q[i] : i \in DOMAIN q} \cup {x}
    <3>1. PICK i \in DOMAIN r : e = r[i]
      OBVIOUS
    <3> QED
      BY <1>2, <3>1 DEF r
  <2>2. ASSUME NEW i \in DOMAIN q PROVE q[i] \in {r[j] : j \in DOMAIN r}
    BY <1>2 DEF r
  <2>3. x \in {r[j] : j \in DOMAIN r}
    BY <1>2 DEF r
  <2> QED
    BY <2>1, <2>2, <2>3
<1> DEFINE R == {r[i] : i \in DOMAIN r}
           Q == {q[i] : i \in DOMAIN q}
<1>4. UNION R = (UNION Q) \cup x
  <2>1. R = Q \cup {x}
    BY <1>3
  <2> HIDE DEF R, Q
  <2> QED
    BY ONLY <2>1, UnionOne
<1> QED
  BY <1>4 DEF r, Report

LEMMA ShownMore ==
    ASSUME NEW i, NEW d, NEW F, NEW G, F \subseteq G, Shown(i, d, F) PROVE Shown(i, d, G)
  BY DEF Shown

LEMMA EmitRows ==
    ASSUME NEW since, NEW table, NEW more, MaybeEmit(since, table, more)
    PROVE  more \subseteq rows' /\ rows' \subseteq more \cup table
  BY DEF MaybeEmit

-----------------------------------------------------------------------------
(* The peaks of a stop                                                      *)

\* The signals of a stop are no aircraft.
LEMMA FoundNames ==
    ASSUME CarrierInv, NEW found \in Found(Averaged) PROVE found \cap Planes = {}
<1>1. PICK F \in Peaks(Averaged) :
        \E type \in {t \in [F -> band.types] : \A p \in F : t[p] \in PickType(bandIdx, p)} :
           found = {Classify(bandIdx, p, type[p]) : p \in {q \in F : type[q] \notin NeedDecode}}
  BY DEF Found
<1>2. PICK type \in {t \in [F -> band.types] : \A p \in F : t[p] \in PickType(bandIdx, p)} :
           found = {Classify(bandIdx, p, type[p]) : p \in {q \in F : type[q] \notin NeedDecode}}
  BY <1>1
<1>3. F \subseteq Candidates(Averaged)
  BY <1>1 DEF Peaks, Strongest
<1>4. ASSUME NEW x \in found PROVE x \notin Planes
  <2>1. PICK p \in F : x = Classify(bandIdx, p, type[p])
    BY <1>2, <1>4
  <2>2. PICK s \in DOMAIN Averaged : p \in {<<s, c>> : c \in OnAir(s)}
    BY <1>3, <2>1 DEF Candidates
  <2>3. PICK c \in OnAir(s) : p = <<s, c>>
    BY <2>2
  <2>4. c \in Carriers /\ s \in 0 .. Len(FullSweepBands)
    BY <2>2, <2>3 DEF OnAir, Averaged, CarrierInv
  <2>5. type[p] \in FullSweepBands[bandIdx].types /\ bandIdx \in DOMAIN FullSweepBands
    BY <1>2, <2>1, PlanIs DEF CarrierInv, band
  <2> QED
    BY <2>1, <2>3, <2>4, <2>5, NamesAssumption
<1> QED
  BY <1>4

LEMMA MulMono ==
    ASSUME NEW a \in Nat, NEW b \in Int, a <= b, NEW x \in Nat PROVE a * x <= b * x
  OBVIOUS

LEMMA MulCancel ==
    ASSUME NEW a \in Nat \ {0}, NEW x \in Nat, NEW y \in Nat, a * x <= a * y PROVE x <= y
  OBVIOUS

\* What stands out of M blocks, L of them diluting it, stands out of more.
LEMMA MoreBlocks ==
    ASSUME NEW M \in Nat \ {0}, NEW T \in Nat \ {0}, NEW L \in Nat, NEW d \in Nat,
           (M - L) * d >= T * M, NEW n \in Nat, n >= M, NEW k \in Nat, n <= L + k
    PROVE  L < M /\ k > 0 /\ k >= M - L /\ k * d >= T * n
<1>1. T * M > 0
  OBVIOUS
<1>2. L < M
  <2> SUFFICES ASSUME L >= M PROVE FALSE
    OBVIOUS
  <2>1. (L - M) * d >= 0 /\ (M - L) * d = -((L - M) * d)
    OBVIOUS
  <2> QED
    BY <1>1, <2>1
<1>3. k > 0 /\ k >= M - L /\ k >= n - L
  BY <1>2
<1>4. PICK m \in Nat : m = M - L /\ m > 0 /\ m <= M
  BY <1>2
<1>5. m * T <= m * d
  <2>1. m * T <= M * T
    BY <1>4, MulMono
  <2>2. M * T = T * M /\ m * d >= T * M
    BY <1>4
  <2>3. m * T \in Nat /\ M * T \in Nat /\ m * d \in Nat
    BY <1>4
  <2> QED
    BY <2>1, <2>2, <2>3
<1>6. T <= d
  BY <1>4, <1>5, MulCancel
<1>7. PICK e \in Nat : e = n - M
  OBVIOUS
<1>8. T * e <= d * e
  BY <1>6, <1>7, MulMono
<1>9. k * d >= (m + e) * d
  <2>1. m + e \in Nat /\ m + e <= k
    BY <1>3, <1>4, <1>7
  <2> QED
    BY <2>1, MulMono
<1>10. (m + e) * d = m * d + d * e
  BY <1>4, <1>7
<1>11. T * n = T * M + T * e
  <2>1. n = M + e
    BY <1>7
  <2> QED
    BY <2>1
<1>12. m * d >= T * M
  BY <1>4
<1>13. k * d >= T * n
  <2>1. /\ k * d \in Nat /\ m * d \in Nat /\ d * e \in Nat /\ T * M \in Nat /\ T * e \in Nat
    BY <1>4, <1>7
  <2> QED
    BY <1>8, <1>9, <1>10, <1>11, <1>12, <2>1
<1> QED
  BY <1>2, <1>3, <1>13

\* A peak left out has no fewer than MaxPeaks before it.
LEMMA Rank ==
    ASSUME NEW R, IsFiniteSet(R), NEW F \in SUBSET R, NEW p \in R, p \notin F,
           Cardinality(F) = MaxPeaks
    PROVE  ~ (Cardinality(R) <= MaxPeaks)
<1>1. IsFiniteSet(F) /\ Cardinality(F) \in Nat
  BY FS_Subset, FS_CardinalityType
<1>2. IsFiniteSet(F \cup {p}) /\ Cardinality(F \cup {p}) = Cardinality(F) + 1
  BY <1>1, FS_AddElement
<1>3. Cardinality(F \cup {p}) <= Cardinality(R)
  BY FS_Subset
<1>4. Cardinality(R) \in Nat
  BY FS_CardinalityType
<1> QED
  BY <1>1, <1>2, <1>3, <1>4

LEMMA RivalsFinite ==
    ASSUME NEW i, NEW c, NEW d PROVE IsFiniteSet(Rivals(i, c, d))
<1>1. IsFiniteSet(0 .. Len(FullSweepBands))
  <2>1. 0 \in Int /\ Len(FullSweepBands) \in Int
    BY PlanIs
  <2> QED
    BY <2>1, FS_Interval
<1>2. IsFiniteSet((0 .. Len(FullSweepBands)) \X Carriers)
  BY <1>1, FS_Product, ScanAssumption
<1> QED
  BY <1>2, FS_Subset DEF Rivals

\* A carrier that is loud enough is a peak of the stop, as strong as it is in the
\* average, and so are its rivals.
LEMMA PeakTaken ==
    ASSUME bandIdx \in Stops, NEW mean \in [0 .. Len(FullSweepBands) -> Nat],
           FFTs \in Nat, FFTs >= MinFFT,
           NEW mixed \in Seq(0 .. Len(FullSweepBands)), MixedIs(bandIdx, mean, FFTs, mixed, 0),
           NEW c \in OnAir(bandIdx), Loud(bandIdx, c, mixed),
           NEW F \in Peaks(mean)
    PROVE  <<bandIdx, c>> \in F
<1> DEFINE N == Len(FullSweepBands)
           p == <<bandIdx, c>>
           k == mean[bandIdx]
           L == Len(mixed)
<1>1. N \in Nat \ {0} /\ bandIdx \in 1 .. N /\ bandIdx \in 0 .. N
  BY PlanIs DEF Stops
<1>2. \A e \in Carriers : e.db \in Nat
  BY ScanAssumption
<1>3. c \in Carriers
  BY DEF OnAir
<1>4. L < MinFFT /\ k > 0 /\ k >= MinFFT - L /\ k * c.db >= PeakThreshold * FFTs
  <2>1. MinFFT \in Nat \ {0} /\ PeakThreshold \in Nat \ {0} /\ L \in Nat /\ c.db \in Nat /\ k \in Nat
    BY <1>1, <1>2, <1>3, ScanAssumption
  <2>2. (MinFFT - L) * c.db >= PeakThreshold * MinFFT
    BY DEF Loud
  <2>3. FFTs <= L + k
    <3>1. FFTs + 0 <= L + k
      BY DEF MixedIs
    <3> QED
      BY <2>1, <3>1
  <2> HIDE DEF k, L
  <2> QED
    BY <2>1, <2>2, <2>3, MoreBlocks
<1>5. k \in Nat /\ L \in Nat /\ MinFFT \in Nat
  BY <1>1, ScanAssumption
<1>6. p \in Candidates(mean) /\ p[1] # 0
  BY <1>1, <1>4 DEF Candidates, Level
<1>7. PICK gone \in SUBSET {q \in Candidates(mean) : q[1] = 0} :
        F \in Strongest(mean, Candidates(mean) \ gone)
  BY DEF Peaks
<1>8. p \in Candidates(mean) \ gone
  BY <1>6, <1>7
<1>9. SUFFICES ASSUME p \notin F PROVE FALSE
  OBVIOUS
<1>10. /\ Cardinality(F) = MaxPeaks
       /\ \A q \in F : q \in Candidates(mean) /\ Level(mean, p) <= Level(mean, q)
  BY <1>7, <1>8, <1>9 DEF Strongest
<1>11. p \in Rivals(bandIdx, c, mixed)
  BY <1>1, <1>2, <1>3 DEF Rivals
<1>12. ASSUME NEW q \in F PROVE q \in Rivals(bandIdx, c, mixed)
  <2>1. PICK s \in 0 .. N : mean[s] > 0 /\ q \in {<<s, e>> : e \in OnAir(s)}
    BY <1>10, <1>12 DEF Candidates
  <2>0. PICK e \in OnAir(s) : q = <<s, e>>
    BY <2>1
  <2>2. e \in Carriers /\ e.db \in Nat /\ c.db \in Nat
    BY <1>2, <1>3 DEF OnAir
  <2>3. k * c.db <= mean[s] * e.db
    BY <1>10, <1>12, <2>0 DEF Level
  <2>4. CASE s = bandIdx
    <3>1. c.db <= e.db
      BY <1>4, <1>5, <2>2, <2>3, <2>4, MulCancel
    <3> QED
      BY <1>1, <2>0, <2>2, <2>4, <3>1 DEF Rivals
  <2>5. CASE s # bandIdx
    <3>1. mean[s] <= L /\ \E m \in 1 .. L : mixed[m] = s
      <4>1. mean[s] + 0 <= L /\ \E m \in 1 .. L : mixed[m] = s
        BY <2>1, <2>5 DEF MixedIs
      <4>2. mean[s] \in Nat
        BY <2>1
      <4> QED
        BY <1>5, <4>1, <4>2
    <3>2. mean[s] \in Nat
      BY <2>1
    <3>3. mean[s] * e.db <= L * e.db
      <4> DEFINE a == mean[s]
                 x == e.db
      <4>1. a \in Nat /\ a <= L /\ L \in Nat /\ x \in Nat
        BY <1>5, <2>2, <3>1, <3>2
      <4> HIDE DEF a, x, L
      <4>2. a * x <= L * x
        BY ONLY <4>1, MulMono
      <4> QED
        BY <4>2 DEF a, x
    <3>4. (MinFFT - L) * c.db <= k * c.db
      <4> DEFINE x == c.db
      <4>1. k \in Nat /\ L \in Nat /\ MinFFT \in Nat /\ L < MinFFT /\ k >= MinFFT - L /\ x \in Nat
        BY <1>4, <1>5, <2>2
      <4> HIDE DEF k, L, x
      <4>2. PICK m \in Nat : m = MinFFT - L /\ m <= k
        BY ONLY <4>1
      <4>3. m * x <= k * x
        BY ONLY <4>1, <4>2, MulMono
      <4>4. (MinFFT - L) * x <= k * x
        BY ONLY <4>2, <4>3
      <4> QED
        BY <4>4 DEF x
    <3>5. L * e.db >= (MinFFT - L) * c.db
      <4>1. /\ mean[s] * e.db \in Int /\ L * e.db \in Int /\ k * c.db \in Int /\ (MinFFT - L) * c.db \in Int
        BY ONLY <1>5, <2>2, <3>2
      <4> QED
        BY ONLY <2>3, <3>3, <3>4, <4>1
    <3> QED
      BY <2>0, <2>2, <3>1, <3>5 DEF Rivals
  <2> QED
    BY <2>4, <2>5
<1>13. ~ (Cardinality(Rivals(bandIdx, c, mixed)) <= MaxPeaks)
  BY <1>9, <1>10, <1>11, <1>12, RivalsFinite, Rank
<1> QED
  BY <1>13 DEF Loud

\* Its signal is among those the stop finds.
LEMMA CarrierFound ==
    ASSUME bandIdx \in Stops, Averaged \in [0 .. Len(FullSweepBands) -> Nat],
           FFTs \in Nat, FFTs >= MinFFT,
           NEW mixed \in Seq(0 .. Len(FullSweepBands)), MixedIs(bandIdx, Averaged, FFTs, mixed, 0),
           NEW found \in Found(Averaged)
    PROVE  Shown(bandIdx, mixed, found)
<1>1. PICK F \in Peaks(Averaged) :
        \E type \in {t \in [F -> band.types] : \A p \in F : t[p] \in PickType(bandIdx, p)} :
           found = {Classify(bandIdx, p, type[p]) : p \in {q \in F : type[q] \notin NeedDecode}}
  BY DEF Found
<1>2. PICK type \in {t \in [F -> band.types] : \A p \in F : t[p] \in PickType(bandIdx, p)} :
           found = {Classify(bandIdx, p, type[p]) : p \in {q \in F : type[q] \notin NeedDecode}}
  BY <1>1
<1>3. ASSUME NEW c \in OnAir(bandIdx), Loud(bandIdx, c, mixed),
             PickType(bandIdx, <<bandIdx, c>>) \cap NeedDecode = {}
      PROVE  \E t \in PickType(bandIdx, <<bandIdx, c>>) : Classify(bandIdx, <<bandIdx, c>>, t) \in found
  <2> DEFINE p == <<bandIdx, c>>
  <2>1. p \in F
    BY <1>1, <1>3, PeakTaken
  <2>2. type[p] \in PickType(bandIdx, p) /\ type[p] \notin NeedDecode
    BY <1>2, <1>3, <2>1
  <2> QED
    BY <1>2, <2>1, <2>2
<1> QED
  BY <1>3 DEF Shown

LEMMA ElementOf ==
    ASSUME NEW S, NEW q \in Seq(S), NEW i \in 1 .. Len(q) PROVE q[i] \in S
  OBVIOUS

LEMMA TailIs ==
    ASSUME NEW S, NEW q \in Seq(S), q # <<>>
    PROVE  /\ Len(q) \in Nat \ {0} /\ Len(Tail(q)) = Len(q) - 1 /\ Tail(q) \in Seq(S)
           /\ Head(q) = q[1] /\ Head(q) \in S /\ 1 \in 1 .. Len(q)
           /\ \A k \in 1 .. Len(Tail(q)) : Tail(q)[k] = q[k + 1] /\ k + 1 \in 1 .. Len(q)
  OBVIOUS

LEMMA Counted ==
    ASSUME NEW S, NEW a \in [S -> Nat], NEW x \in S, NEW b, b = [a EXCEPT ![x] = @ + 1]
    PROVE  /\ b \in [S -> Nat] /\ b[x] = a[x] + 1
           /\ \A s \in S : /\ s # x => b[s] = a[s]
                           /\ a[s] \in Nat /\ b[s] \in Nat /\ a[s] <= b[s] /\ b[s] <= a[s] + 1
<1>1. b \in [S -> Nat] /\ b[x] = a[x] + 1 /\ \A s \in S : s # x => b[s] = a[s]
  OBVIOUS
<1>2. ASSUME NEW s \in S PROVE a[s] \in Nat /\ b[s] \in Nat /\ a[s] <= b[s] /\ b[s] <= a[s] + 1
  <2>1. a[s] \in Nat
    OBVIOUS
  <2>2. b[s] = a[s] \/ b[s] = a[s] + 1
    BY <1>1
  <2> QED
    BY <2>1, <2>2
<1> QED
  BY <1>1, <1>2

LEMMA Sums ==
    ASSUME NEW a \in Nat, NEW b \in Nat, NEW c \in Nat, NEW n \in Nat, NEW d \in Nat
    PROVE  /\ n + a <= d + b => n + 0 <= d + b
           /\ n + a <= d => n + 0 <= d
           /\ a > 0 /\ n + a <= d /\ c <= n + 1 => c + (a - 1) <= d
           /\ a > 0 /\ n + a <= d + b /\ b <= c => (n + 1) + (a - 1) <= d + c
           /\ n + a <= d + b => (n + 1) + a <= d + (b + 1)
  OBVIOUS

\* A block more in the average: one that was on its way, or one of the stop's own.
LEMMA BlockMixed ==
    ASSUME CarrierInv, listening, band.decode = ""
    PROVE  /\ Averaged \in [0 .. Len(FullSweepBands) -> Nat] /\ FFTs = accumFrames + 1
           /\ StillLate \in Seq(0 .. Len(FullSweepBands))
           /\ MixedIs(bandIdx, Averaged, FFTs, delays[bandIdx], Len(StillLate))
           /\ \A k \in 1 .. Len(StillLate) :
                 \E m \in 1 .. Len(delays[bandIdx]) : delays[bandIdx][m] = StillLate[k]
<1> DEFINE N == Len(FullSweepBands)
           d == delays[bandIdx]
<1>1. /\ accum \in [0 .. N -> Nat] /\ late \in Seq(0 .. N) /\ accumFrames \in Nat
      /\ bandIdx \in 1 .. N /\ N \in Nat /\ d \in Seq(0 .. N)
      /\ MixedIs(bandIdx, accum, accumFrames, d, Len(late))
      /\ \A k \in 1 .. Len(late) : \E m \in 1 .. Len(d) : d[m] = late[k]
  <2>1. bandIdx \in 1 .. N /\ N \in Nat
    BY PlanIs DEF CarrierInv, Stops
  <2>2. delays \in Seq(Seq(0 .. N)) /\ Len(delays) = bandIdx
    BY DEF CarrierInv
  <2>3. d \in Seq(0 .. N)
    <3>1. Len(delays) = bandIdx
      BY <2>2
    <3> HIDE DEF N
    <3>2. bandIdx \in 1 .. Len(delays)
      BY ONLY <2>1, <3>1
    <3> QED
      BY ONLY <2>2, <3>2, ElementOf
  <2> QED
    BY <2>1, <2>3 DEF CarrierInv
<1>2. Averaged = [accum EXCEPT ![Captured] = @ + 1] /\ FFTs = accumFrames + 1
  BY DEF Averaged, FFTs
<1>a. accumFrames + Len(late) <= Len(d) + accum[bandIdx]
  BY <1>1 DEF MixedIs
<1>b. ASSUME NEW s \in 0 .. N, s # bandIdx
      PROVE  /\ accum[s] + Len(late) <= Len(d)
             /\ accum[s] > 0 => \E k \in 1 .. Len(d) : d[k] = s
  BY <1>1, <1>b DEF MixedIs
<1>c. bandIdx \in 0 .. N /\ Len(d) \in Nat /\ Len(late) \in Nat
  <2>1. bandIdx \in 0 .. N
    BY ONLY <1>1
  <2>2. Len(d) \in Nat /\ Len(late) \in Nat
    BY ONLY <1>1
  <2> QED
    BY <2>1, <2>2
<1> SUFFICES /\ Averaged \in [0 .. N -> Nat] /\ StillLate \in Seq(0 .. N)
             /\ FFTs + Len(StillLate) <= Len(d) + Averaged[bandIdx]
             /\ \A s \in 0 .. N : s # bandIdx =>
                   /\ Averaged[s] + Len(StillLate) <= Len(d)
                   /\ Averaged[s] > 0 => \E k \in 1 .. Len(d) : d[k] = s
             /\ \A k \in 1 .. Len(StillLate) : \E m \in 1 .. Len(d) : d[m] = StillLate[k]
  BY <1>2 DEF MixedIs
<1> HIDE DEF N, d
<1>3. CASE late = <<>>
  <2>1. Captured = bandIdx /\ StillLate = late
    BY <1>3 DEF Captured, StillLate
  <2>2. Averaged = [accum EXCEPT ![bandIdx] = @ + 1]
    BY <1>2, <2>1
  <2>3. /\ Averaged \in [0 .. N -> Nat] /\ Averaged[bandIdx] = accum[bandIdx] + 1
        /\ accum[bandIdx] \in Nat
        /\ \A s \in 0 .. N : s # bandIdx => Averaged[s] = accum[s]
    BY ONLY <1>1, <1>c, <2>2, Counted
  <2>4. FFTs + Len(StillLate) <= Len(d) + Averaged[bandIdx]
    <3>1. (accumFrames + 1) + Len(late) <= Len(d) + (accum[bandIdx] + 1)
      <4>1. accumFrames \in Nat
        BY <1>1
      <4> QED
        BY ONLY <1>a, <1>c, <2>3, <4>1, Sums
    <3> QED
      BY <1>2, <2>1, <2>3, <3>1
  <2>5. ASSUME NEW s \in 0 .. N, s # bandIdx
        PROVE  /\ Averaged[s] + Len(StillLate) <= Len(d)
               /\ Averaged[s] > 0 => \E k \in 1 .. Len(d) : d[k] = s
    BY <1>b, <2>1, <2>3, <2>5
  <2> QED
    BY <1>1, <2>1, <2>3, <2>4, <2>5
<1>4. CASE late # <<>>
  <2>1. /\ Captured = late[1] /\ StillLate = Tail(late) /\ StillLate \in Seq(0 .. N)
        /\ Len(late) \in Nat \ {0} /\ Len(StillLate) = Len(late) - 1
        /\ Captured \in 0 .. N /\ 1 \in 1 .. Len(late)
        /\ \A k \in 1 .. Len(StillLate) : StillLate[k] = late[k + 1] /\ k + 1 \in 1 .. Len(late)
    <3>1. Captured = Head(late) /\ StillLate = Tail(late)
      BY <1>4 DEF Captured, StillLate
    <3>2. late \in Seq(0 .. N)
      BY <1>1
    <3> QED
      BY ONLY <1>4, <3>1, <3>2, TailIs
  <2>2. /\ Averaged \in [0 .. N -> Nat] /\ Averaged[Captured] = accum[Captured] + 1
        /\ \A s \in 0 .. N : /\ s # Captured => Averaged[s] = accum[s]
                             /\ accum[s] \in Nat /\ Averaged[s] \in Nat
                             /\ accum[s] <= Averaged[s] /\ Averaged[s] <= accum[s] + 1
    <3>1. accum \in [0 .. N -> Nat] /\ Captured \in 0 .. N
      BY <1>1, <2>1
    <3> QED
      BY ONLY <1>2, <3>1, Counted
  <2>3. FFTs + Len(StillLate) <= Len(d) + Averaged[bandIdx]
    <3>1. /\ accumFrames \in Nat /\ Len(late) > 0
          /\ accum[bandIdx] \in Nat /\ Averaged[bandIdx] \in Nat /\ accum[bandIdx] <= Averaged[bandIdx]
      <4>1. accumFrames \in Nat
        BY <1>1
      <4>2. Len(late) > 0
        <5>1. Len(late) \in Nat \ {0}
          BY <2>1
        <5> QED
          BY ONLY <5>1
      <4> QED
        <5>1. /\ accum[bandIdx] \in Nat /\ Averaged[bandIdx] \in Nat /\ accum[bandIdx] <= Averaged[bandIdx]
          BY ONLY <1>c, <2>2
        <5> QED
          BY <4>1, <4>2, <5>1
    <3>2. (accumFrames + 1) + (Len(late) - 1) <= Len(d) + Averaged[bandIdx]
      BY ONLY <1>a, <1>c, <3>1, Sums
    <3> QED
      BY <1>2, <2>1, <3>2
  <2>4. ASSUME NEW s \in 0 .. N, s # bandIdx
        PROVE  /\ Averaged[s] + Len(StillLate) <= Len(d)
               /\ Averaged[s] > 0 => \E k \in 1 .. Len(d) : d[k] = s
    <3>1. /\ accum[s] + Len(late) <= Len(d)
          /\ accum[s] > 0 => \E k \in 1 .. Len(d) : d[k] = s
      BY <1>b, <2>4
    <3>2. Averaged[s] + Len(StillLate) <= Len(d)
      <4>1. accum[s] \in Nat /\ Averaged[s] \in Nat /\ Averaged[s] <= accum[s] + 1 /\ Len(late) > 0
        <5>1. Len(late) \in Nat \ {0}
          BY <2>1
        <5>2. Len(late) > 0
          BY ONLY <5>1
        <5> QED
          BY <2>2, <2>4, <5>2
      <4>2. Averaged[s] + (Len(late) - 1) <= Len(d)
        BY ONLY <1>c, <3>1, <4>1, Sums
      <4> QED
        BY <2>1, <4>2
    <3>3. CASE s = Captured
      BY <1>1, <2>1, <3>2, <3>3
    <3>4. CASE s # Captured
      BY <2>2, <2>4, <3>1, <3>2, <3>4
    <3> QED
      BY <3>3, <3>4
  <2>5. ASSUME NEW k \in 1 .. Len(StillLate) PROVE \E m \in 1 .. Len(d) : d[m] = StillLate[k]
    BY <1>1, <2>1, <2>5
  <2> QED
    BY <2>1, <2>2, <2>3, <2>4, <2>5
<1> QED
  BY <1>3, <1>4

\* What is mixed with blocks to come is mixed without them.
LEMMA MixedLess ==
    ASSUME bandIdx \in Stops, NEW mean \in [0 .. Len(FullSweepBands) -> Nat], NEW n \in Nat,
           NEW d \in Seq(0 .. Len(FullSweepBands)), NEW coming \in Nat, MixedIs(bandIdx, mean, n, d, coming)
    PROVE  MixedIs(bandIdx, mean, n, d, 0)
<1> DEFINE N == Len(FullSweepBands)
<1>1. bandIdx \in 0 .. N /\ Len(d) \in Nat
  BY PlanIs DEF Stops
<1>2. n + 0 <= Len(d) + mean[bandIdx]
  <2>1. n + coming <= Len(d) + mean[bandIdx] /\ mean[bandIdx] \in Nat
    BY <1>1 DEF MixedIs
  <2> QED
    BY ONLY <1>1, <2>1, n \in Nat, coming \in Nat, Sums
<1>3. ASSUME NEW s \in 0 .. N, s # bandIdx
      PROVE  /\ mean[s] + 0 <= Len(d)
             /\ mean[s] > 0 => \E k \in 1 .. Len(d) : d[k] = s
  <2>1. /\ mean[s] + coming <= Len(d) /\ mean[s] \in Nat
        /\ mean[s] > 0 => \E k \in 1 .. Len(d) : d[k] = s
    BY <1>3 DEF MixedIs
  <2>2. mean[s] + 0 <= Len(d)
    BY ONLY <1>1, <2>1, coming \in Nat, Sums
  <2> QED
    BY <2>1, <2>2
<1> QED
  BY <1>2, <1>3 DEF MixedIs

-----------------------------------------------------------------------------
(* What the end of a stop adds                                              *)

\* What the aircraft table may have after a block that brings planes, and after
\* which the table is synced.
LEMMA TableIs ==
    ASSUME HeardInv, listening, NEW planes \in SUBSET Planes, Heard(planes),
           NEW table \in Fresh(planes)
    PROVE  /\ table \subseteq Planes /\ table \subseteq heard' /\ heard \subseteq heard'
           /\ heard' \subseteq Planes /\ heard' \subseteq rows \cup table
           /\ band.decode # "adsb" => heard' = heard /\ table \subseteq adsbTable
<1>1. heard' = heard \cup planes /\ (planes # {} => band.decode = "adsb")
  BY DEF Heard
<1>2. CASE band.decode = "adsb"
  <2>1. table = adsbTable \cup planes
    BY <1>2 DEF Fresh
  <2> QED
    BY <1>1, <1>2, <2>1 DEF HeardInv
<1>3. CASE band.decode # "adsb"
  <2>1. table \subseteq adsbTable /\ planes = {}
    BY <1>1, <1>3 DEF Fresh
  <2> QED
    BY <1>1, <1>3, <2>1 DEF HeardInv
<1> QED
  BY <1>2, <1>3

\* The stop's signals bring the records up to the rows, with the aircraft heard.
LEMMA ChunkIs ==
    ASSUME HeardInv, CarrierInv, listening,
           NEW planes \in SUBSET Planes, Heard(planes),
           NEW table \in Fresh(planes), NEW found \in Found(Averaged)
    PROVE  /\ Chunk(found, table) \cap Planes \subseteq heard'
           /\ heard' \subseteq rows \cup Chunk(found, table)
           /\ table \subseteq Report(bandRecords) \cup Chunk(found, table)
           /\ rows \cup Chunk(found, table) = Report(bandRecords) \cup Chunk(found, table)
<1>1. /\ table \subseteq Planes /\ table \subseteq heard'
      /\ heard \subseteq heard' /\ heard' \subseteq rows \cup table /\ heard' \subseteq Planes
      /\ band.decode # "adsb" => heard' = heard /\ table \subseteq adsbTable
  BY TableIs
<1>2. CASE band.decode = "adsb"
  <2>1. Chunk(found, table) = (rows \cup table) \cap Planes
    BY <1>2 DEF Chunk, SignalsForBand
  <2> QED
    BY <1>1, <2>1 DEF HeardInv
<1>3. CASE band.decode # "adsb"
  <2>1. Chunk(found, table) \cap Planes = {}
    <3>1. CASE band.decode = ""
      BY <3>1, FoundNames DEF Chunk
    <3>2. CASE band.decode # ""
      BY <1>3, <3>2 DEF Chunk, SignalsForBand
    <3> QED
      BY <3>1, <3>2
  <2>2. heard \subseteq rows /\ rows \subseteq Report(bandRecords) /\ Report(bandRecords) \subseteq rows
        /\ adsbTable \subseteq heard
    BY <1>3 DEF HeardInv
  <2> QED
    BY <1>1, <1>3, <2>1, <2>2
<1> QED
  BY <1>2, <1>3

\* With the stop's signals, every stop up to it is recorded.
LEMMA StopShown ==
    ASSUME CarrierInv, listening, NEW now, ChunkReady(now, FFTs),
           NEW table, NEW found \in Found(Averaged)
    PROVE  \A i \in 1 .. bandIdx : Shown(i, delays[i], Report(bandRecords) \cup Chunk(found, table))
<1> SUFFICES ASSUME NEW i \in 1 .. bandIdx
             PROVE  Shown(i, delays[i], Report(bandRecords) \cup Chunk(found, table))
  OBVIOUS
<1>1. bandIdx \in Nat /\ bandIdx \in 1 .. bandIdx
  <2>1. bandIdx \in 1 .. Len(FullSweepBands)
    BY DEF CarrierInv, Stops
  <2> QED
    BY <2>1, PlanIs
<1>2. CASE i # bandIdx
  <2>1. i \in 1 .. bandIdx - 1
    BY <1>1, <1>2
  <2>2. Shown(i, delays[i], Report(bandRecords))
    BY <2>1 DEF CarrierInv
  <2> QED
    BY <2>2, ShownMore
<1>3. CASE i = bandIdx /\ band.decode = ""
  <2> DEFINE d == delays[bandIdx]
  <2>1. Chunk(found, table) = found
    BY <1>3 DEF Chunk
  <2>2. bandIdx \in Stops /\ accumFrames \in Nat
    BY DEF CarrierInv
  <2>3. d \in Seq(0 .. Len(FullSweepBands))
    <3>1. delays \in Seq(Seq(0 .. Len(FullSweepBands))) /\ Len(delays) = bandIdx
      BY DEF CarrierInv
    <3>2. bandIdx \in 1 .. Len(delays)
      BY <1>1, <3>1
    <3> QED
      BY ONLY <3>1, <3>2, ElementOf
  <2>4. /\ Averaged \in [0 .. Len(FullSweepBands) -> Nat] /\ FFTs = accumFrames + 1
        /\ StillLate \in Seq(0 .. Len(FullSweepBands))
        /\ MixedIs(bandIdx, Averaged, FFTs, d, Len(StillLate))
    BY <1>3, BlockMixed
  <2>5. FFTs \in Nat /\ FFTs >= MinFFT
    <3>1. FFTs = accumFrames + 1
      BY <2>4
    <3>2. FFTs >= MinFFT
      BY <1>3 DEF ChunkReady
    <3> QED
      BY ONLY <2>2, <3>1, <3>2
  <2>6. Len(StillLate) \in Nat
    BY <2>4
  <2> HIDE DEF d
  <2>7. MixedIs(bandIdx, Averaged, FFTs, d, 0)
    BY <2>2, <2>3, <2>4, <2>5, <2>6, MixedLess
  <2>8. Shown(bandIdx, d, found)
    BY <2>2, <2>3, <2>4, <2>5, <2>7, CarrierFound
  <2>9. found \subseteq Report(bandRecords) \cup Chunk(found, table)
    BY <2>1
  <2>10. Shown(bandIdx, d, Report(bandRecords) \cup Chunk(found, table))
    BY <2>8, <2>9, ShownMore
  <2> QED
    BY <1>3, <2>10 DEF d
<1>4. CASE i = bandIdx /\ band.decode # ""
  BY <1>4 DEF Shown, band
<1> QED
  BY <1>2, <1>3, <1>4

-----------------------------------------------------------------------------
(* The inductive steps                                                      *)

LEMMA HeardNext ==
    HeardInv /\ CarrierInv /\ [Next]_vars => HeardInv'
<1> SUFFICES ASSUME HeardInv, CarrierInv, [Next]_vars PROVE HeardInv'
  OBVIOUS
<1>1. CASE Begin
  <2>1. heard' = {} /\ adsbTable' = {} /\ rows' = {} /\ bandRecords' = <<>> /\ outcome' = "running"
    BY <1>1 DEF Begin
  <2>2. bandRecords' \in Seq({})
    BY <2>1
  <2>3. Report(bandRecords') = {}
    BY <2>1, ReportEmpty
  <2> QED
    BY <2>1, <2>2, <2>3 DEF HeardInv
<1>2. CASE Stop
  BY <1>2 DEF Stop, HeardInv
<1>3. CASE Dwell
  <2>1. PICK dt \in {1, 2}, planes \in SUBSET Planes :
          LET now == UpTo(elapsed + dt, IF band.decode = "" THEN Settle ELSE dwell)
          IN /\ listening /\ Heard(planes)
             /\ \E table \in Fresh(planes) :
                   adsbTable' = table /\ MaybeEmit(UpTo(sinceEmit + dt, EmitMin), table, rows)
             /\ UNCHANGED <<listening, bandIdx, bandRecords, outcome>>
    BY <1>3 DEF Dwell
  <2>2. PICK table \in Fresh(planes) :
          adsbTable' = table /\ MaybeEmit(UpTo(sinceEmit + dt, EmitMin), table, rows)
    BY <2>1
  <2>3. listening /\ Heard(planes) /\ UNCHANGED <<listening, bandIdx, bandRecords, outcome>>
    BY <2>1
  <2>4. rows \subseteq rows' /\ rows' \subseteq rows \cup table
    BY <2>2, EmitRows
  <2>5. /\ table \subseteq Planes /\ table \subseteq heard' /\ heard \subseteq heard'
        /\ heard' \subseteq Planes /\ heard' \subseteq rows \cup table
        /\ band.decode # "adsb" => heard' = heard /\ table \subseteq adsbTable
    BY <2>3, TableIs
  <2>6. band' = band
    BY <2>3 DEF band
  <2>7. Report(bandRecords)' = Report(bandRecords)
    BY <2>3
  <2>8. rows' \cap Planes \subseteq heard' /\ heard' \subseteq rows' \cup adsbTable'
    BY <2>2, <2>3, <2>4, <2>5 DEF HeardInv
  <2>9. Report(bandRecords') \subseteq rows' /\ rows' \subseteq Report(bandRecords') \cup Planes
    BY <2>3, <2>4, <2>5 DEF HeardInv
  <2>10. ASSUME band'.decode # "adsb" PROVE heard' \subseteq rows' /\ rows' \subseteq Report(bandRecords')
    BY <2>3, <2>4, <2>5, <2>6, <2>10 DEF HeardInv
  <2> QED
    BY <2>2, <2>3, <2>5, <2>8, <2>9, <2>10 DEF HeardInv
<1>4. CASE StopDone
  <2>1. PICK dt \in {1, 2}, planes \in SUBSET Planes :
          /\ listening /\ Heard(planes)
          /\ \E found \in Found(Averaged), table \in Fresh(planes) :
                LET chunk == Chunk(found, table)
                IN /\ adsbTable' = table
                   /\ bandRecords' = Append(bandRecords, chunk)
                   /\ MaybeEmit(UpTo(sinceEmit + dt, EmitMin), table, Upserted(chunk))
          /\ UNCHANGED <<listening, outcome>>
    BY <1>4 DEF StopDone
  <2>2. PICK found \in Found(Averaged), table \in Fresh(planes) :
          /\ adsbTable' = table
          /\ bandRecords' = Append(bandRecords, Chunk(found, table))
          /\ MaybeEmit(UpTo(sinceEmit + dt, EmitMin), table, Upserted(Chunk(found, table)))
    BY <2>1
  <2> DEFINE chunk == Chunk(found, table)
  <2>3. rows \cup chunk \subseteq rows' /\ rows' \subseteq (rows \cup chunk) \cup table
    BY <2>2, EmitRows DEF Upserted
  <2>4. /\ table \subseteq Planes /\ table \subseteq heard' /\ heard \subseteq heard' /\ heard' \subseteq Planes
    BY <2>1, TableIs
  <2>5. /\ chunk \cap Planes \subseteq heard' /\ heard' \subseteq rows \cup chunk
        /\ table \subseteq Report(bandRecords) \cup chunk
        /\ rows \cup chunk = Report(bandRecords) \cup chunk
    BY <2>1, ChunkIs
  <2>6. PICK S : bandRecords \in Seq(S)
    BY DEF HeardInv
  <2>7. bandRecords' \in Seq(S \cup {chunk}) /\ Report(bandRecords') = Report(bandRecords) \cup chunk
    BY <2>2, <2>6, ReportAppend, AppendFacts
  <2> HIDE DEF chunk
  <2>8. Report(bandRecords') = rows' /\ heard' \subseteq rows' /\ rows' \cap Planes \subseteq heard'
    BY <2>1, <2>3, <2>4, <2>5, <2>7 DEF HeardInv
  <2> QED
    BY <2>1, <2>2, <2>4, <2>7, <2>8 DEF HeardInv
<1>5. CASE ScanDone
  <2>1. PICK planes \in SUBSET Planes :
          /\ listening /\ Heard(planes)
          /\ \E found \in Found(Averaged), table \in Fresh(planes) :
                adsbTable' = table /\ bandRecords' = Append(bandRecords, Chunk(found, table))
    BY <1>5 DEF ScanDone
  <2>2. PICK found \in Found(Averaged), table \in Fresh(planes) :
          adsbTable' = table /\ bandRecords' = Append(bandRecords, Chunk(found, table))
    BY <2>1
  <2>3. table \subseteq Planes /\ heard' \subseteq Planes
    BY <2>1, TableIs
  <2>4. PICK S : bandRecords \in Seq(S)
    BY DEF HeardInv
  <2>5. bandRecords' \in Seq(S \cup {Chunk(found, table)})
    BY <2>2, <2>4, AppendFacts
  <2>6. listening' = FALSE
    BY <1>5 DEF ScanDone
  <2> QED
    BY <2>2, <2>3, <2>5, <2>6 DEF HeardInv
<1>6. CASE UNCHANGED scanVars
  BY <1>6 DEF HeardInv, band
<1> QED
  BY <1>1, <1>2, <1>3, <1>4, <1>5, <1>6 DEF Next, ReadLoop, Push, Receive

LEMMA LenIs == ASSUME NEW S, NEW q \in Seq(S) PROVE Len(q) \in Nat
  OBVIOUS

\* A stop that begins: what is on its way is what it will be mixed with.
LEMMA StopBegins ==
    ASSUME NEW i \in Stops, NEW blocks \in Seq(0 .. Len(FullSweepBands)),
           FullSweepBands[i].decode = ""
    PROVE  /\ Mixed(i, blocks) = blocks
           /\ MixedIs(i, NoSpectra, 0, blocks, Len(blocks))
<1>1. Mixed(i, blocks) = blocks
  BY DEF Mixed
<1>2. \A s \in 0 .. Len(FullSweepBands) : NoSpectra[s] = 0
  BY DEF NoSpectra
<1>3. i \in 0 .. Len(FullSweepBands) /\ Len(blocks) \in Nat
  <2>1. Len(FullSweepBands) \in Nat /\ i \in 1 .. Len(FullSweepBands)
    BY PlanIs DEF Stops
  <2>2. Len(blocks) \in Nat
    BY ONLY blocks \in Seq(0 .. Len(FullSweepBands)), LenIs
  <2> QED
    BY ONLY <2>1, <2>2
<1>4. 0 + Len(blocks) <= Len(blocks) + NoSpectra[i]
  <2>1. NoSpectra[i] = 0
    BY <1>2, <1>3
  <2> QED
    BY ONLY <1>3, <2>1
<1>5. ASSUME NEW s \in 0 .. Len(FullSweepBands)
      PROVE  NoSpectra[s] + Len(blocks) <= Len(blocks) /\ ~ (NoSpectra[s] > 0)
  <2>1. NoSpectra[s] = 0
    BY <1>2
  <2> QED
    BY ONLY <1>3, <2>1
<1> QED
  BY <1>1, <1>4, <1>5 DEF MixedIs

LEMMA NoSpectraType == NoSpectra \in [0 .. Len(FullSweepBands) -> Nat]
  BY DEF NoSpectra

LEMMA SameBlocks ==
    ASSUME NEW N, NEW n \in Nat, NEW x \in 0 .. N PROVE [k \in 1 .. n |-> x] \in Seq(0 .. N)
  OBVIOUS

LEMMA OneMore ==
    ASSUME NEW S, NEW q \in Seq(S), NEW x \in S
    PROVE  /\ Append(q, x) \in Seq(S) /\ Len(q) \in Nat /\ Len(Append(q, x)) = Len(q) + 1
           /\ Append(q, x)[Len(q) + 1] = x /\ \A i \in 1 .. Len(q) : Append(q, x)[i] = q[i]
  OBVIOUS

LEMMA One ==
    ASSUME NEW S, NEW x \in S PROVE <<x>> \in Seq(S) /\ Len(<<x>>) = 1 /\ <<x>>[1] = x
  OBVIOUS

LEMMA MixedType ==
    ASSUME NEW S, NEW i, NEW q \in Seq(S) PROVE Mixed(i, q) \in Seq(S)
<1>1. Mixed(i, q) = q \/ Mixed(i, q) = <<>>
  BY DEF Mixed
<1>2. <<>> \in Seq(S)
  OBVIOUS
<1> QED
  BY <1>1, <1>2

LEMMA CarrierNext ==
    HeardInv /\ CarrierInv /\ [Next]_vars => CarrierInv'
<1> SUFFICES ASSUME HeardInv, CarrierInv, [Next]_vars PROVE CarrierInv'
  OBVIOUS
<1> DEFINE N == Len(FullSweepBands)
<1>t. N \in Nat \ {0} /\ bandIdx \in Stops /\ accumFrames \in Nat /\ accum \in [0 .. N -> Nat]
      /\ late \in Seq(0 .. N) /\ 0 \in 0 .. N /\ InFlight \in Nat
  <2>1. N \in Nat \ {0}
    BY PlanIs
  <2>2. 0 \in 0 .. N
    BY <2>1
  <2> QED
    BY <2>1, <2>2, ScanAssumption DEF CarrierInv
<1>1. CASE Begin
  <2>1. /\ bandIdx' = 1 /\ accumFrames' = 0 /\ accum' = NoSpectra /\ delays' = <<Mixed(1, late')>>
        /\ \E n \in 0 .. InFlight : late' = [k \in 1 .. n |-> 0]
    BY <1>1 DEF Begin
  <2>2. 1 \in Stops
    BY PlanIs DEF Stops
  <2>3. late' \in Seq(0 .. N)
    <3>1. PICK n \in 0 .. InFlight : late' = [k \in 1 .. n |-> 0]
      BY <2>1
    <3>2. n \in Nat
      BY <1>t, <3>1
    <3> HIDE DEF N
    <3> QED
      BY ONLY <1>t, <3>1, <3>2, SameBlocks
  <2>4. Mixed(1, late') \in Seq(0 .. N)
    BY <2>3, MixedType
  <2>5. delays' \in Seq(Seq(0 .. N)) /\ Len(delays') = 1 /\ delays'[1] = Mixed(1, late')
    BY <2>1, <2>4, One
  <2>6. band'.decode = "" =>
          /\ MixedIs(bandIdx', accum', accumFrames', delays'[bandIdx'], Len(late'))
          /\ \A k \in 1 .. Len(late') : \E m \in 1 .. Len(delays'[bandIdx']) : delays'[bandIdx'][m] = late'[k]
    <3> SUFFICES ASSUME band'.decode = "" PROVE
            /\ MixedIs(1, NoSpectra, 0, delays'[1], Len(late'))
            /\ \A k \in 1 .. Len(late') : \E m \in 1 .. Len(delays'[1]) : delays'[1][m] = late'[k]
      BY <2>1
    <3>1. FullSweepBands[1].decode = ""
      BY <2>1 DEF band
    <3>2. delays'[1] = late' /\ MixedIs(1, NoSpectra, 0, late', Len(late'))
      BY <2>2, <2>3, <2>5, <3>1, StopBegins
    <3> QED
      BY <3>2
  <2>7. 1 .. bandIdx' - 1 = {}
    BY <2>1
  <2>8. accum' \in [0 .. N -> Nat] /\ accumFrames' \in Nat /\ bandIdx' \in Stops /\ Len(delays') = bandIdx'
    BY <2>1, <2>2, <2>5, NoSpectraType
  <2> QED
    BY <2>3, <2>5, <2>6, <2>7, <2>8 DEF CarrierInv
<1>2. CASE Stop
  BY <1>2 DEF Stop, CarrierInv
<1>3. CASE Dwell
  <2>1. /\ listening /\ UNCHANGED <<listening, bandIdx, bandRecords, delays>>
        /\ accumFrames' = FFTs /\ accum' = Averaged /\ late' = StillLate
    BY <1>3 DEF Dwell
  <2>2. band' = band
    BY <2>1 DEF band
  <2>3. CASE band.decode = ""
    <3>1. /\ Averaged \in [0 .. N -> Nat] /\ FFTs = accumFrames + 1
          /\ StillLate \in Seq(0 .. N)
          /\ MixedIs(bandIdx, Averaged, FFTs, delays[bandIdx], Len(StillLate))
          /\ \A k \in 1 .. Len(StillLate) :
                \E m \in 1 .. Len(delays[bandIdx]) : delays[bandIdx][m] = StillLate[k]
      BY <2>1, <2>3, BlockMixed
    <3>2. FFTs \in Nat
      BY <1>t, <3>1
    <3> QED
      BY <2>1, <2>2, <3>1, <3>2 DEF CarrierInv
  <2>4. CASE band.decode # ""
    <3>1. accum' = accum /\ accumFrames' = accumFrames
      BY <2>1, <2>4 DEF FFTs, Averaged
    <3>2. late' \in Seq(0 .. N)
      <4>1. CASE late = <<>>
        BY <1>t, <2>1, <4>1 DEF StillLate
      <4>2. CASE late # <<>>
        <5>1. late' = Tail(late) /\ late \in Seq(0 .. N)
          BY <1>t, <2>1, <4>2 DEF StillLate
        <5> QED
          BY ONLY <4>2, <5>1, TailIs
      <4> QED
        BY <4>1, <4>2
    <3> QED
      BY <2>1, <2>2, <2>4, <3>1, <3>2 DEF CarrierInv
  <2> QED
    BY <2>3, <2>4
<1>4. CASE StopDone
  <2>1. PICK dt \in {1, 2}, planes \in SUBSET Planes :
          /\ listening /\ ChunkReady(elapsed + dt, FFTs) /\ ~LastStop
          /\ \E found \in Found(Averaged), table \in Fresh(planes) :
                bandRecords' = Append(bandRecords, Chunk(found, table))
          /\ bandIdx' = (bandIdx % Len(FullSweepBands)) + 1
          /\ accumFrames' = NewAverage /\ accum' = NoSpectra
          /\ late' \in InFlightNow /\ delays' = Append(delays, Mixed(bandIdx + 1, late'))
    BY <1>4 DEF StopDone
  <2>2. PICK found \in Found(Averaged), table \in Fresh(planes) :
          bandRecords' = Append(bandRecords, Chunk(found, table))
    BY <2>1
  <2>3. PICK S : bandRecords \in Seq(S)
    BY DEF HeardInv
  <2>4. Report(bandRecords') = Report(bandRecords) \cup Chunk(found, table)
    BY <2>2, <2>3, ReportAppend
  <2>5. \A i \in 1 .. bandIdx : Shown(i, delays[i], Report(bandRecords'))
    BY <2>1, <2>4, StopShown
  <2>6. bandIdx' = bandIdx + 1 /\ bandIdx' \in Stops /\ bandIdx \in Nat \ {0} /\ bandIdx \in 0 .. N
    <3>1. bandIdx \in 1 .. N
      BY <1>t DEF Stops
    <3>2. ~ (bandIdx + 1 > N) /\ bandIdx' = (bandIdx % N) + 1
      BY <2>1 DEF LastStop
    <3>3. N \in Nat \ {0}
      BY <1>t
    <3> HIDE DEF N
    <3>4. bandIdx < N /\ bandIdx \in Nat \ {0} /\ bandIdx \in 0 .. N
      BY ONLY <3>1, <3>2, <3>3
    <3>5. bandIdx' = bandIdx + 1
      BY ONLY <3>2, <3>3, <3>4, ModIs
    <3>6. bandIdx' \in 1 .. N
      BY ONLY <3>3, <3>4, <3>5
    <3> QED
      BY <3>4, <3>5, <3>6 DEF N, Stops
  <2>7. late' \in Seq(0 .. N)
    <3>1. PICK n \in 0 .. InFlight - Len(StillLate) : late' = StillLate \o [k \in 1 .. n |-> bandIdx]
      BY <2>1 DEF InFlightNow
    <3>2. StillLate \in Seq(0 .. N)
      <4>1. CASE late = <<>>
        BY <1>t, <4>1 DEF StillLate
      <4>2. CASE late # <<>>
        <5>1. StillLate = Tail(late) /\ late \in Seq(0 .. N)
          BY <1>t, <4>2 DEF StillLate
        <5> QED
          BY ONLY <4>2, <5>1, TailIs
      <4> QED
        BY <4>1, <4>2
    <3>3. n \in Nat
      <4>1. Len(StillLate) \in Nat
        BY <3>2
      <4> QED
        BY <1>t, <3>1, <4>1
    <3> DEFINE b == [k \in 1 .. n |-> bandIdx]
    <3>4. b \in Seq(0 .. N)
      <4> HIDE DEF N
      <4> QED
        BY ONLY <2>6, <3>3, SameBlocks
    <3> HIDE DEF N, b
    <3>5. late' = StillLate \o b
      BY <3>1 DEF b
    <3> QED
      BY ONLY <3>2, <3>4, <3>5, ConcatFacts
  <2>8. /\ delays \in Seq(Seq(0 .. N)) /\ Len(delays) = bandIdx
        /\ Mixed(bandIdx', late') \in Seq(0 .. N) /\ delays' = Append(delays, Mixed(bandIdx', late'))
    BY <2>1, <2>6, <2>7, MixedType DEF CarrierInv
  <2>9. /\ delays' \in Seq(Seq(0 .. N)) /\ Len(delays') = bandIdx'
        /\ delays'[bandIdx'] = Mixed(bandIdx', late')
        /\ \A i \in 1 .. bandIdx : delays'[i] = delays[i]
    <3> DEFINE SS == Seq(0 .. N)
               x == Mixed(bandIdx', late')
    <3>1. delays \in Seq(SS) /\ x \in SS /\ delays' = Append(delays, x) /\ Len(delays) = bandIdx
      BY <2>8
    <3> HIDE DEF SS, x, N
    <3>2. /\ delays' \in Seq(SS) /\ Len(delays') = Len(delays) + 1
          /\ delays'[Len(delays) + 1] = x /\ \A i \in 1 .. Len(delays) : delays'[i] = delays[i]
      BY ONLY <3>1, OneMore
    <3> QED
      BY <2>6, <3>1, <3>2 DEF SS, x
  <2>10. band'.decode = "" =>
          /\ MixedIs(bandIdx', accum', accumFrames', delays'[bandIdx'], Len(late'))
          /\ \A k \in 1 .. Len(late') : \E m \in 1 .. Len(delays'[bandIdx']) : delays'[bandIdx'][m] = late'[k]
    <3> SUFFICES ASSUME band'.decode = "" PROVE
            /\ MixedIs(bandIdx', NoSpectra, 0, delays'[bandIdx'], Len(late'))
            /\ \A k \in 1 .. Len(late') : \E m \in 1 .. Len(delays'[bandIdx']) : delays'[bandIdx'][m] = late'[k]
      BY <2>1 DEF NewAverage
    <3>1. FullSweepBands[bandIdx'].decode = ""
      BY DEF band
    <3>2. Mixed(bandIdx', late') = late' /\ MixedIs(bandIdx', NoSpectra, 0, late', Len(late'))
      BY <2>6, <2>7, <3>1, StopBegins
    <3> QED
      BY <2>9, <3>2
  <2>11. \A i \in 1 .. bandIdx' - 1 : Shown(i, delays'[i], Report(bandRecords'))
    <3>1. bandIdx' - 1 = bandIdx
      BY <2>6
    <3> QED
      BY <2>5, <2>9, <3>1
  <2>12. accum' \in [0 .. N -> Nat] /\ accumFrames' \in Nat
    BY <2>1, NoSpectraType DEF NewAverage
  <2> QED
    BY <2>6, <2>7, <2>9, <2>10, <2>11, <2>12 DEF CarrierInv
<1>5. CASE ScanDone
  BY <1>5 DEF ScanDone, CarrierInv
<1>6. CASE UNCHANGED scanVars
  BY <1>6 DEF CarrierInv, band
<1> QED
  BY <1>1, <1>2, <1>3, <1>4, <1>5, <1>6 DEF Next, ReadLoop, Push, Receive

LEMMA ReportNext ==
    HeardInv /\ CarrierInv /\ ReportIsTrue /\ [Next]_vars => ReportIsTrue'
<1> SUFFICES ASSUME HeardInv, CarrierInv, ReportIsTrue, [Next]_vars PROVE ReportIsTrue'
  OBVIOUS
<1>1. CASE Begin \/ Stop
  <2>1. outcome' # "done"
    BY <1>1 DEF Begin, Stop
  <2> QED
    BY <2>1 DEF ReportIsTrue
<1>2. CASE Dwell \/ StopDone
  <2>1. listening /\ outcome' = outcome
    BY <1>2 DEF Dwell, StopDone
  <2>2. outcome' # "done"
    BY <2>1 DEF HeardInv
  <2> QED
    BY <2>2 DEF ReportIsTrue
<1>3. CASE ScanDone
  <2>1. PICK dt \in {1, 2}, planes \in SUBSET Planes :
          /\ listening /\ ChunkReady(elapsed + dt, FFTs) /\ LastStop /\ Heard(planes)
          /\ \E found \in Found(Averaged), table \in Fresh(planes) :
                /\ rows' = Upserted(Chunk(found, table))
                /\ bandRecords' = Append(bandRecords, Chunk(found, table))
          /\ report' = Report(bandRecords') /\ delays' = delays
    BY <1>3 DEF ScanDone
  <2>2. PICK found \in Found(Averaged), table \in Fresh(planes) :
          /\ rows' = Upserted(Chunk(found, table))
          /\ bandRecords' = Append(bandRecords, Chunk(found, table))
    BY <2>1
  <2> DEFINE chunk == Chunk(found, table)
             signals == Report(bandRecords) \cup chunk
  <2>3. PICK S : bandRecords \in Seq(S)
    BY DEF HeardInv
  <2>4. report' = signals
    BY <2>1, <2>2, <2>3, ReportAppend
  <2>5. rows' = rows \cup chunk
    BY <2>2 DEF Upserted
  <2>6. /\ chunk \cap Planes \subseteq heard' /\ heard' \subseteq rows \cup chunk
        /\ rows \cup chunk = signals
    BY <2>1, ChunkIs
  <2>7. heard \subseteq heard' /\ heard' \subseteq Planes
    BY <2>1, TableIs
  <2>8. \A i \in 1 .. bandIdx : Shown(i, delays[i], signals)
    BY <2>1, StopShown
  <2> HIDE DEF chunk
  <2>9. signals = rows' /\ signals \cap Planes = heard'
    <3>1. rows \cap Planes \subseteq heard
      BY <2>1 DEF HeardInv
    <3> QED
      BY <2>5, <2>6, <2>7, <3>1
  <2> HIDE DEF signals
  <2>10. \A i \in 1 .. Len(FullSweepBands) : Shown(i, delays[i], signals)
    <3> DEFINE n == Len(FullSweepBands)
    <3>1. bandIdx \in 1 .. n /\ n \in Nat /\ bandIdx + 1 > n
      BY <2>1, PlanIs DEF CarrierInv, Stops, LastStop
    <3> HIDE DEF n
    <3>2. bandIdx = n
      BY ONLY <3>1
    <3> QED
      BY <2>8, <3>2 DEF n
  <2>11. /\ report' = rows' /\ report' \cap Planes = heard'
         /\ \A i \in 1 .. Len(FullSweepBands) : Shown(i, delays'[i], report')
    BY <2>1, <2>4, <2>9, <2>10
  <2> QED
    BY ONLY <2>11 DEF ReportIsTrue, Shown
<1>4. CASE UNCHANGED scanVars
  BY <1>4 DEF ReportIsTrue
<1> QED
  BY <1>1, <1>2, <1>3, <1>4 DEF Next, ReadLoop, Push, Receive

-----------------------------------------------------------------------------
\* The report of a complete full scan is what the clients have been shown: its
\* aircraft are those heard since the scan began, and every carrier of a type that
\* is to be shown is in it, that is loud enough for the blocks that were on their
\* way when its stop began, for every plan, air, limit and interleaving
\* (completeFullScan, finishSpectrumBand, syncDecodedToProtocol).
THEOREM ReportTrue == FairSpec => []ReportIsTrue
<1> DEFINE Inv == ScanInv /\ HeardInv /\ CarrierInv /\ ReportIsTrue
<1>1. Init => Inv
  <2> SUFFICES ASSUME Init PROVE HeardInv /\ CarrierInv /\ ReportIsTrue
    BY ScanInit
  <2>1. /\ listening = FALSE /\ outcome = "none" /\ bandIdx = 1 /\ accumFrames = 0
        /\ accum = NoSpectra /\ late = <<>> /\ adsbTable \in SUBSET Planes
        /\ bandRecords = <<>> /\ heard = {}
    BY DEF Init
  <2>2. bandRecords \in Seq({}) /\ late \in Seq(0 .. Len(FullSweepBands))
    BY <2>1
  <2>3. 1 \in Stops
    BY PlanIs DEF Stops
  <2> QED
    BY <2>1, <2>2, <2>3, NoSpectraType DEF HeardInv, CarrierInv, ReportIsTrue
<1>2. Inv /\ [Next]_vars => Inv'
  BY ChannelNext, FramesNext, HeardNext, CarrierNext, ReportNext DEF ScanInv
<1>3. Inv => ReportIsTrue
  OBVIOUS
<1> QED
  BY <1>1, <1>2, <1>3, PTL DEF FairSpec
=============================================================================
