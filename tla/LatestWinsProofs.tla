-------------------------- MODULE LatestWinsProofs --------------------------
(* What LatestWins promises, proved for every capacity but 0. *)
EXTENDS LatestWins, TLAPS

TypeInv == newest \in Nat /\ got \in Nat /\ queue \in Seq(Nat)

CapOK == Cap \in Nat \ {0}

Inv == TypeInv /\ Ordered /\ NewestKept

-----------------------------------------------------------------------------
(* Increasing sequences, by length n, with elements above lo and up to hi.  *)

Rising(q, n, lo, hi) ==
    /\ \A i \in 1 .. n : q[i] \in Nat /\ lo < q[i] /\ q[i] <= hi
    /\ \A i, j \in 1 .. n : i < j => q[i] < q[j]

LEMMA RisingAppend ==
    ASSUME NEW n \in Nat, NEW q, NEW r, NEW lo \in Nat, NEW hi \in Nat, lo <= hi,
           Rising(q, n, lo, hi),
           \A i \in 1 .. n : r[i] = q[i], r[n + 1] = hi + 1
    PROVE  Rising(r, n + 1, lo, hi + 1)
<1>1. ASSUME NEW i \in 1 .. n + 1
      PROVE  r[i] \in Nat /\ lo < r[i] /\ r[i] <= hi + 1
  <2>1. i = n + 1 \/ i \in 1 .. n
    OBVIOUS
  <2> QED
    BY <2>1 DEF Rising
<1>2. ASSUME NEW i \in 1 .. n + 1, NEW j \in 1 .. n + 1, i < j
      PROVE  r[i] < r[j]
  <2>1. i \in 1 .. n /\ (j = n + 1 \/ j \in 1 .. n)
    BY <1>2
  <2> QED
    BY <1>2, <2>1 DEF Rising
<1> QED
  BY <1>1, <1>2 DEF Rising

LEMMA RisingTail ==
    ASSUME NEW n \in Nat \ {0}, NEW q, NEW r, NEW lo, NEW hi \in Nat,
           Rising(q, n, lo, hi),
           \A i \in 1 .. n - 1 : r[i] = q[i + 1]
    PROVE  Rising(r, n - 1, q[1], hi)
<1>1. \A i \in 1 .. n - 1 : i + 1 \in 1 .. n /\ 1 < i + 1
  OBVIOUS
<1>2. \A i \in 1 .. n - 1 : r[i] \in Nat /\ q[1] < r[i] /\ r[i] <= hi
  BY <1>1 DEF Rising
<1>3. ASSUME NEW i \in 1 .. n - 1, NEW j \in 1 .. n - 1, i < j
      PROVE  r[i] < r[j]
  BY <1>1, <1>3 DEF Rising
<1> QED
  BY <1>2, <1>3 DEF Rising

LEMMA RisingInv ==
    ASSUME TypeInv
    PROVE  Ordered <=> Len(queue) <= Cap /\ Rising(queue, Len(queue), got, newest)
  BY DEF TypeInv, Ordered, Rising

LEMMA TailFacts ==
    ASSUME NEW q \in Seq(Nat), q # <<>>
    PROVE  /\ Len(q) \in Nat \ {0} /\ Len(Tail(q)) = Len(q) - 1
           /\ Tail(q) \in Seq(Nat) /\ Head(q) = q[1] /\ q[1] \in Nat
           /\ \A i \in 1 .. Len(q) - 1 : Tail(q)[i] = q[i + 1]
  OBVIOUS

LEMMA AppendFacts ==
    ASSUME NEW q \in Seq(Nat), NEW x \in Nat
    PROVE  /\ Len(q) \in Nat /\ Len(Append(q, x)) = Len(q) + 1
           /\ Append(q, x) \in Seq(Nat) /\ Append(q, x) # <<>>
           /\ \A i \in 1 .. Len(q) : Append(q, x)[i] = q[i]
           /\ Append(q, x)[Len(q) + 1] = x
  OBVIOUS

-----------------------------------------------------------------------------
LEMMA PutInv == CapOK /\ Inv /\ Put => Inv'
<1> SUFFICES ASSUME CapOK, Inv, Put PROVE Inv'
    OBVIOUS
<1>1. /\ newest \in Nat /\ got \in Nat /\ queue \in Seq(Nat) /\ got <= newest
      /\ newest' = newest + 1 /\ got' = got
      /\ Len(queue) <= Cap /\ Rising(queue, Len(queue), got, newest)
  <2>1. TypeInv /\ Ordered /\ NewestKept /\ Len(queue) \in Nat
    BY DEF Inv, TypeInv
  <2>2. Len(queue) <= Cap /\ Rising(queue, Len(queue), got, newest)
    BY <2>1, RisingInv
  <2>3. got <= newest
    <3>1. CASE queue = <<>>
      BY <2>1, <3>1 DEF NewestKept, TypeInv
    <3>2. CASE queue # <<>>
      <4>1. 1 \in 1 .. Len(queue)
        BY <2>1, <3>2 DEF TypeInv
      <4> QED
        BY <2>1, <2>2, <4>1 DEF Rising, TypeInv
    <3> QED
      BY <3>1, <3>2
  <2> QED
    BY <2>1, <2>2, <2>3 DEF Put, TypeInv
<1>2. ASSUME NEW q \in Seq(Nat), NEW lo \in Nat, got <= lo, lo <= newest,
             Rising(q, Len(q), lo, newest), Len(q) < Cap,
             queue' = Append(q, newest + 1)
      PROVE  Inv'
  <2>1. /\ Len(queue') = Len(q) + 1 /\ queue' \in Seq(Nat) /\ queue' # <<>>
        /\ Rising(queue', Len(q) + 1, lo, newest + 1)
        /\ queue'[Len(q) + 1] = newest + 1 /\ Len(q) \in Nat
    <3>1. newest + 1 \in Nat /\ lo <= newest
      BY <1>1, <1>2
    <3>2. /\ Len(queue') = Len(q) + 1 /\ queue' \in Seq(Nat) /\ queue' # <<>>
          /\ queue'[Len(q) + 1] = newest + 1 /\ Len(q) \in Nat
          /\ \A i \in 1 .. Len(q) : queue'[i] = q[i]
      BY <1>2, <3>1, AppendFacts
    <3>3. Rising(queue', Len(q) + 1, lo, newest + 1)
      BY <1>1, <1>2, <3>2, RisingAppend
    <3> QED
      BY <3>2, <3>3
  <2>2. Rising(queue', Len(q) + 1, got, newest + 1)
    BY <1>1, <1>2, <2>1 DEF Rising
  <2>3. TypeInv' /\ NewestKept'
    BY <1>1, <2>1 DEF TypeInv, NewestKept
  <2>4. Len(queue') <= Cap
    BY <1>2, <2>1 DEF CapOK
  <2>5. Ordered'
    BY <1>1, <2>1, <2>2, <2>4 DEF Ordered, Rising
  <2> QED
    BY <2>3, <2>5 DEF Inv
<1>3. CASE Len(queue) < Cap /\ queue' = Append(queue, newest + 1)
  BY <1>1, <1>2, <1>3
<1>4. CASE queue # <<>> /\ queue' = Append(Tail(queue), newest + 1)
  <2>1. Rising(Tail(queue), Len(queue) - 1, queue[1], newest)
    BY <1>1, <1>4, TailFacts, RisingTail
  <2>2. /\ got <= queue[1] /\ queue[1] <= newest /\ queue[1] \in Nat
        /\ Len(queue) \in Nat \ {0} /\ Len(Tail(queue)) = Len(queue) - 1
        /\ Tail(queue) \in Seq(Nat)
    <3>1. 1 \in 1 .. Len(queue)
      BY <1>1, <1>4, TailFacts
    <3> QED
      BY <1>1, <1>4, <3>1, TailFacts DEF Rising
  <2>3. Len(Tail(queue)) < Cap
    BY <1>1, <2>2 DEF CapOK
  <2> QED
    BY <1>2, <1>4, <2>1, <2>2, <2>3
<1> QED
  BY <1>3, <1>4 DEF Put

LEMMA TakeInv == CapOK /\ Inv /\ Take => Inv'
<1> SUFFICES ASSUME CapOK, Inv, Take PROVE Inv'
    OBVIOUS
<1>1. /\ newest \in Nat /\ queue \in Seq(Nat) /\ queue # <<>>
      /\ newest' = newest /\ got' = Head(queue) /\ queue' = Tail(queue)
      /\ Len(queue) <= Cap /\ Rising(queue, Len(queue), got, newest)
      /\ queue[Len(queue)] = newest
  BY RisingInv DEF Inv, TypeInv, NewestKept, Take
<1>2. /\ Len(queue) \in Nat \ {0} /\ Len(queue') = Len(queue) - 1
      /\ queue' \in Seq(Nat) /\ got' = queue[1] /\ got' \in Nat
      /\ \A i \in 1 .. Len(queue) - 1 : queue'[i] = queue[i + 1]
  BY <1>1, TailFacts
<1>3. Rising(queue', Len(queue) - 1, got', newest)
  BY <1>1, <1>2, RisingTail
<1>4. TypeInv'
  BY <1>1, <1>2 DEF TypeInv
<1>5. Ordered'
  BY <1>1, <1>2, <1>3 DEF CapOK, Ordered, Rising
<1>6. NewestKept'
  <2>1. CASE Len(queue) = 1
    BY <1>1, <1>2, <2>1 DEF NewestKept
  <2>2. CASE Len(queue) # 1
    <3>1. Len(queue) - 1 \in 1 .. Len(queue) - 1 /\ Len(queue) - 1 + 1 = Len(queue)
      BY <1>2, <2>2
    <3>2. queue'[Len(queue) - 1] = newest
      <4>1. queue'[Len(queue) - 1] = queue[Len(queue) - 1 + 1]
        BY <1>2, <3>1
      <4> QED
        BY <1>1, <3>1, <4>1
    <3>3. queue' # <<>>
      BY <1>2, <3>1
    <3> QED
      BY <1>1, <1>2, <3>2, <3>3 DEF NewestKept
  <2> QED
    BY <2>1, <2>2
<1> QED
  BY <1>4, <1>5, <1>6 DEF Inv

\* The queue rises from got to newest, and ends in newest.
THEOREM Invariant ==
    ASSUME CapOK
    PROVE  Spec => []Inv
<1>1. Init => Inv
  BY DEF CapOK, Init, Inv, TypeInv, Ordered, NewestKept
<1>2. Inv /\ UNCHANGED vars => Inv'
  BY DEF Inv, TypeInv, Ordered, NewestKept, vars
<1>3. Inv /\ [Put \/ Take]_vars => Inv'
  BY <1>2, PutInv, TakeInv
<1> QED
  BY <1>1, <1>3, PTL DEF Spec

\* Frames leave a latest-wins channel in the order they were put, none twice.
THEOREM FramesStayOrdered ==
    ASSUME CapOK
    PROVE  Spec => []Ordered
  BY Invariant, PTL DEF Inv

\* The frame put last is still there, or is the one taken last.
THEOREM NewestNeverLost ==
    ASSUME CapOK
    PROVE  Spec => []NewestKept
  BY Invariant, PTL DEF Inv
=============================================================================
