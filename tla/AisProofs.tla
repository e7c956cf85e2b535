------------------------------ MODULE AisProofs ------------------------------
(***************************************************************************)
(* Proofs about AisChannel, as a stage of Decoders: what a ship sends is   *)
(* what the deframer hands up.                                             *)
(***************************************************************************)
EXTENDS Decoders, FiniteSetTheorems, SequenceTheorems, WellFoundedInduction, TLAPS

-----------------------------------------------------------------------------
(* Induction over data                                                      *)

\* From the minimum of a set of numbers: the library's principle of induction
\* takes an operator, this one a set.
LEMMA Induct ==
    ASSUME NEW S, 0 \in S, \A n \in Nat : n \in S => n + 1 \in S
    PROVE  \A n \in Nat : n \in S
<1> DEFINE T == Nat \ S
           R == OpToRel(<, Nat)
<1> SUFFICES ASSUME T # {} PROVE FALSE
  OBVIOUS
<1>1. PICK n \in T : \A m \in T : ~(<<m, n>> \in R)
  <2>1. IsWellFoundedOn(R, Nat)
    BY NatLessThanWellFounded
  <2>2. T \subseteq Nat
    OBVIOUS
  <2> HIDE DEF T, R
  <2> QED
    BY <2>1, <2>2, WFMin
<1>2. n \in Nat \ {0} /\ n - 1 \in Nat
  OBVIOUS
<1>3. n - 1 \notin T
  <2>1. SUFFICES ASSUME n - 1 \in T PROVE FALSE
    OBVIOUS
  <2>2. <<n - 1, n>> \in R
    BY <1>2 DEF OpToRel
  <2> QED
    BY <1>1, <2>1, <2>2
<1> QED
  BY <1>2, <1>3

Folder(A, B, g, base) == g \in [A \X B -> A] /\ base \in A
Folds(f, A, g, base, s) ==
    /\ f \in [0 .. Len(s) -> A] /\ f[0] = base
    /\ \A i \in 1 .. Len(s) : f[i] = g[<<f[i - 1], s[i]>>]

\* A fold has its intermediate results: a function of how far it has come.
LEMMA FoldExists ==
    ASSUME NEW A, NEW B, NEW g, NEW base, Folder(A, B, g, base), NEW s \in Seq(B)
    PROVE  \E f : Folds(f, A, g, base, s)
<1> DEFINE Good(n, f) == f[0] = base /\ \A i \in 1 .. n : f[i] = g[<<f[i - 1], s[i]>>]
           S == {n \in Nat : n <= Len(s) => \E f \in [0 .. n -> A] : Good(n, f)}
<1>0. Len(s) \in Nat /\ base \in A /\ g \in [A \X B -> A]
  BY DEF Folder
<1>1. 0 \in S
  <2>1. [i \in 0 .. 0 |-> base] \in [0 .. 0 -> A]
    BY <1>0
  <2>2. Good(0, [i \in 0 .. 0 |-> base])
    OBVIOUS
  <2> QED
    BY <2>1, <2>2
<1>2. ASSUME NEW n \in Nat, n \in S PROVE n + 1 \in S
  <2> SUFFICES ASSUME n + 1 <= Len(s) PROVE \E f \in [0 .. n + 1 -> A] : Good(n + 1, f)
    OBVIOUS
  <2>1. PICK f \in [0 .. n -> A] : Good(n, f)
    BY <1>0, <1>2
  <2> DEFINE h == [i \in 0 .. n + 1 |-> IF i = n + 1 THEN g[<<f[n], s[n + 1]>>] ELSE f[i]]
  <2>2. s[n + 1] \in B /\ f[n] \in A
    BY <1>0
  <2>3. g[<<f[n], s[n + 1]>>] \in A
    BY <1>0, <2>2
  <2>4. h \in [0 .. n + 1 -> A]
    BY <2>3
  <2>5. h[n + 1] = g[<<f[n], s[n + 1]>>] /\ \A i \in 0 .. n : h[i] = f[i]
    OBVIOUS
  <2> HIDE DEF h
  <2>6. ASSUME NEW i \in 1 .. n + 1 PROVE h[i] = g[<<h[i - 1], s[i]>>]
    <3>1. CASE i = n + 1
      <4>1. n + 1 \in Nat /\ n \in 0 .. n /\ (n + 1) - 1 = n
        OBVIOUS
      <4> QED
        BY <2>5, <3>1, <4>1
    <3>2. CASE i \in 1 .. n
      <4>1. i \in 0 .. n /\ i - 1 \in 0 .. n
        BY <3>2
      <4> QED
        BY <2>1, <2>5, <3>2, <4>1
    <3> QED
      BY <3>1, <3>2
  <2>7. h[0] = base
    BY <2>1, <2>5
  <2> QED
    BY <2>4, <2>6, <2>7
<1>3. Len(s) \in S
  <2> HIDE DEF S
  <2> QED
    BY <1>0, <1>1, <1>2, Induct
<1> QED
  BY <1>0, <1>3 DEF Folds

\* It has them once, also in a fold over more.
LEMMA FoldUnique ==
    ASSUME NEW A, NEW g, NEW base, NEW s, NEW t, NEW f, NEW h, Len(s) \in Nat,
           \A i \in 1 .. Len(s) : t[i] = s[i], Len(s) <= Len(t), Len(t) \in Nat,
           Folds(f, A, g, base, s), Folds(h, A, g, base, t)
    PROVE  \A i \in 0 .. Len(s) : f[i] = h[i]
<1> DEFINE S == {i \in Nat : i <= Len(s) => f[i] = h[i]}
<1>1. 0 \in S
  BY DEF Folds
<1>2. ASSUME NEW i \in Nat, i \in S PROVE i + 1 \in S
  <2> SUFFICES ASSUME i + 1 <= Len(s) PROVE f[i + 1] = h[i + 1]
    OBVIOUS
  <2>1. f[i] = h[i] /\ i + 1 \in 1 .. Len(s) /\ i + 1 \in 1 .. Len(t) /\ (i + 1) - 1 = i
    BY <1>2
  <2>2. f[i + 1] = g[<<f[i], s[i + 1]>>] /\ h[i + 1] = g[<<h[i], t[i + 1]>>]
    BY <2>1 DEF Folds
  <2> QED
    BY <2>1, <2>2
<1>3. \A i \in Nat : i \in S
  <2> HIDE DEF S
  <2> QED
    BY <1>1, <1>2, Induct
<1> QED
  BY <1>3

\* The result.
Fold(A, g, base, s) ==
    (CHOOSE f : Folds(f, A, g, base, s))[Len(s)]

\* Whichever intermediate results one finds, the last one is the result.
LEMMA FoldIs ==
    ASSUME NEW A, NEW B, NEW g, NEW base, Folder(A, B, g, base), NEW s \in Seq(B)
    PROVE  /\ Fold(A, g, base, s) \in A
           /\ \A f : Folds(f, A, g, base, s) => Fold(A, g, base, s) = f[Len(s)]
<1> DEFINE c == CHOOSE f : Folds(f, A, g, base, s)
<1>0. Len(s) \in Nat /\ Len(s) \in 0 .. Len(s)
  OBVIOUS
<1>1. Folds(c, A, g, base, s)
  BY FoldExists
<1>2. Fold(A, g, base, s) = c[Len(s)]
  BY DEF Fold
<1> HIDE DEF c
<1>3. c[Len(s)] \in A
  BY <1>0, <1>1 DEF Folds
<1>4. ASSUME NEW f, Folds(f, A, g, base, s) PROVE c[Len(s)] = f[Len(s)]
  BY <1>0, <1>1, <1>4, FoldUnique
<1> QED
  BY <1>2, <1>3, <1>4

\* A fold over nothing, and over one element more.
LEMMA FoldEmpty ==
    ASSUME NEW A, NEW B, NEW g, NEW base, Folder(A, B, g, base)
    PROVE  Fold(A, g, base, <<>>) = base
<1> DEFINE e == <<>>
<1>1. e \in Seq(B) /\ Len(e) = 0
  BY EmptySeq
<1> HIDE DEF e
<1>2. PICK f : Folds(f, A, g, base, e)
  BY <1>1, FoldExists
<1>3. Fold(A, g, base, e) = f[Len(e)] /\ f[0] = base
  BY <1>1, <1>2, FoldIs DEF Folds
<1> QED
  BY <1>1, <1>3 DEF e

LEMMA FoldAppend ==
    ASSUME NEW A, NEW B, NEW g, NEW base, Folder(A, B, g, base), NEW s \in Seq(B), NEW b \in B
    PROVE  Fold(A, g, base, Append(s, b)) = g[<<Fold(A, g, base, s), b>>]
<1> DEFINE t == Append(s, b)
<1>1. /\ t \in Seq(B) /\ Len(t) = Len(s) + 1 /\ t[Len(s) + 1] = b
      /\ \A i \in 1 .. Len(s) : t[i] = s[i]
  BY AppendProperties
<1> HIDE DEF t
<1>2. PICK h : Folds(h, A, g, base, t)
  BY <1>1, FoldExists
<1>3. PICK f : Folds(f, A, g, base, s)
  BY FoldExists
<1>4. Len(s) \in Nat /\ Len(s) <= Len(t) /\ Len(t) \in Nat /\ Len(t) \in 1 .. Len(t) /\ Len(t) - 1 = Len(s)
  BY <1>1
<1>5. f[Len(s)] = h[Len(s)]
  <2>1. Len(s) \in 0 .. Len(s)
    BY <1>4
  <2> QED
    BY <1>1, <1>2, <1>3, <1>4, <2>1, FoldUnique
<1>6. h[Len(t)] = g[<<h[Len(s)], b>>]
  <2>1. h[Len(t)] = g[<<h[Len(t) - 1], t[Len(t)]>>]
    BY <1>2, <1>4 DEF Folds
  <2> QED
    BY <1>1, <1>4, <2>1
<1>7. Fold(A, g, base, t) = h[Len(t)] /\ Fold(A, g, base, s) = f[Len(s)]
  BY <1>1, <1>2, <1>3, FoldIs
<1> QED
  BY <1>5, <1>6, <1>7 DEF t

\* The one that Along finds: a function that is base at first and follows g while
\* its values are in A is the fold.
Follows(c, A, g, base, s) ==
    /\ c = [i \in 0 .. Len(s) |-> c[i]] /\ c[0] = base
    /\ \A i \in 1 .. Len(s) : c[i - 1] \in A => c[i] = g[<<c[i - 1], s[i]>>]
LEMMA FoldFound ==
    ASSUME NEW A, NEW B, NEW g, NEW base, Folder(A, B, g, base), NEW s \in Seq(B), NEW c,
           Follows(c, A, g, base, s)
    PROVE  c[Len(s)] = Fold(A, g, base, s)
<1>0. /\ Len(s) \in Nat /\ \A i \in 1 .. Len(s) : s[i] \in B
      /\ base \in A /\ g \in [A \X B -> A]
      /\ c = [i \in 0 .. Len(s) |-> c[i]] /\ c[0] = base
      /\ \A i \in 1 .. Len(s) : c[i - 1] \in A => c[i] = g[<<c[i - 1], s[i]>>]
  <2>1. Len(s) \in Nat /\ \A i \in 1 .. Len(s) : s[i] \in B
    BY ElementOfSeq
  <2>2. base \in A /\ g \in [A \X B -> A]
    BY DEF Folder
  <2>3. /\ c = [i \in 0 .. Len(s) |-> c[i]] /\ c[0] = base
        /\ \A i \in 1 .. Len(s) : c[i - 1] \in A => c[i] = g[<<c[i - 1], s[i]>>]
    BY DEF Follows
  <2> QED
    BY <2>1, <2>2, <2>3
<1> DEFINE S == {i \in Nat : i <= Len(s) => c[i] \in A}
<1>1. 0 \in S
  BY <1>0
<1>2. ASSUME NEW i \in Nat, i \in S PROVE i + 1 \in S
  <2> SUFFICES ASSUME i + 1 <= Len(s) PROVE c[i + 1] \in A
    OBVIOUS
  <2>1. c[i] \in A /\ i + 1 \in 1 .. Len(s) /\ (i + 1) - 1 = i
    BY <1>0, <1>2
  <2>2. c[i + 1] = g[<<c[i], s[i + 1]>>] /\ s[i + 1] \in B
    BY <1>0, <2>1
  <2> QED
    BY <1>0, <2>1, <2>2
<1>3. \A i \in Nat : i \in S
  <2> HIDE DEF S
  <2> QED
    BY <1>1, <1>2, Induct
<1>4. \A i \in 0 .. Len(s) : c[i] \in A
  BY <1>0, <1>3
<1>5. c \in [0 .. Len(s) -> A]
  BY <1>0, <1>4
<1>6. Folds(c, A, g, base, s)
  <2>1. \A i \in 1 .. Len(s) : i - 1 \in 0 .. Len(s)
    BY <1>0
  <2> QED
    BY <1>0, <1>4, <1>5, <2>1 DEF Folds
<1> QED
  BY <1>6, FoldIs

-----------------------------------------------------------------------------
(* The folds of a channel                                                   *)

Bit == {0, 1}
Word == {q \in Seq(Bit) : Len(q) = 16}
Stuffing == [out : Seq(Bit), ones : 0 .. 4]
Destuffing == [out : Seq(Bit), ones : 0 .. 5]

FcsBase == [i \in 1 .. 16 |-> 1]
BitsBase == [out |-> <<>>, ones |-> 0]

LEMMA WordIs == \A q : q \in Word <=> q \in Seq(Bit) /\ Len(q) = 16
  BY DEF Word

\* The three folds: their values stay in a set, hence they go step by step.
LEMMA FcsStepType == ASSUME NEW crc \in Word, NEW b \in Bit PROVE FcsStep(crc, b) \in Word
<1> DEFINE half == Append(Tail(crc), 0)
<1>1. half \in Word
  <2>0. crc \in Seq(Bit) /\ Len(crc) = 16
    BY WordIs
  <2>1. crc # <<>>
    BY <2>0
  <2>2. Tail(crc) \in Seq(Bit) /\ Len(Tail(crc)) = 15
    BY <2>0, <2>1, HeadTailProperties
  <2>3. 0 \in Bit
    BY DEF Bit
  <2>4. half \in Seq(Bit) /\ Len(half) = Len(Tail(crc)) + 1
    BY <2>2, <2>3, AppendProperties
  <2> HIDE DEF half
  <2> QED
    BY <2>2, <2>4, WordIs
<1>2. \A i \in 1 .. 16 : half[i] \in Bit /\ 1 - half[i] \in Bit
  BY <1>1 DEF Word, Bit
<1> DEFINE t == [i \in 1 .. 16 |-> IF i \in {4, 11, 16} THEN 1 - half[i] ELSE half[i]]
<1> HIDE DEF half
<1>3. t \in Word
  BY <1>2 DEF Word
<1> HIDE DEF t
<1> QED
  BY <1>1, <1>3 DEF FcsStep, half, t

LEMMA StuffStepType ==
    ASSUME NEW a \in Stuffing, NEW b \in Bit PROVE StuffStep(a, b) \in Stuffing
<1>1. <<1, 0>> \in Seq(Bit)
  BY DEF Bit
<1>2. a.out \in Seq(Bit) /\ a.out \o <<1, 0>> \in Seq(Bit) /\ Append(a.out, b) \in Seq(Bit)
      /\ a.ones \in 0 .. 4
  BY <1>1 DEF Stuffing
<1> QED
  BY <1>2 DEF StuffStep, Stuffing

LEMMA DestuffStepType ==
    ASSUME NEW a \in Destuffing, NEW b \in Bit PROVE DestuffStep(a, b) \in Destuffing
<1>1. a.out \in Seq(Bit) /\ Append(a.out, b) \in Seq(Bit) /\ a.ones \in 0 .. 5
  BY DEF Destuffing
<1>2. CASE a.ones = 5
  BY <1>1, <1>2 DEF DestuffStep, Destuffing
<1>3. CASE a.ones # 5
  BY <1>1, <1>3 DEF DestuffStep, Destuffing
<1> QED
  BY <1>2, <1>3

\* The results, with what the last bit adds.
Stuffed(s) == Along(StuffStep, BitsBase, s)
Destuffed(s) == Along(DestuffStep, BitsBase, s)
Checked(s) == Along(FcsStep, FcsBase, s)

\* Stuffing, destuffing and the check sequence of one bit more.
LEMMA StuffedIs ==
    /\ Stuffed(<<>>) = BitsBase
    /\ \A s \in Seq(Bit) : /\ Stuffed(s) \in Stuffing
                         /\ \A b \in Bit : Stuffed(Append(s, b)) = StuffStep(Stuffed(s), b)
<1> DEFINE g == [p \in Stuffing \X Bit |-> StuffStep(p[1], p[2])]
<1>1. Folder(Stuffing, Bit, g, BitsBase)
  BY StuffStepType DEF Folder, BitsBase, Stuffing
<1>2. \A a \in Stuffing, b \in Bit : g[<<a, b>>] = StuffStep(a, b)
  OBVIOUS
<1> HIDE DEF g
<1>3. ASSUME NEW s \in Seq(Bit) PROVE Stuffed(s) = Fold(Stuffing, g, BitsBase, s)
  <2> DEFINE Body(f) == [i \in 0 .. Len(s) |-> IF i = 0 THEN BitsBase ELSE StuffStep(f[i - 1], s[i])]
             c == CHOOSE f : f = Body(f)
  <2>0. \A i \in 1 .. Len(s) : s[i] \in Bit
    BY ElementOfSeq
  <2>1. PICK h : Folds(h, Stuffing, g, BitsBase, s)
    BY <1>1, FoldExists
  <2>2. h = Body(h)
    <3>1. ASSUME NEW i \in 1 .. Len(s) PROVE h[i] = StuffStep(h[i - 1], s[i])
      <4>1. h[i - 1] \in Stuffing /\ s[i] \in Bit
        BY <2>0, <2>1 DEF Folds
      <4> QED
        BY <1>2, <2>1, <4>1 DEF Folds
    <3> QED
      BY <2>1, <3>1 DEF Folds
  <2>3. c = Body(c)
    BY <2>2
  <2>4. Stuffed(s) = c[Len(s)]
    BY DEF Stuffed, Along
  <2> HIDE DEF c
  <2>5. c = [i \in 0 .. Len(s) |-> c[i]] /\ c[0] = BitsBase
    BY <2>3
  <2>6. ASSUME NEW i \in 1 .. Len(s), c[i - 1] \in Stuffing PROVE c[i] = g[<<c[i - 1], s[i]>>]
    <3>1. c[i] = StuffStep(c[i - 1], s[i])
      BY <2>3
    <3> QED
      BY <1>2, <2>0, <2>6, <3>1
  <2>7. Follows(c, Stuffing, g, BitsBase, s)
    BY <2>5, <2>6 DEF Follows
  <2> QED
    BY <1>1, <2>4, <2>7, FoldFound
<1>4. Stuffed(<<>>) = BitsBase
  BY <1>1, <1>3, FoldEmpty, EmptySeq
<1>5. ASSUME NEW s \in Seq(Bit), NEW b \in Bit
      PROVE  Stuffed(Append(s, b)) = StuffStep(Stuffed(s), b) /\ Stuffed(s) \in Stuffing
  <2>1. Append(s, b) \in Seq(Bit) /\ Fold(Stuffing, g, BitsBase, s) \in Stuffing
    BY <1>1, AppendProperties, FoldIs
  <2>2. Fold(Stuffing, g, BitsBase, Append(s, b)) = g[<<Fold(Stuffing, g, BitsBase, s), b>>]
    BY <1>1, FoldAppend
  <2> QED
    BY <1>2, <1>3, <2>1, <2>2
<1>6. \A s \in Seq(Bit) : Stuffed(s) \in Stuffing
  BY <1>1, <1>3, FoldIs
<1> QED
  BY <1>4, <1>5, <1>6

LEMMA DestuffedIs ==
    /\ Destuffed(<<>>) = BitsBase
    /\ \A s \in Seq(Bit) : /\ Destuffed(s) \in Destuffing
                         /\ \A b \in Bit : Destuffed(Append(s, b)) = DestuffStep(Destuffed(s), b)
<1> DEFINE g == [p \in Destuffing \X Bit |-> DestuffStep(p[1], p[2])]
<1>1. Folder(Destuffing, Bit, g, BitsBase)
  BY DestuffStepType DEF Folder, BitsBase, Destuffing
<1>2. \A a \in Destuffing, b \in Bit : g[<<a, b>>] = DestuffStep(a, b)
  OBVIOUS
<1> HIDE DEF g
<1>3. ASSUME NEW s \in Seq(Bit) PROVE Destuffed(s) = Fold(Destuffing, g, BitsBase, s)
  <2> DEFINE Body(f) == [i \in 0 .. Len(s) |-> IF i = 0 THEN BitsBase ELSE DestuffStep(f[i - 1], s[i])]
             c == CHOOSE f : f = Body(f)
  <2>0. \A i \in 1 .. Len(s) : s[i] \in Bit
    BY ElementOfSeq
  <2>1. PICK h : Folds(h, Destuffing, g, BitsBase, s)
    BY <1>1, FoldExists
  <2>2. h = Body(h)
    <3>1. ASSUME NEW i \in 1 .. Len(s) PROVE h[i] = DestuffStep(h[i - 1], s[i])
      <4>1. h[i - 1] \in Destuffing /\ s[i] \in Bit
        BY <2>0, <2>1 DEF Folds
      <4> QED
        BY <1>2, <2>1, <4>1 DEF Folds
    <3> QED
      BY <2>1, <3>1 DEF Folds
  <2>3. c = Body(c)
    BY <2>2
  <2>4. Destuffed(s) = c[Len(s)]
    BY DEF Destuffed, Along
  <2> HIDE DEF c
  <2>5. c = [i \in 0 .. Len(s) |-> c[i]] /\ c[0] = BitsBase
    BY <2>3
  <2>6. ASSUME NEW i \in 1 .. Len(s), c[i - 1] \in Destuffing PROVE c[i] = g[<<c[i - 1], s[i]>>]
    <3>1. c[i] = DestuffStep(c[i - 1], s[i])
      BY <2>3
    <3> QED
      BY <1>2, <2>0, <2>6, <3>1
  <2>7. Follows(c, Destuffing, g, BitsBase, s)
    BY <2>5, <2>6 DEF Follows
  <2> QED
    BY <1>1, <2>4, <2>7, FoldFound
<1>4. Destuffed(<<>>) = BitsBase
  BY <1>1, <1>3, FoldEmpty, EmptySeq
<1>5. ASSUME NEW s \in Seq(Bit), NEW b \in Bit
      PROVE  Destuffed(Append(s, b)) = DestuffStep(Destuffed(s), b) /\ Destuffed(s) \in Destuffing
  <2>1. Append(s, b) \in Seq(Bit) /\ Fold(Destuffing, g, BitsBase, s) \in Destuffing
    BY <1>1, AppendProperties, FoldIs
  <2>2. Fold(Destuffing, g, BitsBase, Append(s, b)) = g[<<Fold(Destuffing, g, BitsBase, s), b>>]
    BY <1>1, FoldAppend
  <2> QED
    BY <1>2, <1>3, <2>1, <2>2
<1>6. \A s \in Seq(Bit) : Destuffed(s) \in Destuffing
  BY <1>1, <1>3, FoldIs
<1> QED
  BY <1>4, <1>5, <1>6

LEMMA CheckedIs ==
    /\ Checked(<<>>) = FcsBase
    /\ \A s \in Seq(Bit) : /\ Checked(s) \in Word
                         /\ \A b \in Bit : Checked(Append(s, b)) = FcsStep(Checked(s), b)
<1> DEFINE g == [p \in Word \X Bit |-> FcsStep(p[1], p[2])]
<1>1. Folder(Word, Bit, g, FcsBase)
  BY FcsStepType DEF Folder, FcsBase, Word, Bit
<1>2. \A a \in Word, b \in Bit : g[<<a, b>>] = FcsStep(a, b)
  OBVIOUS
<1> HIDE DEF g
<1>3. ASSUME NEW s \in Seq(Bit) PROVE Checked(s) = Fold(Word, g, FcsBase, s)
  <2> DEFINE Body(f) == [i \in 0 .. Len(s) |-> IF i = 0 THEN FcsBase ELSE FcsStep(f[i - 1], s[i])]
             c == CHOOSE f : f = Body(f)
  <2>0. \A i \in 1 .. Len(s) : s[i] \in Bit
    BY ElementOfSeq
  <2>1. PICK h : Folds(h, Word, g, FcsBase, s)
    BY <1>1, FoldExists
  <2>2. h = Body(h)
    <3>1. ASSUME NEW i \in 1 .. Len(s) PROVE h[i] = FcsStep(h[i - 1], s[i])
      <4>1. h[i - 1] \in Word /\ s[i] \in Bit
        BY <2>0, <2>1 DEF Folds
      <4> QED
        BY <1>2, <2>1, <4>1 DEF Folds
    <3> QED
      BY <2>1, <3>1 DEF Folds
  <2>3. c = Body(c)
    BY <2>2
  <2>4. Checked(s) = c[Len(s)]
    BY DEF Checked, Along
  <2> HIDE DEF c
  <2>5. c = [i \in 0 .. Len(s) |-> c[i]] /\ c[0] = FcsBase
    BY <2>3
  <2>6. ASSUME NEW i \in 1 .. Len(s), c[i - 1] \in Word PROVE c[i] = g[<<c[i - 1], s[i]>>]
    <3>1. c[i] = FcsStep(c[i - 1], s[i])
      BY <2>3
    <3> QED
      BY <1>2, <2>0, <2>6, <3>1
  <2>7. Follows(c, Word, g, FcsBase, s)
    BY <2>5, <2>6 DEF Follows
  <2> QED
    BY <1>1, <2>4, <2>7, FoldFound
<1>4. Checked(<<>>) = FcsBase
  BY <1>1, <1>3, FoldEmpty, EmptySeq
<1>5. ASSUME NEW s \in Seq(Bit), NEW b \in Bit
      PROVE  Checked(Append(s, b)) = FcsStep(Checked(s), b) /\ Checked(s) \in Word
  <2>1. Append(s, b) \in Seq(Bit) /\ Fold(Word, g, FcsBase, s) \in Word
    BY <1>1, AppendProperties, FoldIs
  <2>2. Fold(Word, g, FcsBase, Append(s, b)) = g[<<Fold(Word, g, FcsBase, s), b>>]
    BY <1>1, FoldAppend
  <2> QED
    BY <1>2, <1>3, <2>1, <2>2
<1>6. \A s \in Seq(Bit) : Checked(s) \in Word
  BY <1>1, <1>3, FoldIs
<1> QED
  BY <1>4, <1>5, <1>6

LEMMA FcsType == ASSUME NEW s \in Seq(Bit) PROVE Fcs(s) \in Seq(Bit) /\ Len(Fcs(s)) = 16
<1> DEFINE w == Checked(s)
<1>1. Fcs(s) = [i \in 1 .. 16 |-> 1 - w[i]]
  BY DEF Fcs, Checked, FcsBase
<1>2. w \in Seq(Bit) /\ Len(w) = 16
  BY CheckedIs, WordIs
<1> HIDE DEF w
<1>3. ASSUME NEW i \in 1 .. 16 PROVE 1 - w[i] \in Bit
  <2>0. w[i] \in Bit
    BY <1>2, ElementOfSeq
  <2>1. w[i] = 0 \/ w[i] = 1
    BY <2>0 DEF Bit
  <2> QED
    BY <2>1 DEF Bit
<1> QED
  BY <1>1, <1>3

-----------------------------------------------------------------------------
(* Stuffing                                                                 *)

LEMMA LastBit ==
    ASSUME NEW A, NEW s \in Seq(A), Len(s) # 0
    PROVE  \E x \in Seq(A), b \in A : s = Append(x, b) /\ Len(x) = Len(s) - 1
<1> DEFINE n == Len(s) - 1
           x == SubSeq(s, 1, n)
<1>1. n \in Nat /\ Len(s) \in Nat /\ Len(s) = n + 1 /\ s[n + 1] \in A
  BY ElementOfSeq
<1>2. \A i \in 1 .. n : s[i] \in A
  BY <1>1, ElementOfSeq
<1>3. x \in Seq(A) /\ Len(x) = n /\ \A i \in 1 .. n : x[i] = s[i]
  <2>1. /\ x \in Seq(A) /\ Len(x) = IF 1 <= n THEN n - 1 + 1 ELSE 0
        /\ \A i \in 1 .. n - 1 + 1 : x[i] = s[1 + i - 1]
    <3> HIDE DEF n
    <3>1. n \in Int /\ 1 \in Int
      BY <1>1
    <3> QED
      BY <1>2, <3>1, SubSeqProperties
  <2> HIDE DEF n, x
  <2>2. ASSUME NEW i \in 1 .. n PROVE x[i] = s[i]
    <3>1. i \in 1 .. n - 1 + 1 /\ 1 + i - 1 = i
      BY <1>1
    <3> QED
      BY <2>1, <3>1
  <2> QED
    BY <1>1, <2>1, <2>2
<1> HIDE DEF n, x
<1> DEFINE t == Append(x, s[n + 1])
<1>4. /\ t \in Seq(A) /\ Len(t) = n + 1 /\ t[n + 1] = s[n + 1]
      /\ \A i \in 1 .. n : t[i] = x[i]
  BY <1>1, <1>3, AppendProperties
<1> HIDE DEF t
<1>5. \A i \in 1 .. Len(s) : s[i] = t[i]
  BY <1>1, <1>3, <1>4
<1>6. s = t
  BY <1>1, <1>4, <1>5, SeqEqual
<1> QED
  BY <1>1, <1>3, <1>6 DEF t, n

\* Induction over a sequence by its last element, for a set of sequences.
LEMMA SeqInduct ==
    ASSUME NEW A, NEW S, <<>> \in S, \A x \in Seq(A), b \in A : x \in S => Append(x, b) \in S
    PROVE  \A s \in Seq(A) : s \in S
<1> DEFINE T == {n \in Nat : \A s \in Seq(A) : Len(s) = n => s \in S}
<1>1. 0 \in T
  <2>1. ASSUME NEW s \in Seq(A), Len(s) = 0 PROVE s \in S
    BY <2>1, EmptySeq
  <2> QED
    BY <2>1
<1>2. ASSUME NEW n \in Nat, n \in T PROVE n + 1 \in T
  <2>1. ASSUME NEW s \in Seq(A), Len(s) = n + 1 PROVE s \in S
    <3>1. PICK x \in Seq(A), b \in A : s = Append(x, b) /\ Len(x) = Len(s) - 1
      BY <2>1, LastBit
    <3>2. Len(x) = n
      BY <2>1, <3>1
    <3> QED
      BY <1>2, <3>1, <3>2
  <2> QED
    BY <2>1
<1>3. \A n \in Nat : n \in T
  <2> HIDE DEF T
  <2> QED
    BY <1>1, <1>2, Induct
<1> QED
  BY <1>3

\* At most five ones follow each other, at the end at most k.
Quiet(q, k) ==
    /\ k \in 0 .. 4
    /\ \A i \in 6 .. Len(q) : \E j \in 0 .. 5 : q[i - j] = 0
    /\ k < Len(q) => \E j \in 0 .. k : q[Len(q) - j] = 0

\* A zero ends every row of ones, a one makes it longer, a fifth is followed by a zero.
LEMMA QuietZero ==
    ASSUME NEW q \in Seq(Bit), NEW k, Quiet(q, k), NEW t, t = Append(q, 0)
    PROVE  Quiet(t, 0)
<1>1. /\ Len(q) \in Nat /\ Len(t) = Len(q) + 1 /\ t[Len(q) + 1] = 0
      /\ \A i \in 1 .. Len(q) : t[i] = q[i]
  BY AppendProperties DEF Bit
<1>2. ASSUME NEW i \in 6 .. Len(t) PROVE \E j \in 0 .. 5 : t[i - j] = 0
  <2>1. CASE i = Len(t)
    <3>1. t[i - 0] = 0 /\ 0 \in 0 .. 5
      BY <1>1, <2>1
    <3> QED
      BY <3>1
  <2>2. CASE i \in 6 .. Len(q)
    <3>1. PICK j \in 0 .. 5 : q[i - j] = 0
      BY <2>2 DEF Quiet
    <3>2. i - j \in 1 .. Len(q)
      BY <1>1, <2>2
    <3> QED
      BY <1>1, <3>1, <3>2
  <2> QED
    BY <1>1, <2>1, <2>2
<1>3. 0 \in 0 .. 0 /\ t[Len(t) - 0] = 0
  BY <1>1
<1> QED
  BY <1>2, <1>3 DEF Quiet

LEMMA QuietOne ==
    ASSUME NEW q \in Seq(Bit), NEW k, Quiet(q, k), k < 4, NEW t, t = Append(q, 1)
    PROVE  Quiet(t, k + 1)
<1>1. /\ Len(q) \in Nat /\ Len(t) = Len(q) + 1 /\ t[Len(q) + 1] = 1
      /\ \A i \in 1 .. Len(q) : t[i] = q[i]
  BY AppendProperties DEF Bit
<1>2. k \in 0 .. 3
  BY DEF Quiet
<1>3. ASSUME k + 1 < Len(t) PROVE \E j \in 0 .. k + 1 : t[Len(t) - j] = 0
  <2>1. PICK j \in 0 .. k : q[Len(q) - j] = 0
    BY <1>1, <1>2, <1>3 DEF Quiet
  <2>2. /\ Len(q) - j \in 1 .. Len(q) /\ j + 1 \in 0 .. k + 1
        /\ Len(t) - (j + 1) = Len(q) - j
    BY <1>1, <1>2, <1>3
  <2> QED
    BY <1>1, <2>1, <2>2
<1>4. ASSUME NEW i \in 6 .. Len(t) PROVE \E j \in 0 .. 5 : t[i - j] = 0
  <2>1. CASE i = Len(t)
    <3>1. k + 1 < Len(t) /\ \A j \in 0 .. k + 1 : j \in 0 .. 5
      BY <1>1, <1>2, <2>1
    <3> QED
      BY <1>3, <2>1, <3>1
  <2>2. CASE i \in 6 .. Len(q)
    <3>1. PICK j \in 0 .. 5 : q[i - j] = 0
      BY <2>2 DEF Quiet
    <3>2. i - j \in 1 .. Len(q)
      BY <1>1, <2>2
    <3> QED
      BY <1>1, <3>1, <3>2
  <2> QED
    BY <1>1, <2>1, <2>2
<1>5. k + 1 \in 0 .. 4
  BY <1>2
<1> QED
  BY <1>3, <1>4, <1>5 DEF Quiet

LEMMA QuietFive ==
    ASSUME NEW q \in Seq(Bit), NEW k, Quiet(q, k), NEW t, t = q \o <<1, 0>>
    PROVE  Quiet(t, 0)
<1>0. <<1, 0>> \in Seq(Bit) /\ Len(<<1, 0>>) = 2
  BY DEF Bit
<1> DEFINE e == <<1, 0>>
<1>1. /\ Len(q) \in Nat /\ Len(t) = Len(q) + 2 /\ t[Len(q) + 2] = 0
      /\ \A i \in 1 .. Len(q) : t[i] = q[i]
  <2>1. e[1] = 1 /\ e[2] = 0
    OBVIOUS
  <2> HIDE DEF e
  <2>2. /\ Len(t) = Len(q) + Len(e)
        /\ \A i \in 1 .. Len(q) + Len(e) : t[i] = IF i <= Len(q) THEN q[i] ELSE e[i - Len(q)]
    BY <1>0, ConcatProperties DEF e
  <2>3. Len(q) \in Nat /\ Len(e) = 2 /\ Len(q) + 2 \in 1 .. Len(q) + 2 /\ (Len(q) + 2) - Len(q) = 2
    BY <1>0 DEF e
  <2>4. t[Len(q) + 2] = e[2]
    BY <2>2, <2>3
  <2>5. ASSUME NEW i \in 1 .. Len(q) PROVE t[i] = q[i]
    <3>1. i \in 1 .. Len(q) + 2 /\ i <= Len(q)
      BY <2>3
    <3> QED
      BY <2>2, <2>3, <3>1
  <2> QED
    BY <2>1, <2>2, <2>3, <2>4, <2>5
<1>2. ASSUME NEW i \in 6 .. Len(t) PROVE \E j \in 0 .. 5 : t[i - j] = 0
  <2>1. CASE i = Len(t)
    <3>1. t[i - 0] = 0 /\ 0 \in 0 .. 5
      BY <1>1, <2>1
    <3> QED
      BY <3>1
  <2>2. CASE i = Len(q) + 1
    <3>1. k \in 0 .. 4 /\ k < Len(q)
      BY <1>1, <2>2 DEF Quiet
    <3>2. PICK j \in 0 .. k : q[Len(q) - j] = 0
      BY <3>1 DEF Quiet
    <3>3. Len(q) - j \in 1 .. Len(q) /\ j + 1 \in 0 .. 5 /\ i - (j + 1) = Len(q) - j
      BY <1>1, <2>2, <3>1
    <3> QED
      BY <1>1, <3>2, <3>3
  <2>3. CASE i \in 6 .. Len(q)
    <3>1. PICK j \in 0 .. 5 : q[i - j] = 0
      BY <2>3 DEF Quiet
    <3>2. i - j \in 1 .. Len(q)
      BY <1>1, <2>3
    <3> QED
      BY <1>1, <3>1, <3>2
  <2>4. i = Len(t) \/ i = Len(q) + 1 \/ i \in 6 .. Len(q)
    BY <1>1
  <2> QED
    BY <2>1, <2>2, <2>3, <2>4
<1>3. 0 \in 0 .. 0 /\ t[Len(t) - 0] = 0
  BY <1>1
<1> QED
  BY <1>2, <1>3 DEF Quiet

\* What is stuffed is destuffed, and has no six ones in a row.
Stuffable(s) ==
    /\ Destuffed(Stuffed(s).out) = [out |-> s, ones |-> Stuffed(s).ones]
    /\ Quiet(Stuffed(s).out, Stuffed(s).ones)

\* Whatever bit follows: destuffing skips what stuffing put in.
LEMMA StuffableAppend ==
    ASSUME NEW s \in Seq(Bit), NEW b \in Bit, Stuffable(s) PROVE Stuffable(Append(s, b))
<1> DEFINE a == Stuffed(s)
           c == Stuffed(Append(s, b))
           q == a.out
           k == a.ones
<1>1. a \in Stuffing /\ c = StuffStep(a, b)
  BY StuffedIs
<1>2. q \in Seq(Bit) /\ k \in 0 .. 4 /\ Quiet(q, k) /\ Destuffed(q) = [out |-> s, ones |-> k]
  BY <1>1 DEF Stuffable, Stuffing
<1> SUFFICES /\ Destuffed(c.out) = [out |-> Append(s, b), ones |-> c.ones]
             /\ Quiet(c.out, c.ones)
  BY DEF Stuffable
<1> HIDE DEF c, a
<1>3. CASE b = 0
  <2>1. c = [out |-> Append(q, b), ones |-> 0]
    BY <1>1, <1>3 DEF StuffStep
  <2>2. c.out = Append(q, b) /\ c.ones = 0
    BY <2>1
  <2>3. Destuffed(Append(q, b)) = DestuffStep(Destuffed(q), b)
    BY <1>2, DestuffedIs
  <2>4. DestuffStep([out |-> s, ones |-> k], b) = [out |-> Append(s, b), ones |-> 0]
    BY <1>2, <1>3 DEF DestuffStep
  <2>5. Quiet(Append(q, b), 0)
    BY <1>2, <1>3, QuietZero
  <2> QED
    BY <1>2, <2>2, <2>3, <2>4, <2>5
<1>4. CASE b = 1 /\ k < 4
  <2>1. c = [out |-> Append(q, b), ones |-> k + 1]
    BY <1>1, <1>2, <1>4 DEF StuffStep
  <2>2. c.out = Append(q, b) /\ c.ones = k + 1
    BY <2>1
  <2>3. Destuffed(Append(q, b)) = DestuffStep(Destuffed(q), b)
    BY <1>2, DestuffedIs
  <2>4. DestuffStep([out |-> s, ones |-> k], b) = [out |-> Append(s, b), ones |-> k + 1]
    BY <1>2, <1>4 DEF DestuffStep
  <2>5. Quiet(Append(q, b), k + 1)
    BY <1>2, <1>4, QuietOne
  <2> QED
    BY <1>2, <2>2, <2>3, <2>4, <2>5
<1>5. CASE b = 1 /\ k = 4
  <2>1. c = [out |-> q \o <<1, 0>>, ones |-> 0]
    BY <1>1, <1>5 DEF StuffStep
  <2>2. c.out = q \o <<1, 0>> /\ c.ones = 0
    BY <2>1
  <2>3. q \o <<1, 0>> = Append(Append(q, 1), 0) /\ Append(q, 1) \in Seq(Bit) /\ 0 \in Bit /\ 1 \in Bit
    <3>1. 0 \in Bit /\ 1 \in Bit /\ <<1>> \in Seq(Bit) /\ <<0>> \in Seq(Bit)
      BY DEF Bit
    <3>2. Append(q, 1) \in Seq(Bit) /\ Append(q, 1) = q \o <<1>>
      BY <1>2, <3>1, AppendProperties, AppendIsConcat
    <3>3. Append(Append(q, 1), 0) = (q \o <<1>>) \o <<0>>
      BY <3>1, <3>2, AppendIsConcat
    <3>4. (q \o <<1>>) \o <<0>> = q \o (<<1>> \o <<0>>)
      BY <1>2, <3>1, ConcatAssociative
    <3>5. <<1>> \o <<0>> = <<1, 0>>
      <4> DEFINE u == Append(<<1>>, 0)
                 v == <<1, 0>>
      <4>1. u \in Seq(Bit) /\ Len(u) = 2 /\ u[1] = 1 /\ u[2] = 0
        <5>1. Len(<<1>>) = 1 /\ <<1>>[1] = 1 /\ 1 \in 1 .. 1 /\ 1 + 1 = 2
          OBVIOUS
        <5> QED
          BY <3>1, <5>1, AppendProperties
      <4>2. v \in Seq(Bit) /\ Len(v) = 2 /\ v[1] = 1 /\ v[2] = 0
        BY DEF Bit
      <4> HIDE DEF u, v
      <4>3. u = v
        <5>1. \A i \in 1 .. Len(u) : u[i] = v[i]
          BY <4>1, <4>2
        <5> QED
          BY <4>1, <4>2, <5>1, SeqEqual
      <4>4. u = <<1>> \o <<0>>
        BY <3>1, AppendIsConcat DEF u
      <4> QED
        BY <4>3, <4>4 DEF v
    <3> QED
      BY <3>1, <3>2, <3>3, <3>4, <3>5
  <2>4. /\ Destuffed(Append(q, 1)) = DestuffStep(Destuffed(q), 1)
        /\ Destuffed(Append(Append(q, 1), 0)) = DestuffStep(Destuffed(Append(q, 1)), 0)
    BY <1>2, <2>3, DestuffedIs
  <2>5. /\ DestuffStep([out |-> s, ones |-> k], 1) = [out |-> Append(s, 1), ones |-> 5]
        /\ DestuffStep([out |-> Append(s, 1), ones |-> 5], 0) = [out |-> Append(s, 1), ones |-> 0]
    <3>1. \A r \in Destuffing : r.ones = 4 => DestuffStep(r, 1) = [out |-> Append(r.out, 1), ones |-> 5]
      BY DEF DestuffStep
    <3>2. \A r \in Destuffing : r.ones = 5 => DestuffStep(r, 0) = [out |-> r.out, ones |-> 0]
      BY DEF DestuffStep, Destuffing
    <3>3. [out |-> s, ones |-> k] \in Destuffing /\ [out |-> Append(s, 1), ones |-> 5] \in Destuffing
      <4>1. Append(s, 1) \in Seq(Bit)
        BY <1>5, AppendProperties
      <4> QED
        BY <1>5, <4>1 DEF Destuffing
    <3> QED
      BY <1>5, <3>1, <3>2, <3>3
  <2>6. Quiet(q \o <<1, 0>>, 0)
    BY <1>2, QuietFive
  <2> QED
    BY <1>2, <1>5, <2>2, <2>3, <2>4, <2>5, <2>6
<1> QED
  BY <1>2, <1>3, <1>4, <1>5 DEF Bit

\* Hence for every message.
LEMMA StuffIs == ASSUME NEW s \in Seq(Bit) PROVE Stuffable(s)
<1> DEFINE S == {x \in Seq(Bit) : Stuffable(x)}
<1>1. <<>> \in S
  <2>1. Stuffed(<<>>) = BitsBase /\ Destuffed(<<>>) = BitsBase
    BY StuffedIs, DestuffedIs
  <2>2. BitsBase.out = <<>> /\ BitsBase.ones = 0 /\ BitsBase = [out |-> <<>>, ones |-> 0]
    BY DEF BitsBase
  <2>3. Quiet(<<>>, 0)
    BY DEF Quiet
  <2>4. Stuffable(<<>>)
    BY <2>1, <2>2, <2>3 DEF Stuffable
  <2> QED
    BY <2>4, EmptySeq
<1>2. ASSUME NEW x \in Seq(Bit), NEW b \in Bit, x \in S PROVE Append(x, b) \in S
  BY <1>2, StuffableAppend, AppendProperties
<1> HIDE DEF S
<1>3. s \in S
  BY <1>1, <1>2, SeqInduct
<1> QED
  BY <1>3 DEF S

\* Destuffing makes nothing longer.
LEMMA DestuffShorter ==
    ASSUME NEW s \in Seq(Bit) PROVE Destuff(s) \in Seq(Bit) /\ Len(Destuff(s)) <= Len(s)
<1> DEFINE S == {x \in Seq(Bit) : Len(Destuffed(x).out) <= Len(x)}
<1>1. <<>> \in S
  <2>1. Destuffed(<<>>).out = <<>>
    BY DestuffedIs DEF BitsBase
  <2> QED
    BY <2>1, EmptySeq
<1>2. ASSUME NEW x \in Seq(Bit), NEW b \in Bit, x \in S PROVE Append(x, b) \in S
  <2> DEFINE d == Destuffed(x)
             e == Destuffed(Append(x, b))
  <2>1. d \in Destuffing /\ e = DestuffStep(d, b) /\ Len(d.out) <= Len(x)
    BY <1>2, DestuffedIs
  <2>2. Append(x, b) \in Seq(Bit) /\ Len(Append(x, b)) = Len(x) + 1 /\ Len(x) \in Nat
    BY AppendProperties
  <2> HIDE DEF d, e
  <2>3. d.out \in Seq(Bit) /\ Len(d.out) \in Nat /\ Len(Append(d.out, b)) = Len(d.out) + 1
    BY <2>1, AppendProperties DEF Destuffing
  <2>4. e.out = d.out \/ e.out = Append(d.out, b)
    BY <2>1 DEF DestuffStep, Destuffing
  <2>5. Len(e.out) <= Len(x) + 1
    BY <2>1, <2>2, <2>3, <2>4
  <2> QED
    BY <2>2, <2>5 DEF e
<1>3. s \in S
  <2> HIDE DEF S
  <2> QED
    BY <1>1, <1>2, SeqInduct
<1>4. Destuff(s) = Destuffed(s).out
  BY DEF Destuff, Destuffed, BitsBase
<1>5. Destuffed(s).out \in Seq(Bit)
  BY DestuffedIs DEF Destuffing
<1> QED
  BY <1>3, <1>4, <1>5

-----------------------------------------------------------------------------
(* The line                                                                 *)

Message == Seq(Bit)
BitSeq == Seq(Bit)

LEMMA FlagType == Flag \in BitSeq /\ Len(Flag) = 8
  BY DEF Flag, Bit, BitSeq

\* What a message becomes between two flags.
LEMMA ContentIs ==
    ASSUME NEW m \in Message
    PROVE  /\ Content(m) \in Seq(Bit) /\ Destuff(Content(m)) = m \o Fcs(m)
           /\ \A i \in 6 .. Len(Content(m)) : \E j \in 0 .. 5 : Content(m)[i - j] = 0
<1> DEFINE s == m \o Fcs(m)
<1>1. s \in Seq(Bit)
  BY FcsType, ConcatProperties DEF Message
<1> HIDE DEF s
<1>2. Content(m) = Stuffed(s).out
  BY DEF Content, Stuff, Stuffed, BitsBase, s
<1>3. \A q : Destuff(q) = Destuffed(q).out
  BY DEF Destuff, Destuffed, BitsBase
<1>4. Stuffed(s).out \in Seq(Bit)
  BY <1>1, StuffedIs DEF Stuffing
<1>5. /\ Destuffed(Stuffed(s).out) = [out |-> s, ones |-> Stuffed(s).ones]
      /\ \A i \in 6 .. Len(Stuffed(s).out) : \E j \in 0 .. 5 : Stuffed(s).out[i - j] = 0
  BY <1>1, StuffIs DEF Stuffable, Quiet
<1> QED
  BY <1>2, <1>3, <1>4, <1>5 DEF s

LEMMA FrameStepType ==
    ASSUME NEW a \in BitSeq, NEW m \in Message PROVE FrameStep(a, m) \in BitSeq
  BY ContentIs, FlagType, ConcatProperties DEF FrameStep, BitSeq

LEMMA DeliveredType ==
    ASSUME NEW a \in Seq(Message), NEW m \in Message PROVE Delivered(a, m) \in Seq(Message)
  BY AppendProperties DEF Delivered

Handed(ms) == Along(Delivered, <<>>, ms)

\* The frames of one message more, and what is handed up of them.
LEMMA FramesIs ==
    /\ Frames(<<>>) = Flag
    /\ \A s \in Seq(Message) : /\ Frames(s) \in BitSeq
                         /\ \A b \in Message : Frames(Append(s, b)) = FrameStep(Frames(s), b)
<1> DEFINE g == [p \in BitSeq \X Message |-> FrameStep(p[1], p[2])]
<1>1. Folder(BitSeq, Message, g, Flag)
  BY FrameStepType, FlagType DEF Folder, Message
<1>2. \A a \in BitSeq, b \in Message : g[<<a, b>>] = FrameStep(a, b)
  OBVIOUS
<1> HIDE DEF g
<1>3. ASSUME NEW s \in Seq(Message) PROVE Frames(s) = Fold(BitSeq, g, Flag, s)
  <2> DEFINE Body(f) == [i \in 0 .. Len(s) |-> IF i = 0 THEN Flag ELSE FrameStep(f[i - 1], s[i])]
             c == CHOOSE f : f = Body(f)
  <2>0. \A i \in 1 .. Len(s) : s[i] \in Message
    BY ElementOfSeq
  <2>1. PICK h : Folds(h, BitSeq, g, Flag, s)
    BY <1>1, FoldExists
  <2>2. h = Body(h)
    <3>1. ASSUME NEW i \in 1 .. Len(s) PROVE h[i] = FrameStep(h[i - 1], s[i])
      <4>1. h[i - 1] \in BitSeq /\ s[i] \in Message
        BY <2>0, <2>1 DEF Folds
      <4> QED
        BY <1>2, <2>1, <4>1 DEF Folds
    <3> QED
      BY <2>1, <3>1 DEF Folds
  <2>3. c = Body(c)
    BY <2>2
  <2>4. Frames(s) = c[Len(s)]
    BY DEF Frames, Along
  <2> HIDE DEF c
  <2>5. c = [i \in 0 .. Len(s) |-> c[i]] /\ c[0] = Flag
    BY <2>3
  <2>6. ASSUME NEW i \in 1 .. Len(s), c[i - 1] \in BitSeq PROVE c[i] = g[<<c[i - 1], s[i]>>]
    <3>1. c[i] = FrameStep(c[i - 1], s[i])
      BY <2>3
    <3> QED
      BY <1>2, <2>0, <2>6, <3>1
  <2>7. Follows(c, BitSeq, g, Flag, s)
    BY <2>5, <2>6 DEF Follows
  <2> QED
    BY <1>1, <2>4, <2>7, FoldFound
<1>4. Frames(<<>>) = Flag
  BY <1>1, <1>3, FoldEmpty, EmptySeq
<1>5. ASSUME NEW s \in Seq(Message), NEW b \in Message
      PROVE  Frames(Append(s, b)) = FrameStep(Frames(s), b) /\ Frames(s) \in BitSeq
  <2>1. Append(s, b) \in Seq(Message) /\ Fold(BitSeq, g, Flag, s) \in BitSeq
    BY <1>1, AppendProperties, FoldIs
  <2>2. Fold(BitSeq, g, Flag, Append(s, b)) = g[<<Fold(BitSeq, g, Flag, s), b>>]
    BY <1>1, FoldAppend
  <2> QED
    BY <1>2, <1>3, <2>1, <2>2
<1>6. \A s \in Seq(Message) : Frames(s) \in BitSeq
  BY <1>1, <1>3, FoldIs
<1> QED
  BY <1>4, <1>5, <1>6

LEMMA HandedIs ==
    /\ Handed(<<>>) = <<>>
    /\ \A s \in Seq(Message) : /\ Handed(s) \in Seq(Message)
                         /\ \A b \in Message : Handed(Append(s, b)) = Delivered(Handed(s), b)
<1> DEFINE g == [p \in Seq(Message) \X Message |-> Delivered(p[1], p[2])]
<1>1. Folder(Seq(Message), Message, g, <<>>)
  BY DeliveredType, EmptySeq DEF Folder, Message
<1>2. \A a \in Seq(Message), b \in Message : g[<<a, b>>] = Delivered(a, b)
  OBVIOUS
<1> HIDE DEF g
<1>3. ASSUME NEW s \in Seq(Message) PROVE Handed(s) = Fold(Seq(Message), g, <<>>, s)
  <2> DEFINE Body(f) == [i \in 0 .. Len(s) |-> IF i = 0 THEN <<>> ELSE Delivered(f[i - 1], s[i])]
             c == CHOOSE f : f = Body(f)
  <2>0. \A i \in 1 .. Len(s) : s[i] \in Message
    BY ElementOfSeq
  <2>1. PICK h : Folds(h, Seq(Message), g, <<>>, s)
    BY <1>1, FoldExists
  <2>2. h = Body(h)
    <3>1. ASSUME NEW i \in 1 .. Len(s) PROVE h[i] = Delivered(h[i - 1], s[i])
      <4>1. h[i - 1] \in Seq(Message) /\ s[i] \in Message
        BY <2>0, <2>1 DEF Folds
      <4> QED
        BY <1>2, <2>1, <4>1 DEF Folds
    <3> QED
      BY <2>1, <3>1 DEF Folds
  <2>3. c = Body(c)
    BY <2>2
  <2>4. Handed(s) = c[Len(s)]
    BY DEF Handed, Along
  <2> HIDE DEF c
  <2>5. c = [i \in 0 .. Len(s) |-> c[i]] /\ c[0] = <<>>
    BY <2>3
  <2>6. ASSUME NEW i \in 1 .. Len(s), c[i - 1] \in Seq(Message) PROVE c[i] = g[<<c[i - 1], s[i]>>]
    <3>1. c[i] = Delivered(c[i - 1], s[i])
      BY <2>3
    <3> QED
      BY <1>2, <2>0, <2>6, <3>1
  <2>7. Follows(c, Seq(Message), g, <<>>, s)
    BY <2>5, <2>6 DEF Follows
  <2> QED
    BY <1>1, <2>4, <2>7, FoldFound
<1>4. Handed(<<>>) = <<>>
  BY <1>1, <1>3, FoldEmpty, EmptySeq
<1>5. ASSUME NEW s \in Seq(Message), NEW b \in Message
      PROVE  Handed(Append(s, b)) = Delivered(Handed(s), b) /\ Handed(s) \in Seq(Message)
  <2>1. Append(s, b) \in Seq(Message) /\ Fold(Seq(Message), g, <<>>, s) \in Seq(Message)
    BY <1>1, AppendProperties, FoldIs
  <2>2. Fold(Seq(Message), g, <<>>, Append(s, b)) = g[<<Fold(Seq(Message), g, <<>>, s), b>>]
    BY <1>1, FoldAppend
  <2> QED
    BY <1>2, <1>3, <2>1, <2>2
<1>6. \A s \in Seq(Message) : Handed(s) \in Seq(Message)
  BY <1>1, <1>3, FoldIs
<1> QED
  BY <1>4, <1>5, <1>6

LEMMA Joined ==
    ASSUME NEW s \in Seq(Bit), NEW t \in Seq(Bit)
    PROVE  /\ s \o t \in Seq(Bit) /\ Len(s) \in Nat /\ Len(t) \in Nat
           /\ Len(s \o t) = Len(s) + Len(t)
           /\ \A i \in 1 .. Len(s) : (s \o t)[i] = s[i]
           /\ \A i \in 1 .. Len(t) : (s \o t)[Len(s) + i] = t[i]
<1> DEFINE r == s \o t
<1>1. /\ r \in Seq(Bit) /\ Len(r) = Len(s) + Len(t)
      /\ \A i \in 1 .. Len(s) + Len(t) : r[i] = IF i <= Len(s) THEN s[i] ELSE t[i - Len(s)]
  BY ConcatProperties
<1>2. Len(s) \in Nat /\ Len(t) \in Nat
  OBVIOUS
<1> HIDE DEF r
<1>3. ASSUME NEW i \in 1 .. Len(s) PROVE r[i] = s[i]
  <2>1. i \in 1 .. Len(s) + Len(t) /\ i <= Len(s)
    BY <1>2
  <2> QED
    BY <1>1, <2>1
<1>4. ASSUME NEW i \in 1 .. Len(t) PROVE r[Len(s) + i] = t[i]
  <2>1. Len(s) + i \in 1 .. Len(s) + Len(t) /\ ~(Len(s) + i <= Len(s)) /\ Len(s) + i - Len(s) = i
    BY <1>2
  <2> QED
    BY <1>1, <2>1
<1> QED
  BY <1>1, <1>2, <1>3, <1>4 DEF r

\* The first messages of a transmission.
First(ms, i) == SubSeq(ms, 1, i)

LEMMA FirstIs ==
    ASSUME NEW ms \in Seq(Message), NEW i \in 0 .. Len(ms)
    PROVE  /\ First(ms, i) \in Seq(Message) /\ Len(First(ms, i)) = i
           /\ \A j \in 1 .. i : First(ms, i)[j] = ms[j]
<1> DEFINE f == SubSeq(ms, 1, i)
<1>1. \A j \in 1 .. i : ms[j] \in Message
  BY ElementOfSeq
<1>2. /\ f \in Seq(Message) /\ Len(f) = IF 1 <= i THEN i - 1 + 1 ELSE 0
      /\ \A j \in 1 .. i - 1 + 1 : f[j] = ms[1 + j - 1]
  <2>1. 1 \in Int /\ i \in Int
    OBVIOUS
  <2> QED
    BY <1>1, <2>1, SubSeqProperties
<1> HIDE DEF f
<1>3. Len(f) = i
  BY <1>2
<1>4. ASSUME NEW j \in 1 .. i PROVE f[j] = ms[j]
  <2>1. j \in 1 .. i - 1 + 1 /\ 1 + j - 1 = j
    OBVIOUS
  <2> QED
    BY <1>2, <2>1
<1> QED
  BY <1>2, <1>3, <1>4 DEF First, f

LEMMA FirstAll ==
    ASSUME NEW ms \in Seq(Message)
    PROVE  First(ms, 0) = <<>> /\ First(ms, Len(ms)) = ms
<1>0. Len(ms) \in Nat /\ 0 \in 0 .. Len(ms) /\ Len(ms) \in 0 .. Len(ms)
  OBVIOUS
<1>1. First(ms, 0) = <<>>
  BY <1>0, FirstIs, EmptySeq
<1>2. First(ms, Len(ms)) = ms
  <2>1. /\ First(ms, Len(ms)) \in Seq(Message) /\ Len(First(ms, Len(ms))) = Len(ms)
        /\ \A j \in 1 .. Len(ms) : First(ms, Len(ms))[j] = ms[j]
    BY <1>0, FirstIs
  <2> QED
    BY <2>1, SeqEqual
<1> QED
  BY <1>1, <1>2

LEMMA FirstNext ==
    ASSUME NEW ms \in Seq(Message), NEW i \in 0 .. Len(ms) - 1
    PROVE  First(ms, i + 1) = Append(First(ms, i), ms[i + 1]) /\ ms[i + 1] \in Message
<1>1. i \in 0 .. Len(ms) /\ i + 1 \in 0 .. Len(ms) /\ i + 1 \in 1 .. Len(ms) /\ i \in Nat
  OBVIOUS
<1> DEFINE f == First(ms, i)
           t == First(ms, i + 1)
           u == Append(f, ms[i + 1])
<1>2. ms[i + 1] \in Message
  BY <1>1, ElementOfSeq
<1>3. f \in Seq(Message) /\ Len(f) = i /\ \A j \in 1 .. i : f[j] = ms[j]
  BY <1>1, FirstIs
<1>4. t \in Seq(Message) /\ Len(t) = i + 1 /\ \A j \in 1 .. i + 1 : t[j] = ms[j]
  BY <1>1, FirstIs
<1> HIDE DEF f, t
<1>5. /\ u \in Seq(Message) /\ Len(u) = i + 1 /\ u[i + 1] = ms[i + 1]
      /\ \A j \in 1 .. i : u[j] = f[j]
  BY <1>2, <1>3, AppendProperties
<1> HIDE DEF u
<1>6. \A j \in 1 .. Len(t) : t[j] = u[j]
  BY <1>1, <1>3, <1>4, <1>5
<1>7. t = u
  BY <1>4, <1>5, <1>6, SeqEqual
<1> QED
  BY <1>2, <1>7 DEF t, u, f

LEMMA FirstOfMore ==
    ASSUME NEW ms \in Seq(Message), NEW b \in Message, NEW i \in 0 .. Len(ms)
    PROVE  First(Append(ms, b), i) = First(ms, i)
<1> DEFINE t == Append(ms, b)
<1>1. /\ t \in Seq(Message) /\ Len(t) = Len(ms) + 1 /\ \A j \in 1 .. Len(ms) : t[j] = ms[j]
  BY AppendProperties
<1> HIDE DEF t
<1>2. i \in 0 .. Len(t)
  BY <1>1
<1>3. First(t, i) \in Seq(Message) /\ Len(First(t, i)) = i /\ \A j \in 1 .. i : First(t, i)[j] = t[j]
  BY <1>1, <1>2, FirstIs
<1>4. First(ms, i) \in Seq(Message) /\ Len(First(ms, i)) = i /\ \A j \in 1 .. i : First(ms, i)[j] = ms[j]
  BY FirstIs
<1>5. \A j \in 1 .. Len(First(t, i)) : First(t, i)[j] = First(ms, i)[j]
  <2>1. \A j \in 1 .. i : j \in 1 .. Len(ms)
    OBVIOUS
  <2> QED
    BY <1>1, <1>3, <1>4, <2>1
<1>6. First(t, i) = First(ms, i)
  BY <1>3, <1>4, <1>5, SeqEqual
<1> QED
  BY <1>6 DEF t

\* Where the flags end in what is sent of messages, and what is between them.
Ends(ms, i) == Len(Frames(First(ms, i)))
Framed(ms) ==
    /\ Frames(ms) \in Seq(Bit) /\ Ends(ms, 0) = 8 /\ Ends(ms, Len(ms)) = Len(Frames(ms))
    /\ \A i \in 0 .. Len(ms) :
          /\ Ends(ms, i) \in 8 .. Len(Frames(ms))
          /\ \A j \in 1 .. 8 : Frames(ms)[Ends(ms, i) - 8 + j] = Flag[j]
    /\ \A i \in 0 .. Len(ms) - 1 :
          /\ Ends(ms, i + 1) = Ends(ms, i) + Len(Content(ms[i + 1])) + 8
          /\ \A j \in 1 .. Len(Content(ms[i + 1])) :
                Frames(ms)[Ends(ms, i) + j] = Content(ms[i + 1])[j]

LEMMA FramedNone == Framed(<<>>)
<1> DEFINE e == <<>>
<1>1. e \in Seq(Message) /\ Len(e) = 0
  BY EmptySeq
<1>2. First(e, 0) = e
  BY <1>1, FirstAll DEF e
<1> HIDE DEF e
<1>3. Frames(e) = Flag
  BY FramesIs DEF e
<1>4. Flag \in Seq(Bit) /\ Len(Flag) = 8
  BY FlagType DEF BitSeq
<1>5. Ends(e, 0) = 8
  BY <1>2, <1>3, <1>4 DEF Ends
<1>6. \A j \in 1 .. 8 : 8 - 8 + j = j
  OBVIOUS
<1>7. Framed(e)
  BY <1>1, <1>3, <1>4, <1>5, <1>6 DEF Framed
<1> QED
  BY <1>7 DEF e

\* Another message leaves the ones before it where they are.
LEMMA FramedMore ==
    ASSUME NEW ms \in Seq(Message), NEW b \in Message, Framed(ms)
    PROVE  Framed(Append(ms, b))
<1> DEFINE t == Append(ms, b)
           n == Len(ms)
           C == Content(b)
           A == Frames(ms)
           P == A \o C
           Q == P \o Flag
<1>1. /\ t \in Seq(Message) /\ Len(t) = n + 1 /\ t[n + 1] = b /\ n \in Nat
      /\ \A j \in 1 .. n : t[j] = ms[j]
  BY AppendProperties
<1>2. Frames(t) = Q
  BY FramesIs DEF FrameStep
<1>3. C \in Seq(Bit) /\ A \in Seq(Bit) /\ Flag \in Seq(Bit) /\ Len(Flag) = 8
  BY ContentIs, FlagType DEF Framed, BitSeq
<1>4. \A i \in 0 .. n : Ends(t, i) = Ends(ms, i)
  BY FirstOfMore DEF Ends
<1>5. Ends(t, n + 1) = Len(Q)
  <2>1. First(t, n + 1) = t
    BY <1>1, FirstAll
  <2> QED
    BY <1>2, <2>1 DEF Ends
<1> HIDE DEF A, C, t
<1>6. /\ P \in Seq(Bit) /\ Len(A) \in Nat /\ Len(C) \in Nat /\ Len(P) = Len(A) + Len(C)
      /\ \A i \in 1 .. Len(A) : P[i] = A[i]
      /\ \A i \in 1 .. Len(C) : P[Len(A) + i] = C[i]
  BY <1>3, Joined
<1> HIDE DEF P
<1>7. /\ Q \in Seq(Bit) /\ Len(Q) = Len(P) + 8
      /\ \A i \in 1 .. Len(P) : Q[i] = P[i]
      /\ \A i \in 1 .. 8 : Q[Len(P) + i] = Flag[i]
  <2> DEFINE G == Flag
  <2>1. G \in Seq(Bit) /\ Len(G) = 8
    BY <1>3
  <2> HIDE DEF G
  <2>2. /\ P \o G \in Seq(Bit) /\ Len(P \o G) = Len(P) + Len(G)
        /\ \A i \in 1 .. Len(P) : (P \o G)[i] = P[i]
        /\ \A i \in 1 .. Len(G) : (P \o G)[Len(P) + i] = G[i]
    BY <1>6, <2>1, Joined
  <2> QED
    BY <2>1, <2>2 DEF G
<1> HIDE DEF Q, n
<1>8. Q \in Seq(Bit) /\ Len(Q) = Len(A) + Len(C) + 8 /\ \A i \in 1 .. Len(A) : Q[i] = A[i]
  <2>1. \A i \in 1 .. Len(A) : i \in 1 .. Len(P)
    BY <1>6
  <2> QED
    BY <1>6, <1>7, <2>1
<1>9. Ends(t, n) = Len(A) /\ Ends(t, 0) = 8
  BY <1>1, <1>4 DEF Framed, n, A
<1>10. ASSUME NEW i \in 0 .. Len(t)
       PROVE  Ends(t, i) \in 8 .. Len(Q) /\ \A j \in 1 .. 8 : Q[Ends(t, i) - 8 + j] = Flag[j]
  <2>1. CASE i = n + 1
    <3>1. Ends(t, i) = Len(Q) /\ \A j \in 1 .. 8 : Len(Q) - 8 + j = Len(P) + j
      BY <1>5, <1>6, <1>7, <2>1
    <3>2. Len(Q) \in 8 .. Len(Q)
      BY <1>6, <1>8
    <3> QED
      BY <1>7, <3>1, <3>2
  <2>2. CASE i \in 0 .. n
    <3>1. /\ Ends(t, i) \in 8 .. Len(A)
          /\ \A j \in 1 .. 8 : A[Ends(t, i) - 8 + j] = Flag[j]
      BY <1>4, <2>2 DEF Framed, n, A
    <3>2. \A j \in 1 .. 8 : Ends(t, i) - 8 + j \in 1 .. Len(A)
      <4>1. ASSUME NEW l \in Nat, NEW e \in 8 .. l, NEW j \in 1 .. 8 PROVE e - 8 + j \in 1 .. l
        OBVIOUS
      <4> QED
        BY <1>6, <3>1, <4>1
    <3>3. Ends(t, i) \in 8 .. Len(Q)
      BY <1>6, <1>8, <3>1
    <3> QED
      BY <1>8, <3>1, <3>2, <3>3
  <2> QED
    BY <1>1, <2>1, <2>2
<1>11. ASSUME NEW i \in 0 .. Len(t) - 1
       PROVE  /\ Ends(t, i + 1) = Ends(t, i) + Len(Content(t[i + 1])) + 8
              /\ \A j \in 1 .. Len(Content(t[i + 1])) : Q[Ends(t, i) + j] = Content(t[i + 1])[j]
  <2>1. CASE i = n
    <3>1. Content(t[i + 1]) = C /\ Ends(t, i) = Len(A) /\ Ends(t, i + 1) = Len(Q)
      BY <1>1, <1>5, <1>9, <2>1 DEF C
    <3>2. \A j \in 1 .. Len(C) : Len(A) + j \in 1 .. Len(P)
      BY <1>6
    <3>3. \A j \in 1 .. Len(C) : Q[Len(A) + j] = C[j]
      BY <1>6, <1>7, <3>2
    <3>4. Len(Q) = Len(A) + Len(C) + 8
      BY <1>8
    <3> QED
      BY <3>1, <3>3, <3>4
  <2>2. CASE i \in 0 .. n - 1
    <3>1. i \in 0 .. n /\ i + 1 \in 0 .. n /\ i + 1 \in 1 .. n
      BY <1>1, <2>2
    <3>2. t[i + 1] = ms[i + 1] /\ ms[i + 1] \in Message
      BY <1>1, <3>1, ElementOfSeq DEF n
    <3> DEFINE D == Content(ms[i + 1])
    <3>3. /\ Ends(ms, i + 1) = Ends(ms, i) + Len(D) + 8
          /\ \A j \in 1 .. Len(D) : A[Ends(ms, i) + j] = D[j]
      BY <2>2 DEF Framed, n, A
    <3>4. Ends(ms, i) \in 8 .. Len(A) /\ Ends(ms, i + 1) \in 8 .. Len(A)
      BY <3>1 DEF Framed, n, A
    <3>5. D \in Seq(Bit) /\ Len(D) \in Nat
      BY <3>2, ContentIs
    <3> HIDE DEF D
    <3>6. \A j \in 1 .. Len(D) : Ends(ms, i) + j \in 1 .. Len(A)
      BY <1>6, <3>3, <3>4, <3>5
    <3>7. Ends(t, i) = Ends(ms, i) /\ Ends(t, i + 1) = Ends(ms, i + 1)
      BY <1>4, <3>1
    <3>8. Ends(t, i + 1) = Ends(t, i) + Len(D) + 8 /\ \A j \in 1 .. Len(D) : Q[Ends(t, i) + j] = D[j]
      BY <1>8, <3>3, <3>6, <3>7
    <3> QED
      BY <3>2, <3>8 DEF D
  <2> QED
    BY <1>1, <2>1, <2>2
<1>12. Framed(t)
  BY <1>1, <1>2, <1>5, <1>8, <1>9, <1>10, <1>11 DEF Framed
<1> QED
  BY <1>12 DEF t

LEMMA FramesFramed == ASSUME NEW ms \in Seq(Message) PROVE Framed(ms)
<1> DEFINE S == {x \in Seq(Message) : Framed(x)}
<1>1. <<>> \in S
  BY FramedNone, EmptySeq
<1>2. ASSUME NEW x \in Seq(Message), NEW b \in Message, x \in S PROVE Append(x, b) \in S
  BY <1>2, FramedMore, AppendProperties
<1> HIDE DEF S
<1>3. ms \in S
  BY <1>1, <1>2, SeqInduct
<1> QED
  BY <1>3 DEF S

\* The bits a ship sends, before they are changes of the line.
Text(tx) == <<0>> \o tx.noise \o Frames(tx.bodies) \o <<0, 0>>

\* The last bit of the flag before message i + 1.
Start(tx, i) == 1 + Len(tx.noise) + Ends(tx.bodies, i)

TextIs(tx) ==
    /\ Len(tx.noise) \in Nat /\ Len(tx.bodies) \in Nat
    /\ Text(tx) \in Seq(Bit) /\ Len(Text(tx)) = Start(tx, Len(tx.bodies)) + 2
    /\ Text(tx)[1] = 0 /\ \A x \in 1 .. Len(tx.noise) : Text(tx)[1 + x] = tx.noise[x]
    /\ Start(tx, 0) = Len(tx.noise) + 9
    /\ \A i \in 0 .. Len(tx.bodies) :
          /\ Start(tx, i) \in Len(tx.noise) + 9 .. Start(tx, Len(tx.bodies))
          /\ \A j \in 1 .. 8 : Text(tx)[Start(tx, i) - 8 + j] = Flag[j]
    /\ \A i \in 0 .. Len(tx.bodies) - 1 :
          /\ Start(tx, i + 1) = Start(tx, i) + Len(Content(tx.bodies[i + 1])) + 8
          /\ \A j \in 1 .. Len(Content(tx.bodies[i + 1])) :
                Text(tx)[Start(tx, i) + j] = Content(tx.bodies[i + 1])[j]
    /\ Text(tx)[Start(tx, Len(tx.bodies)) + 1] = 0
    /\ Text(tx)[Start(tx, Len(tx.bodies)) + 2] = 0

\* Where each message lies behind the noise.
LEMMA SentText ==
    ASSUME NEW tx, tx.noise \in Seq(Bit), tx.bodies \in Seq(Message)
    PROVE  TextIs(tx)
<1> DEFINE z == <<0>>
           w == <<0, 0>>
           v == tx.noise
           ms == tx.bodies
           G == Frames(ms)
           P == z \o v
           Q == P \o G
           R == Q \o w
<1>1. /\ z \in Seq(Bit) /\ Len(z) = 1 /\ z[1] = 0
      /\ w \in Seq(Bit) /\ Len(w) = 2 /\ w[1] = 0 /\ w[2] = 0
  BY DEF Bit
<1>2. v \in Seq(Bit) /\ ms \in Seq(Message) /\ Framed(ms) /\ G \in Seq(Bit)
  BY FramesFramed DEF Framed
<1>3. Text(tx) = R
  BY DEF Text
<1>4. \A i : Start(tx, i) = 1 + Len(v) + Ends(ms, i)
  BY DEF Start
<1> HIDE DEF z, w, G
<1>5. /\ P \in Seq(Bit) /\ Len(v) \in Nat /\ Len(P) = 1 + Len(v) /\ P[1] = 0
      /\ \A i \in 1 .. Len(v) : P[1 + i] = v[i]
  <2>1. /\ P \in Seq(Bit) /\ Len(v) \in Nat /\ Len(P) = Len(z) + Len(v)
        /\ \A i \in 1 .. Len(z) : P[i] = z[i]
        /\ \A i \in 1 .. Len(v) : P[Len(z) + i] = v[i]
    BY <1>1, <1>2, Joined
  <2>2. 1 \in 1 .. Len(z)
    BY <1>1
  <2> HIDE DEF P, v
  <2> QED
    BY <1>1, <2>1, <2>2
<1> HIDE DEF P, v, ms
<1>6. /\ Q \in Seq(Bit) /\ Len(G) \in Nat /\ Len(Q) = Len(P) + Len(G)
      /\ \A i \in 1 .. Len(P) : Q[i] = P[i]
      /\ \A i \in 1 .. Len(G) : Q[Len(P) + i] = G[i]
  BY <1>2, <1>5, Joined
<1> HIDE DEF Q
<1>7. /\ R \in Seq(Bit) /\ Len(R) = Len(Q) + Len(w)
      /\ \A i \in 1 .. Len(Q) : R[i] = Q[i]
      /\ \A i \in 1 .. Len(w) : R[Len(Q) + i] = w[i]
  BY <1>1, <1>6, Joined
<1> HIDE DEF R
<1>8. /\ \A i \in 1 .. Len(P) : R[i] = P[i]
      /\ \A i \in 1 .. Len(G) : R[1 + Len(v) + i] = G[i]
  <2>1. ASSUME NEW i \in 1 .. Len(P) PROVE R[i] = P[i]
    <3>1. i \in 1 .. Len(Q)
      BY <1>5, <1>6
    <3> QED
      BY <1>6, <1>7, <3>1
  <2>2. ASSUME NEW i \in 1 .. Len(G) PROVE R[1 + Len(v) + i] = G[i]
    <3>1. Len(P) + i \in 1 .. Len(Q) /\ 1 + Len(v) + i = Len(P) + i
      BY <1>5, <1>6
    <3> QED
      BY <1>6, <1>7, <3>1
  <2> QED
    BY <2>1, <2>2
<1>9. /\ Ends(ms, 0) = 8 /\ Ends(ms, Len(ms)) = Len(G) /\ Len(ms) \in Nat
      /\ \A i \in 0 .. Len(ms) : /\ Ends(ms, i) \in 8 .. Len(G)
                                 /\ \A j \in 1 .. 8 : G[Ends(ms, i) - 8 + j] = Flag[j]
  BY <1>2 DEF Framed, G
<1>10. ASSUME NEW i \in 0 .. Len(ms) - 1
       PROVE  /\ Ends(ms, i + 1) = Ends(ms, i) + Len(Content(ms[i + 1])) + 8
              /\ Len(Content(ms[i + 1])) \in Nat
              /\ \A j \in 1 .. Len(Content(ms[i + 1])) : G[Ends(ms, i) + j] = Content(ms[i + 1])[j]
  <2>1. i + 1 \in 1 .. Len(ms)
    BY <1>9
  <2>2. ms[i + 1] \in Message
    BY <1>2, <2>1, ElementOfSeq
  <2>3. Len(Content(ms[i + 1])) \in Nat
    BY <2>2, ContentIs
  <2> QED
    BY <1>2, <2>3 DEF Framed, G
<1>11. Len(R) = Start(tx, Len(ms)) + 2 /\ Start(tx, 0) = Len(v) + 9 /\ Start(tx, Len(ms)) = Len(Q)
  <2>1. Start(tx, Len(ms)) = 1 + Len(v) + Len(G) /\ Start(tx, 0) = 1 + Len(v) + 8
    BY <1>4, <1>9
  <2>2. Len(R) = Len(Q) + 2 /\ Len(Q) = 1 + Len(v) + Len(G)
    BY <1>1, <1>5, <1>6, <1>7
  <2> QED
    BY <1>5, <1>6, <2>1, <2>2
<1>12. R[Start(tx, Len(ms)) + 1] = 0 /\ R[Start(tx, Len(ms)) + 2] = 0
  <2>1. Start(tx, Len(ms)) = Len(Q) /\ 1 \in 1 .. Len(w) /\ 2 \in 1 .. Len(w)
    BY <1>1, <1>11
  <2> QED
    BY <1>1, <1>7, <2>1
<1>13. R[1] = 0 /\ \A x \in 1 .. Len(v) : R[1 + x] = v[x]
  <2>1. 1 \in 1 .. Len(P) /\ \A x \in 1 .. Len(v) : 1 + x \in 1 .. Len(P)
    BY <1>5
  <2> QED
    BY <1>5, <1>8, <2>1
<1>14. ASSUME NEW i \in 0 .. Len(ms)
       PROVE  /\ Start(tx, i) \in Len(v) + 9 .. Start(tx, Len(ms))
              /\ \A j \in 1 .. 8 : R[Start(tx, i) - 8 + j] = Flag[j]
  <2> DEFINE e == Ends(ms, i)
  <2>1. e \in 8 .. Len(G) /\ \A j \in 1 .. 8 : G[e - 8 + j] = Flag[j]
    BY <1>9
  <2>2. Start(tx, i) = 1 + Len(v) + e
    BY <1>4
  <2>3. Start(tx, Len(ms)) = 1 + Len(v) + Len(G)
    BY <1>4, <1>9
  <2> HIDE DEF e
  <2>4. Start(tx, i) \in Len(v) + 9 .. Start(tx, Len(ms))
    BY <1>5, <1>6, <2>1, <2>2, <2>3
  <2>5. ASSUME NEW j \in 1 .. 8 PROVE R[Start(tx, i) - 8 + j] = Flag[j]
    <3>0. e \in Int /\ e >= 8 /\ e <= Len(G) /\ Len(v) \in Nat /\ Len(G) \in Nat
      BY <1>5, <1>6, <2>1
    <3>1. e - 8 + j \in 1 .. Len(G) /\ Start(tx, i) - 8 + j = 1 + Len(v) + (e - 8 + j)
      BY <2>2, <3>0
    <3>2. R[1 + Len(v) + (e - 8 + j)] = G[e - 8 + j]
      BY <1>8, <3>1
    <3> QED
      BY <2>1, <3>1, <3>2
  <2> QED
    BY <2>4, <2>5
<1>15. ASSUME NEW i \in 0 .. Len(ms) - 1
       PROVE  /\ Start(tx, i + 1) = Start(tx, i) + Len(Content(ms[i + 1])) + 8
              /\ \A j \in 1 .. Len(Content(ms[i + 1])) : R[Start(tx, i) + j] = Content(ms[i + 1])[j]
  <2> DEFINE e == Ends(ms, i)
             f == Ends(ms, i + 1)
             c == Content(ms[i + 1])
  <2>1. i \in 0 .. Len(ms) /\ i + 1 \in 0 .. Len(ms)
    BY <1>9
  <2>2. e \in 8 .. Len(G) /\ f \in 8 .. Len(G)
    BY <1>9, <2>1
  <2>3. f = e + Len(c) + 8 /\ Len(c) \in Nat /\ \A j \in 1 .. Len(c) : G[e + j] = c[j]
    BY <1>10
  <2>4. Start(tx, i) = 1 + Len(v) + e /\ Start(tx, i + 1) = 1 + Len(v) + f
    BY <1>4
  <2> HIDE DEF e, f, c
  <2>5. Start(tx, i + 1) = Start(tx, i) + Len(c) + 8
    BY <1>5, <2>2, <2>3, <2>4
  <2>6. ASSUME NEW j \in 1 .. Len(c) PROVE R[Start(tx, i) + j] = c[j]
    <3>1. e + j \in 1 .. Len(G) /\ Start(tx, i) + j = 1 + Len(v) + (e + j)
      BY <1>5, <1>6, <2>2, <2>3, <2>4
    <3>2. R[1 + Len(v) + (e + j)] = G[e + j]
      BY <1>8, <3>1
    <3> QED
      BY <2>3, <3>1, <3>2
  <2>7. Start(tx, i + 1) = Start(tx, i) + Len(c) + 8 /\ \A j \in 1 .. Len(c) : R[Start(tx, i) + j] = c[j]
    BY <2>5, <2>6
  <2> QED
    BY <2>7 DEF c
<1> QED
  BY <1>3, <1>5, <1>7, <1>9, <1>11, <1>12, <1>13, <1>14, <1>15 DEF TextIs, v, ms

\* A one is a line that stays.
LEMMA LineIs ==
    ASSUME NEW T \in Seq(Bit)
    PROVE  /\ Nrzi(T) \in Seq(Bit) /\ Len(Nrzi(T)) = Len(T)
           /\ \A i \in 2 .. Len(T) : Nrzi(T)[i] = Nrzi(T)[i - 1] <=> T[i] = 1
<1> DEFINE Z(i) == {k \in 1 .. i : T[k] = 0}
           c(i) == Cardinality(Z(i))
           A == Nrzi(T)
<1>0. Len(T) \in Nat /\ \A i \in 1 .. Len(T) : T[i] \in Bit
  BY ElementOfSeq
<1>1. A = [i \in 1 .. Len(T) |-> c(i) % 2]
  BY DEF Nrzi
<1>2. ASSUME NEW i \in Nat PROVE IsFiniteSet(Z(i)) /\ c(i) \in Nat
  <2>1. Z(i) \in SUBSET (1 .. i)
    OBVIOUS
  <2>2. IsFiniteSet(1 .. i)
    BY FS_Interval
  <2>3. IsFiniteSet(Z(i))
    BY <2>1, <2>2, FS_Subset
  <2> QED
    BY <2>3, FS_CardinalityType
<1>3. ASSUME NEW i \in 2 .. Len(T)
      PROVE  c(i) = IF T[i] = 0 THEN c(i - 1) + 1 ELSE c(i - 1)
  <2>1. CASE T[i] = 0
    <3>1. Z(i) = Z(i - 1) \cup {i} /\ i \notin Z(i - 1)
      BY <1>0, <2>1
    <3>2. IsFiniteSet(Z(i - 1))
      BY <1>2
    <3> HIDE DEF Z
    <3> QED
      BY <2>1, <3>1, <3>2, FS_AddElement
  <2>2. CASE T[i] # 0
    <3>1. Z(i) = Z(i - 1)
      BY <1>0, <2>2
    <3> HIDE DEF Z
    <3> QED
      BY <2>2, <3>1
  <2> QED
    BY <2>1, <2>2
<1>4. ASSUME NEW i \in 1 .. Len(T) PROVE c(i) \in Nat
  <2>1. i \in Nat
    OBVIOUS
  <2> QED
    BY <1>2, <2>1
<1> HIDE DEF c, A
<1>5. \A n \in Nat : n % 2 \in Bit /\ (n + 1) % 2 # n % 2
  BY DEF Bit
<1>6. A \in Seq(Bit) /\ Len(A) = Len(T) /\ \A i \in 1 .. Len(T) : A[i] = c(i) % 2
  <2>1. \A i \in 1 .. Len(T) : c(i) % 2 \in Bit
    BY <1>4, <1>5
  <2>2. A \in [1 .. Len(T) -> Bit]
    BY <1>1, <2>1
  <2> QED
    BY <1>0, <1>1, <2>2
<1>7. ASSUME NEW i \in 2 .. Len(T) PROVE A[i] = A[i - 1] <=> T[i] = 1
  <2>1. i \in 1 .. Len(T) /\ i - 1 \in 1 .. Len(T)
    BY <1>0
  <2>2. A[i] = c(i) % 2 /\ A[i - 1] = c(i - 1) % 2 /\ c(i - 1) \in Nat
    BY <1>4, <1>6, <2>1
  <2>3. T[i] = 0 \/ T[i] = 1
    BY <1>0, <2>1 DEF Bit
  <2> QED
    BY <1>3, <1>5, <2>2, <2>3
<1> QED
  BY <1>6, <1>7 DEF A

-----------------------------------------------------------------------------
(* The deframer                                                             *)

LEMMA TransmissionIs ==
    ASSUME NEW tx \in Transmissions
    PROVE  /\ tx.noise \in Seq(Bit) /\ tx.bodies \in Seq(Message) /\ TextIs(tx)
           /\ \A i \in 1 .. Len(tx.bodies) : MinFrameBits <= Len(tx.bodies[i]) + 16
<1>1. /\ tx.noise \in Seq(Bit) /\ tx.bodies \in Seq(Message)
      /\ \A i \in DOMAIN tx.bodies : MinFrameBits <= Len(tx.bodies[i]) + 16
  BY ChannelAssumption DEF Bit, Message
<1>2. DOMAIN tx.bodies = 1 .. Len(tx.bodies)
  BY <1>1
<1> QED
  BY <1>1, <1>2, SentText

LEMMA FlagBits == Flag[1] = 0 /\ Flag[8] = 0 /\ \A j \in 2 .. 7 : Flag[j] = 1
  BY DEF Flag

\* The last eight bits are a flag.
FlagAt(tx, n) == \A k \in 0 .. 7 : Text(tx)[n - k] = Flag[8 - k]

\* n is between the flag before message i + 1 and the next one.
Inside(tx, i, n) ==
    /\ i \in 0 .. Len(tx.bodies) /\ n \in Start(tx, i) .. Len(Text(tx))
    /\ i < Len(tx.bodies) => n < Start(tx, i + 1)

LEMMA StartIsIn ==
    ASSUME NEW tx \in Transmissions, NEW i \in 0 .. Len(tx.bodies)
    PROVE  /\ Start(tx, i) \in Nat /\ Start(tx, i) >= Len(tx.noise) + 9 /\ Len(tx.noise) \in Nat
           /\ Len(Text(tx)) \in Nat /\ Len(tx.bodies) \in Nat
           /\ Start(tx, i) <= Start(tx, Len(tx.bodies))
           /\ Len(Text(tx)) = Start(tx, Len(tx.bodies)) + 2
           /\ FlagAt(tx, Start(tx, i)) /\ Text(tx)[Start(tx, i)] = 0
<1> DEFINE s == Start(tx, i)
           e == Start(tx, Len(tx.bodies))
           T == Text(tx)
<1>1. /\ Len(tx.noise) \in Nat /\ Len(tx.bodies) \in Nat /\ s \in Len(tx.noise) + 9 .. e
      /\ Len(T) = e + 2
      /\ \A j \in 1 .. 8 : T[s - 8 + j] = Flag[j]
  BY TransmissionIs DEF TextIs
<1>2. Len(T) \in Nat
  BY TransmissionIs DEF TextIs
<1> HIDE DEF s, e, T
<1>3. s \in Nat /\ s >= Len(tx.noise) + 9 /\ s <= e
  BY <1>1
<1>4. ASSUME NEW k \in 0 .. 7 PROVE T[s - k] = Flag[8 - k]
  <2>1. 8 - k \in 1 .. 8 /\ s - 8 + (8 - k) = s - k
    BY <1>3
  <2> QED
    BY <1>1, <2>1
<1>5. T[s] = 0
  <2>1. 0 \in 0 .. 7 /\ s - 0 = s /\ 8 - 0 = 8
    BY <1>3
  <2> QED
    BY <1>4, <2>1, FlagBits
<1> QED
  BY <1>1, <1>2, <1>3, <1>4, <1>5 DEF FlagAt, s, e, T

\* A message, and the first bit of the flag behind it.
LEMMA MessageIn ==
    ASSUME NEW tx \in Transmissions, NEW i \in 0 .. Len(tx.bodies) - 1
    PROVE  /\ tx.bodies[i + 1] \in Message /\ MinFrameBits <= Len(tx.bodies[i + 1]) + 16
           /\ Content(tx.bodies[i + 1]) \in Seq(Bit) /\ Len(Content(tx.bodies[i + 1])) \in Nat
           /\ Start(tx, i + 1) = Start(tx, i) + Len(Content(tx.bodies[i + 1])) + 8
           /\ \A j \in 1 .. Len(Content(tx.bodies[i + 1])) :
                 Text(tx)[Start(tx, i) + j] = Content(tx.bodies[i + 1])[j]
           /\ Text(tx)[Start(tx, i) + Len(Content(tx.bodies[i + 1])) + 1] = 0
<1> DEFINE C == Content(tx.bodies[i + 1])
           T == Text(tx)
           s == Start(tx, i)
           e == Start(tx, i + 1)
<1>1. i + 1 \in 1 .. Len(tx.bodies) /\ i + 1 \in 0 .. Len(tx.bodies) /\ i \in 0 .. Len(tx.bodies)
  <2>1. Len(tx.bodies) \in Nat
    BY TransmissionIs DEF TextIs
  <2> QED
    BY <2>1
<1>2. tx.bodies[i + 1] \in Message /\ MinFrameBits <= Len(tx.bodies[i + 1]) + 16
  BY <1>1, TransmissionIs, ElementOfSeq
<1>3. C \in Seq(Bit) /\ Len(C) \in Nat
  <2>1. C \in Seq(Bit)
    BY <1>2, ContentIs
  <2> HIDE DEF C
  <2> QED
    BY <2>1
<1>4. e = s + Len(C) + 8 /\ \A j \in 1 .. Len(C) : T[s + j] = C[j]
  BY TransmissionIs DEF TextIs
<1>5. FlagAt(tx, e) /\ s \in Nat
  BY <1>1, StartIsIn
<1>6. T[e - 7] = 0
  <2>1. 7 \in 0 .. 7 /\ 8 - 7 = 1
    OBVIOUS
  <2> QED
    BY <1>5, <2>1, FlagBits DEF FlagAt
<1> HIDE DEF C, T, s, e
<1>7. e - 7 = s + Len(C) + 1
  BY <1>3, <1>4, <1>5
<1> QED
  BY <1>2, <1>3, <1>4, <1>6, <1>7 DEF C, T, s, e

\* No flag but the true ones.
LEMMA NoFalseFlag ==
    ASSUME NEW tx \in Transmissions, NEW i, NEW n, Inside(tx, i, n), n # Start(tx, i)
    PROVE  ~FlagAt(tx, n)
<1> DEFINE T == Text(tx)
           s == Start(tx, i)
           M == Len(tx.bodies)
<1>0. i \in 0 .. M /\ n \in s .. Len(T) /\ (i < M => n < Start(tx, i + 1))
  BY DEF Inside
<1>1. M \in Nat /\ s \in Nat /\ T[s] = 0 /\ Len(T) \in Nat /\ Len(T) = Start(tx, M) + 2
  BY <1>0, StartIsIn
<1>2. n \in Nat /\ n > s /\ n <= Len(T)
  BY <1>0, <1>1
<1> SUFFICES ASSUME FlagAt(tx, n) PROVE FALSE
  OBVIOUS
<1>3. \A j \in 1 .. 6 : T[n - j] = 1
  <2>1. ASSUME NEW j \in 1 .. 6 PROVE T[n - j] = 1
    <3>1. j \in 0 .. 7 /\ 8 - j \in 2 .. 7
      OBVIOUS
    <3> QED
      BY <3>1, FlagBits DEF FlagAt
  <2> QED
    BY <2>1
<1>4. n - s > 6
  <2>1. SUFFICES ASSUME n - s \in 1 .. 6 PROVE FALSE
    BY <1>1, <1>2
  <2>2. n - (n - s) = s
    BY <1>1, <1>2
  <2> QED
    BY <1>1, <1>3, <2>1, <2>2
<1> HIDE DEF T, s, M
<1>5. CASE i = M
  <2>1. Len(T) = s + 2
    BY <1>1, <1>5 DEF s
  <2> QED
    BY <1>1, <1>2, <1>4, <2>1
<1>6. CASE i # M
  <2> DEFINE C == Content(tx.bodies[i + 1])
  <2>1. i \in 0 .. M - 1 /\ n < Start(tx, i + 1)
    BY <1>0, <1>1, <1>6
  <2>2. /\ tx.bodies[i + 1] \in Message /\ Len(C) \in Nat
        /\ Start(tx, i + 1) = s + Len(C) + 8 /\ \A j \in 1 .. Len(C) : T[s + j] = C[j]
        /\ T[s + Len(C) + 1] = 0
    BY <2>1, MessageIn DEF T, s, M
  <2>3. \A x \in 6 .. Len(C) : \E j \in 0 .. 5 : C[x - j] = 0
    BY <2>2, ContentIs
  <2> DEFINE c == n - s - 1
  <2>4. c \in Int /\ c >= 6 /\ c < Len(C) + 7
    <3> DEFINE e == Start(tx, i + 1)
               l == Len(C)
    <3>1. n < e /\ e = s + l + 8 /\ l \in Nat
      BY <2>1, <2>2
    <3>2. s \in Nat /\ n \in Nat /\ n - s > 6
      BY <1>1, <1>2, <1>4
    <3> HIDE DEF e, l
    <3>3. c \in Int /\ c >= 6 /\ c < l + 7
      BY <3>1, <3>2
    <3> QED
      BY <3>3 DEF l
  <2> HIDE DEF C
  <2>7. CASE c <= Len(C)
    <3>1. c \in 6 .. Len(C)
      BY <2>2, <2>4, <2>7
    <3>2. PICK j \in 0 .. 5 : C[c - j] = 0
      BY <2>3, <3>1
    <3>3. c - j \in 1 .. Len(C) /\ s + (c - j) = n - (j + 1) /\ j + 1 \in 1 .. 6
      BY <1>1, <1>2, <2>2, <3>1
    <3>4. T[s + (c - j)] = C[c - j] /\ T[n - (j + 1)] = 1
      BY <1>3, <2>2, <3>3
    <3> QED
      BY <3>2, <3>3, <3>4
  <2>8. CASE c > Len(C)
    <3> DEFINE j == c - Len(C)
    <3>1. j \in 1 .. 6 /\ n - j = s + Len(C) + 1
      <4>1. Len(C) \in Nat /\ s \in Nat /\ n \in Nat
        BY <1>1, <1>2, <2>2
      <4> QED
        BY <2>4, <2>8, <4>1 DEF c
    <3>2. T[n - j] = 1
      BY <1>3, <3>1
    <3> HIDE DEF j
    <3> QED
      BY <2>2, <3>1, <3>2
  <2> QED
    <3> HIDE DEF c
    <3> QED
      BY <2>2, <2>4, <2>7, <2>8
<1> QED
  BY <1>5, <1>6

\* What the check sequence lets through.
LEMMA HandleMessage ==
    ASSUME NEW m \in Message, MinFrameBits <= Len(m) + 16, NEW q, q = Content(m)
    PROVE  Handle(q) = Append(onFrame, m)
<1> DEFINE c == Fcs(m)
           f == m \o c
           n == Len(f)
<1>1. m \in Seq(Bit) /\ c \in Seq(Bit) /\ Len(c) = 16
  BY FcsType DEF Message
<1>2. Destuff(q) = f
  BY ContentIs
<1> HIDE DEF c
<1>3. /\ f \in Seq(Bit) /\ n = Len(m) + 16 /\ Len(m) \in Nat
      /\ \A i \in 1 .. Len(m) : f[i] = m[i]
      /\ \A i \in 1 .. 16 : f[Len(m) + i] = c[i]
  <2>1. /\ f \in Seq(Bit) /\ n = Len(m) + Len(c) /\ Len(m) \in Nat
        /\ \A i \in 1 .. Len(m) : f[i] = m[i]
        /\ \A i \in 1 .. Len(c) : f[Len(m) + i] = c[i]
    BY <1>1, Joined
  <2> HIDE DEF f
  <2> QED
    BY <1>1, <2>1
<1> HIDE DEF f
<1>4. \A i \in 1 .. n : f[i] \in Bit
  BY <1>3, ElementOfSeq
<1> HIDE DEF n
<1>10. n \in Nat /\ n - 16 = Len(m) /\ Len(m) \in Nat /\ n - 15 = Len(m) + 1
  <2>1. n = Len(m) + 16 /\ Len(m) \in Nat
    BY <1>3
  <2> QED
    BY <2>1
<1>5. SubSeq(f, 1, n - 16) = m
  <2> DEFINE s == SubSeq(f, 1, n - 16)
  <2>1. /\ s \in Seq(Bit) /\ Len(s) = IF 1 <= n - 16 THEN n - 16 - 1 + 1 ELSE 0
        /\ \A i \in 1 .. n - 16 - 1 + 1 : s[i] = f[1 + i - 1]
    <3>1. 1 \in Int /\ n - 16 \in Int /\ \A i \in 1 .. n - 16 : f[i] \in Bit
      BY <1>4, <1>10
    <3> QED
      BY <3>1, SubSeqProperties
  <2> HIDE DEF s
  <2>2. Len(s) = Len(m)
    BY <1>10, <2>1
  <2>3. ASSUME NEW i \in 1 .. Len(s) PROVE s[i] = m[i]
    <3>1. i \in 1 .. n - 16 - 1 + 1 /\ 1 + i - 1 = i /\ i \in 1 .. Len(m)
      BY <1>10, <2>2
    <3> QED
      BY <1>3, <2>1, <3>1
  <2> QED
    BY <1>1, <2>1, <2>2, <2>3, SeqEqual DEF s
<1>6. SubSeq(f, n - 15, n) = c
  <2> DEFINE s == SubSeq(f, n - 15, n)
  <2>1. /\ s \in Seq(Bit) /\ Len(s) = IF n - 15 <= n THEN n - (n - 15) + 1 ELSE 0
        /\ \A i \in 1 .. n - (n - 15) + 1 : s[i] = f[n - 15 + i - 1]
    <3>1. n - 15 \in Int /\ n \in Int /\ \A i \in n - 15 .. n : f[i] \in Bit
      BY <1>4, <1>10
    <3> QED
      BY <3>1, SubSeqProperties
  <2> HIDE DEF s
  <2>2. Len(s) = 16
    BY <1>10, <2>1
  <2>3. ASSUME NEW i \in 1 .. Len(s) PROVE s[i] = c[i]
    <3>1. i \in 1 .. n - (n - 15) + 1 /\ n - 15 + i - 1 = Len(m) + i /\ i \in 1 .. 16
      BY <1>10, <2>2
    <3> QED
      BY <1>3, <2>1, <3>1
  <2> QED
    BY <1>1, <2>1, <2>2, <2>3, SeqEqual DEF s
<1>7. ~(n < MinFrameBits)
  BY <1>3, ChannelAssumption
<1>8. Fcs(SubSeq(f, 1, n - 16)) = SubSeq(f, n - 15, n)
  BY <1>5, <1>6 DEF c
<1>9. Len(f) = n
  BY DEF n
<1> QED
  BY <1>2, <1>5, <1>7, <1>8, <1>9 DEF Handle

LEMMA HandleShort ==
    ASSUME NEW q \in Seq(Bit), Len(q) < MinFrameBits
    PROVE  Handle(q) = onFrame
<1>1. Len(Destuff(q)) < MinFrameBits
  <2>1. Destuff(q) \in Seq(Bit) /\ Len(Destuff(q)) <= Len(q)
    BY DestuffShorter
  <2>2. Len(Destuff(q)) \in Nat /\ Len(q) \in Nat
    BY <2>1
  <2> QED
    BY <2>1, <2>2, ChannelAssumption
<1> QED
  BY <1>1 DEF Handle

DeframerType ==
    /\ reg \in Seq(Bit) /\ Len(reg) = 8 /\ bits \in Seq(Bit)

LEMMA EightBits == \A r \in Seq(Bit) : Len(r) = 8 => r # <<>>
<1>1. SUFFICES ASSUME NEW r \in Seq(Bit), Len(r) = 8, r = <<>> PROVE FALSE
  OBVIOUS
<1> DEFINE e == <<>>
<1>2. Len(e) = 0
  OBVIOUS
<1>3. r = e
  BY <1>1
<1> HIDE DEF e
<1> QED
  BY <1>1, <1>2, <1>3

\* A bit enters the register at its end.
LEMMA PushIs ==
    ASSUME DeframerType, NEW b \in Bit, PushLogical(b)
    PROVE  /\ DeframerType'
           /\ reg'[8] = b /\ \A k \in 1 .. 7 : reg'[8 - k] = reg[8 - (k - 1)]
<1>1. reg' = Append(Tail(reg), b)
  BY DEF PushLogical
<1>0. reg \in Seq(Bit) /\ Len(reg) = 8
  BY DEF DeframerType
<1>2. reg # <<>>
  BY <1>0, EightBits
<1> DEFINE t == Tail(reg)
<1>3. t \in Seq(Bit) /\ Len(t) = 7 /\ \A i \in 1 .. 7 : t[i] = reg[i + 1]
  <2>1. /\ t \in Seq(Bit) /\ Len(t) = Len(reg) - 1
        /\ \A i \in 1 .. Len(reg) - 1 : t[i] = reg[i + 1]
    BY <1>0, <1>2, HeadTailProperties
  <2> HIDE DEF t
  <2> QED
    BY <1>0, <2>1
<1> HIDE DEF t
<1>4. /\ reg' \in Seq(Bit) /\ Len(reg') = 8 /\ reg'[8] = b
      /\ \A i \in 1 .. 7 : reg'[i] = t[i]
  <2> DEFINE r == Append(t, b)
  <2>1. r \in Seq(Bit) /\ Len(r) = Len(t) + 1 /\ r[Len(t) + 1] = b /\ \A i \in 1 .. Len(t) : r[i] = t[i]
    <3>1. t \in Seq(Bit)
      BY <1>3
    <3> QED
      BY <3>1, AppendProperties
  <2>2. reg' = r
    BY <1>1 DEF t
  <2> HIDE DEF r
  <2> QED
    BY <1>3, <2>1, <2>2
<1>5. ASSUME NEW k \in 1 .. 7 PROVE reg'[8 - k] = reg[8 - (k - 1)]
  <2>1. 8 - k \in 1 .. 7 /\ (8 - k) + 1 = 8 - (k - 1)
    OBVIOUS
  <2> QED
    BY <1>3, <1>4, <2>1
<1>6. bits' \in Seq(Bit)
  <2>1. Append(bits, b) \in Seq(Bit) /\ <<>> \in Seq(Bit)
    BY AppendProperties, EmptySeq DEF DeframerType
  <2> QED
    BY <2>1 DEF PushLogical
<1> QED
  BY <1>4, <1>5, <1>6 DEF DeframerType

\* What pushLogical does with a flag, and with any other bit.
LEMMA PushFlag ==
    ASSUME DeframerType, NEW b \in Bit, PushLogical(b), reg' = Flag
    PROVE  /\ synced' /\ bits' = <<>> /\ Len(bits) \in Nat
           /\ (~synced \/ Len(bits) < 7) => onFrame' = onFrame
           /\ (synced /\ Len(bits) >= 7)
                 => onFrame' = Handle(SubSeq(Append(bits, b), 1, Len(bits) - 7))
<1> DEFINE more == Append(bits, b)
           n == Len(bits)
<1>1. n \in Nat /\ Len(more) = n + 1
  <2>1. bits \in Seq(Bit)
    BY DEF DeframerType
  <2> QED
    BY <2>1, AppendProperties
<1>2. /\ onFrame' = IF synced /\ Len(more) >= 8 THEN Handle(SubSeq(more, 1, Len(more) - 8)) ELSE onFrame
      /\ synced' = TRUE /\ bits' = <<>>
  BY DEF PushLogical
<1> HIDE DEF more, n
<1>3. /\ Len(more) - 8 = n - 7 /\ (Len(more) >= 8 <=> n >= 7) /\ (n < 7 <=> ~(n >= 7))
  BY <1>1
<1> QED
  BY <1>1, <1>2, <1>3 DEF more, n

LEMMA PushOther ==
    ASSUME DeframerType, NEW b \in Bit, PushLogical(b), reg' # Flag
    PROVE  /\ onFrame' = onFrame /\ Len(bits) \in Nat
           /\ (synced /\ Len(bits) < MaxFrameBits) => synced' /\ bits' = Append(bits, b)
           /\ ~(synced /\ Len(bits) < MaxFrameBits) => ~synced'
<1> DEFINE more == Append(bits, b)
           n == Len(bits)
<1>1. n \in Nat /\ Len(more) = n + 1
  <2>1. bits \in Seq(Bit)
    BY DEF DeframerType
  <2> QED
    BY <2>1, AppendProperties
<1>2. /\ bits' = IF Len(more) > MaxFrameBits THEN <<>> ELSE more
      /\ synced' = (synced /\ Len(more) <= MaxFrameBits)
      /\ onFrame' = onFrame
  BY DEF PushLogical
<1> HIDE DEF more, n
<1>3. (n < MaxFrameBits <=> Len(more) <= MaxFrameBits) /\ (Len(more) > MaxFrameBits <=> ~(Len(more) <= MaxFrameBits))
  BY <1>1, ChannelAssumption
<1> QED
  BY <1>1, <1>2, <1>3 DEF more, n

\* The register holds the last bits up to n.
RegAt(tx, n) == \A k \in 0 .. 7 : reg[8 - k] = Text(tx)[n - k]

\* A register that holds the text sees a flag where there is one.
LEMMA RegFlag ==
    ASSUME NEW tx, NEW n, DeframerType', RegAt(tx, n)'
    PROVE  reg' = Flag <=> FlagAt(tx, n)
<1>1. reg' \in Seq(Bit) /\ Len(reg') = 8
  BY DEF DeframerType
<1>2. \A k \in 0 .. 7 : reg'[8 - k] = Text(tx)[n - k]
  BY DEF RegAt
<1>3. ASSUME FlagAt(tx, n) PROVE reg' = Flag
  <2>1. ASSUME NEW j \in 1 .. 8 PROVE reg'[j] = Flag[j]
    <3>1. 8 - j \in 0 .. 7 /\ 8 - (8 - j) = j
      OBVIOUS
    <3> QED
      BY <1>2, <1>3, <3>1 DEF FlagAt
  <2>2. Flag \in Seq(Bit) /\ Len(Flag) = 8
    BY FlagType DEF BitSeq
  <2> QED
    BY <1>1, <2>1, <2>2, SeqEqual
<1>4. ASSUME reg' = Flag PROVE FlagAt(tx, n)
  BY <1>2, <1>4 DEF FlagAt
<1> QED
  BY <1>3, <1>4

\* Five ones and a zero, which a deframer that began to hear may take for a flag.
Mark(tx, q) == /\ q >= 7 /\ Text(tx)[q] = 0
               /\ \A i \in 1 .. 5 : Text(tx)[q - i] = 1

\* Too few bits of noise follow a mark for a message (ChannelAssumption).
LEMMA MarkShort ==
    ASSUME NEW tx \in Transmissions, NEW q \in Nat, Mark(tx, q), q <= Len(tx.noise) + 1
    PROVE  Len(tx.noise) + 1 - q < MinFrameBits
<1> DEFINE v == tx.noise
           T == Text(tx)
           x == q - 1
<1>1. /\ Len(v) \in Nat /\ \A y \in 1 .. Len(v) : T[1 + y] = v[y]
  BY TransmissionIs DEF TextIs
<1>2. q >= 7 /\ T[q] = 0 /\ \A i \in 1 .. 5 : T[q - i] = 1
  BY DEF Mark
<1>3. (v[x] = 0 /\ \A i \in 1 .. 5 : v[x - i] = 1) => Len(v) - x < MinFrameBits
  <2>1. x \in 6 .. Len(v)
    BY <1>1, <1>2
  <2> HIDE DEF x
  <2> QED
    BY <2>1, ChannelAssumption
<1> HIDE DEF v, T
<1>4. v[x] = 0
  <2>1. x \in 1 .. Len(v) /\ 1 + x = q
    BY <1>1, <1>2 DEF v
  <2> QED
    BY <1>1, <1>2, <2>1
<1>5. ASSUME NEW i \in 1 .. 5 PROVE v[x - i] = 1
  <2>1. x - i \in 1 .. Len(v) /\ 1 + (x - i) = q - i
    BY <1>1, <1>2 DEF v
  <2> QED
    BY <1>1, <1>2, <2>1
<1>6. Len(v) - x < MinFrameBits
  BY <1>3, <1>4, <1>5
<1>7. Len(v) - x = Len(v) + 1 - q
  BY <1>1
<1> QED
  BY <1>6, <1>7 DEF v

\* Before the first true flag is whole: a one more in the register than in the air,
\* what is collected began at a mark, and nothing is handed up.
BeforeFirst(tx, n) ==
    /\ n \in 1 .. Len(tx.noise) + 8 /\ DeframerType /\ onFrame = <<>>
    /\ \A z \in 1 .. 6 : (\A k \in 0 .. z - 1 : reg[8 - k] = 1)
                            => \A k \in 0 .. z - 2 : Text(tx)[n - k] = 1
    /\ \A k \in 0 .. 7 : n - k >= Len(tx.noise) + 2 => reg[8 - k] = Text(tx)[n - k]
    /\ synced => \E q \in 7 .. n : Mark(tx, q) /\ Len(bits) = n - q

\* After the flag before message i + 1: the bits behind it, unless they are too many.
Between(tx, i, n) ==
    /\ Inside(tx, i, n) /\ DeframerType /\ RegAt(tx, n)
    /\ onFrame = Handed(First(tx.bodies, i))
    /\ n - Start(tx, i) <= MaxFrameBits =>
          /\ synced /\ Len(bits) = n - Start(tx, i)
          /\ \A x \in 1 .. Len(bits) : bits[x] = Text(tx)[Start(tx, i) + x]
    /\ n - Start(tx, i) > MaxFrameBits => ~synced

Deframed(tx, n) == BeforeFirst(tx, n) \/ \E i : Between(tx, i, n)

\* A flag before the first one hands nothing up.
LEMMA NothingYet ==
    ASSUME NEW tx \in Transmissions, NEW n, BeforeFirst(tx, n),
           NEW b \in Bit, PushLogical(b), reg' = Flag
    PROVE  onFrame' = <<>>
<1> DEFINE N == Len(tx.noise)
           l == Len(bits)
<1>1. n \in 1 .. N + 8 /\ DeframerType /\ onFrame = <<>> /\ N \in Nat
  BY TransmissionIs DEF BeforeFirst, TextIs
<1>2. /\ l \in Nat /\ (~synced \/ l < 7) => onFrame' = onFrame
      /\ (synced /\ l >= 7) => onFrame' = Handle(SubSeq(Append(bits, b), 1, l - 7))
  BY <1>1, PushFlag
<1>3. CASE ~synced \/ l < 7
  BY <1>1, <1>2, <1>3
<1>4. CASE synced /\ l >= 7
  <2>1. PICK q \in 7 .. n : Mark(tx, q) /\ l = n - q
    BY <1>4 DEF BeforeFirst
  <2>0. l \in Nat /\ l >= 7
    BY <1>2, <1>4
  <2> DEFINE c == SubSeq(Append(bits, b), 1, l - 7)
  <2>2. c \in Seq(Bit) /\ Len(c) = l - 7
    <3>1. bits \in Seq(Bit)
      BY <1>1 DEF DeframerType
    <3> DEFINE more == Append(bits, b)
    <3>2. more \in Seq(Bit) /\ Len(more) = l + 1
      BY <3>1, AppendProperties
    <3> HIDE DEF more, l
    <3>3. \A x \in 1 .. l - 7 : more[x] \in Bit
      <4>1. \A x \in 1 .. l - 7 : x \in 1 .. Len(more)
        BY <2>0, <3>2
      <4> QED
        BY <3>2, <4>1, ElementOfSeq
    <3>4. 1 \in Int /\ l - 7 \in Int
      BY <2>0
    <3> DEFINE s == SubSeq(more, 1, l - 7)
    <3>5. s \in Seq(Bit) /\ Len(s) = IF 1 <= l - 7 THEN l - 7 - 1 + 1 ELSE 0
      BY <3>3, <3>4, SubSeqProperties
    <3> HIDE DEF s
    <3>6. s \in Seq(Bit) /\ Len(s) = l - 7
      BY <2>0, <3>5
    <3> QED
      BY <3>6 DEF s, more
  <2> HIDE DEF c, l, N
  <2>3. q \in Nat /\ q <= N + 1 /\ l - 7 <= N + 1 - q
    BY <1>1, <1>2, <1>4, <2>1
  <2>4. N + 1 - q < MinFrameBits
    BY <2>1, <2>3, MarkShort DEF N
  <2>5. Len(c) < MinFrameBits
    BY <1>1, <1>2, <2>2, <2>3, <2>4, ChannelAssumption
  <2> QED
    BY <1>1, <1>2, <1>4, <2>2, <2>5, HandleShort DEF c, l
<1> QED
  BY <1>2, <1>3, <1>4

LEMMA BitOf ==
    ASSUME NEW tx \in Transmissions, NEW n \in 1 .. Len(Text(tx))
    PROVE  Text(tx)[n] \in Bit
  BY TransmissionIs, ElementOfSeq DEF TextIs

\* A bit before the end of the first flag.
LEMMA PushBefore ==
    ASSUME NEW tx \in Transmissions, NEW n, BeforeFirst(tx, n), n < Len(tx.noise) + 8,
           PushLogical(Text(tx)[n + 1])
    PROVE  BeforeFirst(tx, n + 1)'
<1> DEFINE N == Len(tx.noise)
           T == Text(tx)
           b == T[n + 1]
<1>1. /\ n \in 1 .. N + 8 /\ DeframerType /\ onFrame = <<>>
      /\ \A k \in 0 .. 7 : n - k >= N + 2 => reg[8 - k] = T[n - k]
  BY DEF BeforeFirst
<1>2. N \in Nat /\ T[1] = 0 /\ Len(T) \in Nat /\ Len(T) >= N + 9
  <2>1. 0 \in 0 .. Len(tx.bodies)
    BY TransmissionIs DEF TextIs
  <2>2. N \in Nat /\ Len(T) \in Nat /\ T[1] = 0
    BY <2>1, StartIsIn, TransmissionIs DEF TextIs
  <2>3. Start(tx, 0) >= N + 9 /\ Start(tx, 0) <= Start(tx, Len(tx.bodies))
        /\ Len(T) = Start(tx, Len(tx.bodies)) + 2 /\ Start(tx, 0) \in Nat
    BY <2>1, StartIsIn
  <2> DEFINE s == Start(tx, 0)
             e == Start(tx, Len(tx.bodies))
  <2>4. e \in Nat
    <3>1. Len(tx.bodies) \in 0 .. Len(tx.bodies)
      BY TransmissionIs DEF TextIs
    <3> QED
      BY <3>1, StartIsIn
  <2> HIDE DEF s, e, N, T
  <2> QED
    BY <2>2, <2>3, <2>4 DEF s, e
<1>3. n \in Nat /\ n >= 1 /\ n + 1 \in 1 .. N + 8 /\ n + 1 \in 1 .. Len(T)
  BY <1>1, <1>2
<1>4. b \in Bit
  BY <1>3, BitOf
<1>5. /\ DeframerType'
      /\ reg'[8] = b /\ \A k \in 1 .. 7 : reg'[8 - k] = reg[8 - (k - 1)]
  BY <1>1, <1>4, PushIs
<1> HIDE DEF N, T
<1>6. ASSUME NEW z \in 1 .. 6, \A k \in 0 .. z - 1 : reg'[8 - k] = 1, NEW k \in 0 .. z - 2
      PROVE  T[n + 1 - k] = 1
  <2>1. CASE k = 0
    <3>1. 0 \in 0 .. z - 1 /\ 8 - 0 = 8 /\ n + 1 - 0 = n + 1
      BY <1>3
    <3> QED
      BY <1>5, <1>6, <2>1, <3>1
  <2>2. CASE k # 0
    <3>1. z - 1 \in 1 .. 6 /\ k - 1 \in 0 .. (z - 1) - 2 /\ n - (k - 1) = n + 1 - k
      BY <1>3, <2>2
    <3>2. ASSUME NEW j \in 0 .. (z - 1) - 1 PROVE reg[8 - j] = 1
      <4>1. j + 1 \in 1 .. 7 /\ j + 1 \in 0 .. z - 1 /\ (j + 1) - 1 = j
        OBVIOUS
      <4>2. reg'[8 - (j + 1)] = reg[8 - ((j + 1) - 1)] /\ reg'[8 - (j + 1)] = 1
        BY <1>5, <1>6, <4>1
      <4> QED
        BY <4>1, <4>2
    <3>3. \A j \in 0 .. (z - 1) - 2 : T[n - j] = 1
      BY <3>1, <3>2 DEF BeforeFirst, T
    <3> QED
      BY <3>1, <3>3
  <2> QED
    BY <2>1, <2>2
<1>7. ASSUME NEW k \in 0 .. 7, n + 1 - k >= N + 2 PROVE reg'[8 - k] = T[n + 1 - k]
  <2>1. CASE k = 0
    <3>1. 8 - k = 8 /\ n + 1 - k = n + 1
      BY <1>3, <2>1
    <3> QED
      BY <1>5, <3>1
  <2>2. CASE k # 0
    <3>1. k \in 1 .. 7 /\ k - 1 \in 0 .. 7 /\ n - (k - 1) = n + 1 - k
      BY <1>3, <2>2
    <3> QED
      BY <1>1, <1>5, <1>7, <3>1
  <2> QED
    BY <2>1, <2>2
<1>8. CASE reg' = Flag
  <2>1. onFrame' = <<>>
    BY <1>4, <1>8, NothingYet DEF T
  <2>2. bits' = <<>>
    BY <1>1, <1>4, <1>8, PushFlag DEF T
  <2>3. \A k \in 0 .. 4 : T[n - k] = 1
    <3>1. ASSUME NEW k \in 0 .. 5 PROVE reg[8 - k] = 1
      <4>1. k + 1 \in 1 .. 7 /\ 8 - (k + 1) \in 2 .. 7 /\ (k + 1) - 1 = k
        OBVIOUS
      <4>2. reg'[8 - (k + 1)] = reg[8 - ((k + 1) - 1)] /\ Flag[8 - (k + 1)] = 1
        BY <1>5, <4>1, FlagBits
      <4> QED
        BY <1>8, <4>1, <4>2
    <3>2. 6 \in 1 .. 6 /\ 6 - 1 = 5 /\ 6 - 2 = 4
      OBVIOUS
    <3> QED
      BY <3>1, <3>2 DEF BeforeFirst, T
  <2>4. T[n + 1] = 0
    BY <1>5, <1>8, FlagBits
  <2>5. n >= 6
    <3>1. SUFFICES ASSUME n - 1 \in 0 .. 4 PROVE FALSE
      BY <1>3
    <3>2. T[n - (n - 1)] = 1 /\ n - (n - 1) = 1
      BY <1>3, <2>3, <3>1
    <3> QED
      BY <1>2, <3>2
  <2>6. Mark(tx, n + 1)
    <3>1. ASSUME NEW i \in 1 .. 5 PROVE T[n + 1 - i] = 1
      <4>1. i - 1 \in 0 .. 4 /\ n - (i - 1) = n + 1 - i
        BY <1>3
      <4> QED
        BY <2>3, <4>1
    <3> QED
      BY <1>3, <2>4, <2>5, <3>1 DEF Mark, T
  <2>7. \E q \in 7 .. n + 1 : Mark(tx, q) /\ Len(bits') = n + 1 - q
    <3> DEFINE e == bits'
    <3>1. Len(e) = 0 /\ n + 1 \in 7 .. n + 1 /\ (n + 1) - (n + 1) = 0
      BY <1>3, <2>2, <2>5
    <3> DEFINE q0 == n + 1
    <3>2. q0 \in 7 .. n + 1 /\ Mark(tx, q0) /\ Len(e) = n + 1 - q0
      <4> HIDE DEF e
      <4> QED
        BY <1>3, <2>6, <3>1
    <3> HIDE DEF q0, e
    <3>3. \E q \in 7 .. n + 1 : Mark(tx, q) /\ Len(e) = n + 1 - q
      BY <3>2
    <3> QED
      BY <3>3 DEF e
  <2> QED
    BY <1>3, <1>5, <1>6, <1>7, <2>1, <2>7 DEF BeforeFirst, N, T
<1>9. CASE reg' # Flag
  <2>1. /\ onFrame' = onFrame /\ Len(bits) \in Nat
        /\ (synced /\ Len(bits) < MaxFrameBits) => synced' /\ bits' = Append(bits, b)
        /\ ~(synced /\ Len(bits) < MaxFrameBits) => ~synced'
    BY <1>1, <1>4, <1>9, PushOther DEF T
  <2>2. ASSUME synced' PROVE \E q \in 7 .. n + 1 : Mark(tx, q) /\ Len(bits') = n + 1 - q
    <3>1. synced /\ bits' = Append(bits, b)
      BY <2>1, <2>2
    <3>2. PICK q \in 7 .. n : Mark(tx, q) /\ Len(bits) = n - q
      BY <3>1 DEF BeforeFirst
    <3>3. Len(bits') = Len(bits) + 1
      <4>1. bits \in Seq(Bit)
        BY <1>1 DEF DeframerType
      <4> QED
        BY <1>4, <3>1, <4>1, AppendProperties
    <3>4. q \in 7 .. n + 1 /\ Len(bits') = n + 1 - q
      BY <1>3, <3>2, <3>3
    <3> QED
      BY <3>2, <3>4
  <2>3. onFrame' = <<>>
    BY <1>1, <2>1
  <2> QED
    BY <1>3, <1>5, <1>6, <1>7, <2>2, <2>3 DEF BeforeFirst, N, T
<1> QED
  BY <1>8, <1>9

\* The last bit of the first flag.
LEMMA PushFirst ==
    ASSUME NEW tx \in Transmissions, BeforeFirst(tx, Len(tx.noise) + 8),
           PushLogical(Text(tx)[Len(tx.noise) + 9])
    PROVE  Between(tx, 0, Len(tx.noise) + 9)'
<1> DEFINE N == Len(tx.noise)
           T == Text(tx)
           n == N + 9
           b == T[N + 9]
<1>1. /\ DeframerType /\ onFrame = <<>>
      /\ \A k \in 0 .. 7 : N + 8 - k >= N + 2 => reg[8 - k] = T[N + 8 - k]
  BY DEF BeforeFirst
<1>2. /\ N \in Nat /\ n \in 1 .. Len(T) /\ Start(tx, 0) = n /\ Len(T) \in Nat
      /\ FlagAt(tx, n) /\ 0 \in 0 .. Len(tx.bodies)
      /\ (0 < Len(tx.bodies) => n < Start(tx, 1))
  <2>1. N \in Nat /\ Len(tx.bodies) \in Nat /\ Start(tx, 0) = n
    BY TransmissionIs DEF TextIs
  <2>2. 0 \in 0 .. Len(tx.bodies) /\ Len(tx.bodies) \in 0 .. Len(tx.bodies)
    BY <2>1
  <2> DEFINE e == Start(tx, Len(tx.bodies))
  <2>3. FlagAt(tx, n) /\ n <= e /\ Len(T) = e + 2 /\ Len(T) \in Nat
    BY <2>1, <2>2, StartIsIn
  <2>4. e \in Nat
    BY <2>2, StartIsIn
  <2>5. ASSUME 0 < Len(tx.bodies) PROVE n < Start(tx, 1)
    <3>1. 0 \in 0 .. Len(tx.bodies) - 1 /\ 0 + 1 = 1
      BY <2>1, <2>5
    <3> DEFINE l == Len(Content(tx.bodies[0 + 1]))
    <3>2. Start(tx, 0 + 1) = Start(tx, 0) + l + 8 /\ l \in Nat
      BY <3>1, MessageIn
    <3> HIDE DEF l, N
    <3> QED
      BY <2>1, <3>1, <3>2
  <2> HIDE DEF e, T
  <2>6. n \in 1 .. Len(T)
    BY <2>1, <2>3, <2>4
  <2> QED
    BY <2>1, <2>2, <2>3, <2>5, <2>6
<1>3. b \in Bit
  BY <1>2, BitOf
<1>4. /\ DeframerType'
      /\ reg'[8] = b /\ \A k \in 1 .. 7 : reg'[8 - k] = reg[8 - (k - 1)]
  BY <1>1, <1>3, PushIs
<1> HIDE DEF N, T
<1>5. ASSUME NEW k \in 0 .. 7 PROVE reg'[8 - k] = T[n - k]
  <2>1. CASE k = 0
    <3>1. 8 - k = 8 /\ n - k = N + 9
      BY <1>2, <2>1
    <3> QED
      BY <1>4, <3>1
  <2>2. CASE k # 0
    <3>1. k \in 1 .. 7 /\ k - 1 \in 0 .. 7 /\ N + 8 - (k - 1) = n - k /\ N + 8 - (k - 1) >= N + 2
      BY <1>2, <2>2
    <3> QED
      BY <1>1, <1>4, <3>1
  <2> QED
    BY <2>1, <2>2
<1>6. RegAt(tx, n)'
  BY <1>5 DEF RegAt, T
<1>7. reg' = Flag
  BY <1>2, <1>4, <1>6, RegFlag
<1>8. onFrame' = <<>>
  <2>1. PushLogical(b)
    BY DEF T, N
  <2>2. BeforeFirst(tx, N + 8)
    BY DEF N
  <2> QED
    BY <1>3, <1>7, <2>1, <2>2, NothingYet
<1>9. synced' /\ bits' = <<>>
  <2>1. PushLogical(b)
    BY DEF T, N
  <2> QED
    BY <1>1, <1>3, <1>7, <2>1, PushFlag
<1>10. Handed(First(tx.bodies, 0)) = <<>>
  BY TransmissionIs, FirstAll, HandedIs
<1>11. Inside(tx, 0, n)
  <2>1. n \in n .. Len(T)
    BY <1>2
  <2> QED
    BY <1>2, <2>1 DEF Inside, T
<1>12. n - Start(tx, 0) = 0 /\ ~(0 > MaxFrameBits)
  BY <1>2, ChannelAssumption
<1>13. Len(bits') = 0 /\ \A x \in 1 .. Len(bits') : FALSE
  <2> DEFINE e == bits'
  <2>1. Len(e) = 0
    BY <1>9
  <2> HIDE DEF e
  <2>2. Len(e) = 0 /\ \A x \in 1 .. Len(e) : FALSE
    BY <2>1
  <2> QED
    BY <2>2 DEF e
<1> HIDE DEF n
<1>14. Between(tx, 0, n)'
  BY <1>4, <1>6, <1>8, <1>9, <1>10, <1>11, <1>12, <1>13 DEF Between
<1> QED
  BY <1>14 DEF n, N

\* The bits up to the flag are the message.
LEMMA MessageWhole ==
    ASSUME NEW q \in Seq(Bit), NEW C \in Seq(Bit), Len(q) = Len(C) + 7, NEW b \in Bit,
           \A x \in 1 .. Len(C) : q[x] = C[x]
    PROVE  SubSeq(Append(q, b), 1, Len(q) - 7) = C
<1> DEFINE more == Append(q, b)
           l == Len(C)
           s == SubSeq(more, 1, l)
<1>1. /\ more \in Seq(Bit) /\ Len(more) = Len(q) + 1
      /\ \A i \in 1 .. Len(q) : more[i] = q[i]
  BY AppendProperties
<1>2. l \in Nat /\ Len(q) = l + 7
  OBVIOUS
<1> HIDE DEF more, l
<1>3. \A x \in 1 .. l : x \in 1 .. Len(q) /\ x \in 1 .. Len(more)
  BY <1>1, <1>2
<1>4. \A x \in 1 .. l : more[x] \in Bit
  BY <1>1, <1>3, ElementOfSeq
<1>5. /\ s \in Seq(Bit) /\ Len(s) = IF 1 <= l THEN l - 1 + 1 ELSE 0
      /\ \A x \in 1 .. l - 1 + 1 : s[x] = more[1 + x - 1]
  <2>1. 1 \in Int /\ l \in Int
    BY <1>2
  <2> QED
    BY <1>4, <2>1, SubSeqProperties
<1> HIDE DEF s
<1>6. Len(s) = l
  BY <1>2, <1>5
<1>7. ASSUME NEW x \in 1 .. Len(s) PROVE s[x] = C[x]
  <2>1. x \in 1 .. l - 1 + 1 /\ 1 + x - 1 = x /\ x \in 1 .. l
    BY <1>2, <1>6
  <2> QED
    BY <1>1, <1>3, <1>5, <2>1 DEF l
<1>8. s = C
  BY <1>5, <1>6, <1>7, SeqEqual DEF l
<1>9. Len(q) - 7 = l
  BY <1>2
<1> QED
  BY <1>8, <1>9 DEF s, more

\* A bit of a message or of the flag behind it, at whose end the message is handed up
\* if it is not too long.
LEMMA PushBetween ==
    ASSUME NEW tx \in Transmissions, NEW i, NEW n, Between(tx, i, n), n < Len(Text(tx)),
           PushLogical(Text(tx)[n + 1])
    PROVE  \E j : Between(tx, j, n + 1)'
<1> DEFINE T == Text(tx)
           s == Start(tx, i)
           b == T[n + 1]
           M == Len(tx.bodies)
           l == Len(bits)
<1>1. /\ i \in 0 .. M /\ n \in s .. Len(T) /\ (i < M => n < Start(tx, i + 1))
      /\ DeframerType /\ RegAt(tx, n)
      /\ onFrame = Handed(First(tx.bodies, i))
      /\ n - s <= MaxFrameBits => synced /\ l = n - s /\ \A x \in 1 .. l : bits[x] = T[s + x]
      /\ n - s > MaxFrameBits => ~synced
  BY DEF Between, Inside
<1>2. M \in Nat /\ s \in Nat /\ s >= 9 /\ Len(T) \in Nat
  <2>1. M \in Nat /\ s \in Nat /\ s >= Len(tx.noise) + 9 /\ Len(tx.noise) \in Nat /\ Len(T) \in Nat
    BY <1>1, StartIsIn
  <2> QED
    BY <2>1
<1>3. n \in Nat /\ n >= s /\ n + 1 \in 1 .. Len(T) /\ n + 1 \in s .. Len(T) /\ n + 1 # s
  BY <1>1, <1>2
<1>4. b \in Bit
  BY <1>3, BitOf
<1>5. /\ DeframerType'
      /\ reg'[8] = b /\ \A k \in 1 .. 7 : reg'[8 - k] = reg[8 - (k - 1)]
  BY <1>1, <1>4, PushIs
<1>6. RegAt(tx, n + 1)'
  <2>1. ASSUME NEW k \in 0 .. 7 PROVE reg'[8 - k] = T[(n + 1) - k]
    <3> HIDE DEF T
    <3>1. CASE k = 0
      <4>1. 8 - k = 8 /\ (n + 1) - k = n + 1
        BY <1>3, <3>1
      <4> QED
        BY <1>5, <4>1
    <3>2. CASE k # 0
      <4>1. k \in 1 .. 7 /\ k - 1 \in 0 .. 7 /\ n - (k - 1) = (n + 1) - k
        BY <1>3, <3>2
      <4>2. reg[8 - (k - 1)] = T[n - (k - 1)]
        BY <1>1, <4>1 DEF RegAt, T
      <4> QED
        BY <1>5, <4>1, <4>2
    <3> QED
      BY <3>1, <3>2
  <2> DEFINE p == n + 1
  <2>2. \A k \in 0 .. 7 : reg'[8 - k] = Text(tx)[p - k]
    BY <2>1
  <2> HIDE DEF p
  <2>3. RegAt(tx, p)'
    BY <2>2 DEF RegAt
  <2> QED
    BY <2>3 DEF p
<1>7. reg' = Flag <=> FlagAt(tx, n + 1)
  BY <1>5, <1>6, RegFlag
<1>8. l \in Nat /\ bits \in Seq(Bit) /\ MaxFrameBits \in Nat
  <2>1. bits \in Seq(Bit)
    BY <1>1 DEF DeframerType
  <2> QED
    BY <2>1, ChannelAssumption
<1>9. PushLogical(b)
  OBVIOUS
<1> HIDE DEF T, s, b, M, l
<1>10. CASE i < M /\ n + 1 = Start(tx, i + 1)
  <2> DEFINE m == tx.bodies[i + 1]
             C == Content(m)
             e == Start(tx, i + 1)
             c == Len(C)
  <2>1. i \in 0 .. M - 1 /\ i + 1 \in 0 .. M
    BY <1>1, <1>2, <1>10
  <2>2. /\ m \in Message /\ MinFrameBits <= Len(m) + 16 /\ C \in Seq(Bit) /\ c \in Nat
        /\ e = s + c + 8 /\ \A j \in 1 .. c : T[s + j] = C[j]
    BY <2>1, MessageIn DEF T, s, M
  <2>3. /\ FlagAt(tx, e) /\ e \in Nat
        /\ e <= Start(tx, M) /\ Len(T) = Start(tx, M) + 2
    BY <2>1, StartIsIn DEF T, M
  <2>4. reg' = Flag
    BY <1>7, <1>10, <2>3
  <2>5. /\ synced' /\ bits' = <<>>
        /\ (~synced \/ l < 7) => onFrame' = onFrame
        /\ (synced /\ l >= 7) => onFrame' = Handle(SubSeq(Append(bits, b), 1, l - 7))
    BY <1>1, <1>4, <1>9, <2>4, PushFlag DEF l
  <2>6. Handed(First(tx.bodies, i + 1)) = Delivered(onFrame, m)
    <3>1. First(tx.bodies, i + 1) = Append(First(tx.bodies, i), m)
      BY <2>1, TransmissionIs, FirstNext DEF M
    <3>2. First(tx.bodies, i) \in Seq(Message)
      BY <1>1, TransmissionIs, FirstIs DEF M
    <3> QED
      BY <1>1, <2>2, <3>1, <3>2, HandedIs
  <2> HIDE DEF m, e, c
  <2>7. n - s = c + 7
    BY <1>2, <1>3, <1>10, <2>2, <2>3 DEF e
  <2>8. onFrame' = Delivered(onFrame, m)
    <3>1. CASE n - s <= MaxFrameBits
      <4>1. synced /\ l = c + 7 /\ \A x \in 1 .. c : bits[x] = C[x]
        <5>1. synced /\ l = n - s /\ \A x \in 1 .. l : bits[x] = T[s + x]
          BY <1>1, <3>1
        <5>2. \A x \in 1 .. c : x \in 1 .. l
          BY <2>2, <2>7, <5>1
        <5> QED
          BY <2>2, <2>7, <5>1, <5>2
      <4>2. SubSeq(Append(bits, b), 1, l - 7) = C
        BY <1>4, <1>8, <2>2, <4>1, MessageWhole DEF l, c
      <4>3. Handle(SubSeq(Append(bits, b), 1, l - 7)) = Append(onFrame, m)
        BY <2>2, <4>2, HandleMessage
      <4>4. l >= 7
        BY <2>2, <4>1
      <4>5. Len(Content(m)) + 7 <= MaxFrameBits
        BY <2>7, <3>1 DEF c
      <4> QED
        BY <2>5, <4>1, <4>3, <4>4, <4>5 DEF Delivered
    <3>2. CASE ~(n - s <= MaxFrameBits)
      <4>1. ~synced
        BY <1>1, <1>2, <1>3, <1>8, <3>2
      <4>2. ~(Len(Content(m)) + 7 <= MaxFrameBits)
        BY <2>7, <3>2 DEF c
      <4> QED
        BY <2>5, <4>1, <4>2 DEF Delivered
    <3> QED
      BY <3>1, <3>2
  <2>9. Inside(tx, i + 1, e)
    <3>1. ASSUME i + 1 < M PROVE e < Start(tx, i + 1 + 1)
      <4> DEFINE d == Len(Content(tx.bodies[i + 1 + 1]))
                 f == Start(tx, i + 1 + 1)
      <4>1. i + 1 \in 0 .. M - 1
        BY <1>2, <2>1, <3>1
      <4>2. f = e + d + 8 /\ d \in Nat
        BY <4>1, MessageIn DEF e, M
      <4> HIDE DEF d, f
      <4>3. e < f
        BY <2>3, <4>2 DEF e
      <4> QED
        BY <4>3 DEF f
    <3>2. e \in e .. Len(T)
      <4>1. e = n + 1
        BY <1>10 DEF e
      <4> QED
        BY <1>2, <1>3, <4>1
    <3> QED
      BY <2>1, <3>1, <3>2 DEF Inside, e, T, M
  <2>10. e - Start(tx, i + 1) = 0 /\ ~(0 > MaxFrameBits)
    BY <1>8, <2>3 DEF e
  <2>11. Len(bits') = 0 /\ \A x \in 1 .. Len(bits') : FALSE
    <3> DEFINE w == bits'
    <3>1. Len(w) = 0
      BY <2>5
    <3> HIDE DEF w
    <3>2. Len(w) = 0 /\ \A x \in 1 .. Len(w) : FALSE
      BY <3>1
    <3> QED
      BY <3>2 DEF w
  <2>12. RegAt(tx, e)'
    BY <1>6, <1>10 DEF e
  <2>13. Between(tx, i + 1, e)'
    BY <1>5, <2>5, <2>6, <2>8, <2>9, <2>10, <2>11, <2>12 DEF Between
  <2> QED
    BY <1>10, <2>13 DEF e
<1>11. CASE ~(i < M /\ n + 1 = Start(tx, i + 1))
  <2>1. Inside(tx, i, n + 1)
    <3>1. ASSUME i < M PROVE n + 1 < Start(tx, i + 1)
      <4> DEFINE e == Start(tx, i + 1)
      <4>1. n < e /\ n + 1 # e
        BY <1>1, <1>11, <3>1
      <4>2. e \in Nat
        <5>1. i + 1 \in 0 .. M
          BY <1>1, <1>2, <3>1
        <5> QED
          BY <5>1, StartIsIn DEF M
      <4> HIDE DEF e
      <4>3. n + 1 < e
        BY <1>3, <4>1, <4>2
      <4> QED
        BY <4>3 DEF e
    <3> QED
      BY <1>1, <1>3, <3>1 DEF Inside, T, s, M
  <2>2. reg' # Flag
    BY <1>3, <1>7, <2>1, NoFalseFlag DEF s
  <2>3. /\ onFrame' = onFrame
        /\ (synced /\ l < MaxFrameBits) => synced' /\ bits' = Append(bits, b)
        /\ ~(synced /\ l < MaxFrameBits) => ~synced'
    BY <1>1, <1>4, <1>9, <2>2, PushOther DEF l
  <2>4. ASSUME (n + 1) - s <= MaxFrameBits
        PROVE  /\ synced' /\ Len(bits') = (n + 1) - s
               /\ \A x \in 1 .. Len(bits') : bits'[x] = T[s + x]
    <3>1. n - s <= MaxFrameBits /\ n - s < MaxFrameBits
      BY <1>2, <1>3, <1>8, <2>4
    <3>2. synced /\ l = n - s /\ \A x \in 1 .. l : bits[x] = T[s + x]
      BY <1>1, <3>1
    <3>3. synced' /\ bits' = Append(bits, b)
      BY <2>3, <3>1, <3>2
    <3> DEFINE w == Append(bits, b)
    <3>4. Len(w) = l + 1 /\ w[l + 1] = b /\ \A x \in 1 .. l : w[x] = bits[x]
      BY <1>4, <1>8, AppendProperties DEF l
    <3> HIDE DEF w
    <3>5. Len(w) = (n + 1) - s
      BY <1>2, <1>3, <3>2, <3>4
    <3>6. ASSUME NEW x \in 1 .. Len(w) PROVE w[x] = T[s + x]
      <4>1. CASE x = l + 1
        <5>1. s + x = n + 1
          BY <1>2, <1>3, <3>2, <4>1
        <5> QED
          BY <3>4, <4>1, <5>1 DEF b
      <4>2. CASE x # l + 1
        <5>1. x \in 1 .. l
          BY <1>8, <3>4, <4>2
        <5> QED
          BY <3>2, <3>4, <5>1
      <4> QED
        BY <4>1, <4>2
    <3> QED
      BY <3>3, <3>5, <3>6 DEF w
  <2>5. ASSUME (n + 1) - s > MaxFrameBits PROVE ~synced'
    <3>1. CASE n - s > MaxFrameBits
      BY <1>1, <2>3, <3>1
    <3>2. CASE ~(n - s > MaxFrameBits)
      <4>1. n - s <= MaxFrameBits /\ ~(n - s < MaxFrameBits)
        BY <1>2, <1>3, <1>8, <2>5, <3>2
      <4>2. l = n - s
        BY <1>1, <4>1
      <4> QED
        BY <2>3, <4>1, <4>2
    <3> QED
      BY <3>1, <3>2
  <2>6. onFrame' = Handed(First(tx.bodies, i))
    BY <1>1, <2>3
  <2>7. Between(tx, i, n + 1)'
    <3>1. (n + 1) - Start(tx, i) <= MaxFrameBits =>
             /\ synced' /\ Len(bits') = (n + 1) - Start(tx, i)
             /\ \A x \in 1 .. Len(bits') : bits'[x] = Text(tx)[Start(tx, i) + x]
      BY <2>4 DEF T, s
    <3>2. (n + 1) - Start(tx, i) > MaxFrameBits => ~synced'
      BY <2>5 DEF s
    <3> DEFINE p == n + 1
    <3>3. /\ DeframerType' /\ RegAt(tx, p)' /\ Inside(tx, i, p)
          /\ p - Start(tx, i) <= MaxFrameBits =>
                /\ synced' /\ Len(bits') = p - Start(tx, i)
                /\ \A x \in 1 .. Len(bits') : bits'[x] = Text(tx)[Start(tx, i) + x]
          /\ p - Start(tx, i) > MaxFrameBits => ~synced'
      BY <1>5, <1>6, <2>1, <3>1, <3>2
    <3> HIDE DEF p
    <3>4. Between(tx, i, p)'
      BY <2>6, <3>3 DEF Between
    <3> QED
      BY <3>4 DEF p
  <2> QED
    BY <2>7
<1> QED
  BY <1>10, <1>11

\* In short: every bit leaves the deframer where the next one finds it.
LEMMA PushKeeps ==
    ASSUME NEW tx \in Transmissions, NEW n, Deframed(tx, n), n < Len(Text(tx)),
           PushLogical(Text(tx)[n + 1])
    PROVE  Deframed(tx, n + 1)'
<1>1. CASE BeforeFirst(tx, n)
  <2>1. n \in 1 .. Len(tx.noise) + 8 /\ Len(tx.noise) \in Nat
    BY <1>1, TransmissionIs DEF BeforeFirst, TextIs
  <2>2. CASE n < Len(tx.noise) + 8
    BY <1>1, <2>2, PushBefore DEF Deframed
  <2>3. CASE n = Len(tx.noise) + 8
    <3>1. n + 1 = Len(tx.noise) + 9
      BY <2>1, <2>3
    <3>2. Between(tx, 0, n + 1)'
      BY <1>1, <2>3, <3>1, PushFirst
    <3> QED
      BY <3>2 DEF Deframed
  <2> QED
    BY <2>1, <2>2, <2>3
<1>2. CASE \E i : Between(tx, i, n)
  BY <1>2, PushBetween DEF Deframed
<1> QED
  BY <1>1, <1>2 DEF Deframed

-----------------------------------------------------------------------------
(* The bit clock                                                            *)

\* The line of a transmission: a one is where it stays.
OnAir(tx) ==
    /\ air \in Seq(Bit) /\ Len(air) = Len(Text(tx)) /\ Len(air) \in Nat
    /\ Len(tx.noise) \in Nat /\ Len(tx.noise) + 11 <= Len(air)
    /\ \A i \in 1 .. Len(air) : air[i] \in Bit /\ Text(tx)[i] \in Bit
    /\ \A i \in 2 .. Len(air) : air[i] = air[i - 1] <=> Text(tx)[i] = 1
    /\ Text(tx)[Len(tx.noise) + 2] = 0

\* NRZI in terms of neighbours.
LEMMA SentOnAir ==
    ASSUME NEW tx \in Transmissions, air = Line(tx.noise, tx.bodies)
    PROVE  OnAir(tx)
<1> DEFINE T == Text(tx)
           N == Len(tx.noise)
           M == Len(tx.bodies)
<1>1. T \in Seq(Bit) /\ Len(T) \in Nat
  BY TransmissionIs DEF TextIs
<1>2. air = Nrzi(T)
  BY DEF Line, Text
<1>3. air \in Seq(Bit) /\ Len(air) = Len(T) /\ \A i \in 2 .. Len(T) : air[i] = air[i - 1] <=> T[i] = 1
  BY <1>1, <1>2, LineIs
<1>4. \A i \in 1 .. Len(T) : air[i] \in Bit /\ T[i] \in Bit
  BY <1>1, <1>3, ElementOfSeq
<1>5. N \in Nat /\ M \in Nat /\ Start(tx, 0) = N + 9 /\ Len(T) = Start(tx, M) + 2
  BY TransmissionIs DEF TextIs
<1>6. 0 \in 0 .. M /\ M \in 0 .. M
  BY <1>5
<1>7. FlagAt(tx, N + 9)
  BY <1>5, <1>6, StartIsIn
<1>8. Start(tx, 0) <= Start(tx, M) /\ Start(tx, M) \in Nat
  BY <1>6, StartIsIn
<1> HIDE DEF T, N, M
<1>9. N + 11 <= Len(T)
  <2> DEFINE e == Start(tx, M)
  <2>1. N + 9 <= e /\ e \in Nat /\ Len(T) = e + 2
    BY <1>5, <1>8
  <2> HIDE DEF e
  <2> QED
    BY <1>5, <2>1
<1>10. T[N + 2] = 0
  <2>1. 7 \in 0 .. 7 /\ 8 - 7 = 1 /\ (N + 9) - 7 = N + 2
    BY <1>5
  <2>2. T[(N + 9) - 7] = Flag[8 - 7]
    BY <1>7, <2>1 DEF FlagAt, T, N
  <2> QED
    BY <2>1, <2>2, FlagBits
<1> QED
  BY <1>1, <1>3, <1>4, <1>5, <1>9, <1>10 DEF OnAir, T, N

\* d samples of the symbol in the air are over.
Symbol(d) ==
    /\ d \in Nat /\ left \in Nat \ {0} /\ at \in 1 .. Len(air) + 1
    /\ Sps < 2 * (d + left) /\ 2 * (d + left) < 3 * Sps
    /\ ~EdgeAfter(at) => d + left = Sps
    /\ at > Len(air) => d = 0

Late == late \in Jitters \cup {0}

Advance ==
    /\ IF left > 1 THEN left' = left - 1 /\ UNCHANGED <<at, late>>
       ELSE /\ at' = at + 1
            /\ \E l \in IF EdgeAfter(at + 1) THEN Jitters ELSE {late} :
                   left' = Sps + l - late /\ late' = l
    /\ UNCHANGED <<air, sending>>

\* The next sample is of the same symbol, or the first of the next one; only a
\* symbol before an edge is longer or shorter than the others.
LEMMA AdvanceIs ==
    ASSUME NEW d, Symbol(d), Late, at <= Len(air), Len(air) \in Nat, Advance
    PROVE  /\ Late' /\ air' = air /\ d \in Nat
           /\ \/ Symbol(d + 1)' /\ at' = at
              \/ /\ Symbol(0)' /\ at' = at + 1
                 /\ Sps < 2 * (d + 1) /\ 2 * (d + 1) < 3 * Sps
                 /\ ~EdgeAfter(at) => d + 1 = Sps
<1>1. /\ d \in Nat /\ left \in Nat \ {0} /\ at \in 1 .. Len(air)
      /\ Sps < 2 * (d + left) /\ 2 * (d + left) < 3 * Sps
      /\ ~EdgeAfter(at) => d + left = Sps
  BY DEF Symbol
<1>2. air' = air
  BY DEF Advance
<1>3. CASE left > 1
  <2>1. left' = left - 1 /\ at' = at /\ late' = late
    BY <1>3 DEF Advance
  <2>2. left' \in Nat \ {0} /\ (d + 1) + left' = d + left /\ d + 1 \in Nat
    BY <1>1, <1>3, <2>1
  <2>3. EdgeAfter(at)' <=> EdgeAfter(at)
    BY <1>2, <2>1 DEF EdgeAfter
  <2>4. Symbol(d + 1)'
    BY <1>1, <1>2, <2>1, <2>2, <2>3 DEF Symbol
  <2> QED
    BY <1>1, <1>2, <2>1, <2>4 DEF Late
<1>4. CASE ~(left > 1)
  <2>1. left = 1
    BY <1>1, <1>4
  <2>2. at' = at + 1
    BY <1>4 DEF Advance
  <2>3. PICK l \in IF EdgeAfter(at + 1) THEN Jitters ELSE {late} : left' = Sps + l - late /\ late' = l
    BY <1>4 DEF Advance
  <2>4. EdgeAfter(at)' <=> EdgeAfter(at + 1)
    BY <1>2, <2>2 DEF EdgeAfter
  <2>5. l \in Jitters \cup {0} /\ late \in Jitters \cup {0}
    BY <2>3 DEF Late
  <2>6. /\ l \in Int /\ late \in Int /\ Sps \in Nat \ {0, 1}
        /\ 2 * (l - late) < Sps /\ 2 * (late - l) < Sps
    <3>1. Jitters \cup {0} \subseteq Int
      BY ChannelAssumption
    <3> QED
      BY <2>5, <3>1, ChannelAssumption
  <2>7. left' = Sps + (l - late)
    BY <2>3, <2>6
  <2>8. /\ left' \in Nat \ {0} /\ Sps < 2 * (0 + left') /\ 2 * (0 + left') < 3 * Sps
    BY <2>6, <2>7
  <2>9. ~EdgeAfter(at)' => 0 + left' = Sps
    BY <2>3, <2>4, <2>6, <2>7
  <2>10. Symbol(0)'
    BY <1>1, <1>2, <2>2, <2>8, <2>9 DEF Symbol
  <2>11. Late'
    BY <2>3, <2>5 DEF Late
  <2> QED
    BY <1>1, <1>2, <2>1, <2>2, <2>10, <2>11
<1> QED
  BY <1>3, <1>4

\* The last symbol heard.
SoFar(d) == IF d = 0 THEN at - 1 ELSE at

\* Half samples to the next middle, d samples after an edge or a whole symbol after it.
Phase(d) == Sps - 2 * d + (IF 2 * d >= Sps THEN 2 * Sps ELSE 0)

\* An edge was heard: each symbol gives the deframer its bit in the middle.
Locked(tx, d) ==
    /\ haveIQ /\ at >= 2 /\ prevBit = air[SoFar(d)]
    /\ (at <= Len(air) /\ (d > 0 \/ Text(tx)[at] = 1)) => phase = Phase(d)
    /\ \E n : /\ n = IF 2 * d >= Sps THEN at ELSE at - 1
              /\ prevLine = air[n] /\ Deframed(tx, n)

\* The same in the middle of a step.
LockedThen(tx, d) ==
    /\ haveIQ' /\ prevBit' = air[at] /\ phase' = Phase(d)
    /\ \E n : /\ n = IF 2 * d >= Sps THEN at ELSE at - 1
              /\ prevLine' = air[n] /\ Deframed(tx, n)'

\* A sample of a locked clock: at the middle of the symbol, and only there, its bit goes on.
LEMMA LockedSample ==
    ASSUME NEW tx \in Transmissions, OnAir(tx), NEW d, Symbol(d), Locked(tx, d),
           at <= Len(air), ProcessSample(air[at])
    PROVE  LockedThen(tx, d + 1)
<1> DEFINE T == Text(tx)
           a == air[at]
           z == air[at - 1]
<1>1. /\ d \in Nat /\ left \in Nat \ {0} /\ at \in 2 .. Len(air) /\ Len(air) \in Nat
      /\ 2 * (d + left) < 3 * Sps
  BY DEF Symbol, Locked, OnAir
<1>2. Sps \in Nat \ {0, 1}
  BY ChannelAssumption
<1>3. (a = z <=> T[at] = 1) /\ T[at] \in Bit /\ a \in Bit /\ z \in Bit
  <2>1. at \in 1 .. Len(air) /\ at - 1 \in 1 .. Len(air)
    BY <1>1
  <2> QED
    BY <1>1, <2>1 DEF OnAir
<1>4. \A x \in Bit : x # -1 /\ (x # 1 => x = 0)
  BY DEF Bit
<1> HIDE DEF T, a, z
<1>5. haveIQ /\ prevBit = air[SoFar(d)] /\ ((d > 0 \/ T[at] = 1) => phase = Phase(d))
  BY <1>1 DEF Locked, T
<1>6. Clock(a) = Phase(d)
  <2>1. CASE d = 0
    <3>1. prevBit = z
      BY <1>5, <2>1 DEF SoFar, z
    <3>2. Phase(d) = Sps
      BY <1>2, <2>1 DEF Phase
    <3>3. CASE T[at] = 1
      <4>1. phase = Phase(d) /\ a = prevBit
        BY <1>3, <1>5, <3>1, <3>3
      <4> QED
        BY <4>1 DEF Clock
    <3>4. CASE T[at] # 1
      <4>1. prevBit # -1 /\ a # prevBit
        BY <1>3, <1>4, <3>1, <3>4
      <4> QED
        BY <3>2, <4>1 DEF Clock
    <3> QED
      BY <3>3, <3>4
  <2>2. CASE d # 0
    <3>1. d > 0
      BY <1>1, <2>2
    <3>2. phase = Phase(d) /\ a = prevBit
      BY <1>5, <2>2, <3>1 DEF SoFar, a
    <3> QED
      BY <3>2 DEF Clock
  <2> QED
    BY <2>1, <2>2
<1>7. /\ prevBit' = a /\ haveIQ' = haveIQ
      /\ IF Phase(d) - 2 <= 0 THEN phase' = Phase(d) - 2 + 2 * Sps /\ PushLine(a)
         ELSE phase' = Phase(d) - 2 /\ UNCHANGED deframerVars
  <2>1. ProcessSample(a)
    BY DEF a
  <2> QED
    BY <1>5, <1>6, <2>1 DEF ProcessSample
<1>8. PICK n : n = (IF 2 * d >= Sps THEN at ELSE at - 1) /\ prevLine = air[n] /\ Deframed(tx, n)
  BY DEF Locked
<1>9. CASE 2 * d < Sps /\ 2 * (d + 1) >= Sps
  <2>1. Phase(d) = Sps - 2 * d /\ Phase(d + 1) = Sps - 2 * (d + 1) + 2 * Sps
    BY <1>1, <1>2, <1>9 DEF Phase
  <2>2. Phase(d) - 2 <= 0 /\ Phase(d) - 2 + 2 * Sps = Phase(d + 1)
    BY <1>1, <1>2, <1>9, <2>1
  <2>3. n = at - 1 /\ prevLine = z
    BY <1>1, <1>2, <1>8, <1>9 DEF z
  <2>4. prevLine' = a /\ PushLogical(IF a = prevLine THEN 1 ELSE 0)
    <3>1. PushLine(a) /\ prevLine # -1
      BY <1>3, <1>4, <1>7, <2>2, <2>3
    <3> QED
      BY <3>1 DEF PushLine
  <2>5. (IF a = prevLine THEN 1 ELSE 0) = T[at]
    BY <1>3, <1>4, <2>3
  <2>6. n + 1 = at /\ n < Len(T)
    <3>1. Len(T) = Len(air)
      BY DEF OnAir, T
    <3> QED
      BY <1>1, <2>3, <3>1
  <2>7. \E m : m = at /\ Deframed(tx, m)'
    <3>1. PushLogical(T[n + 1])
      BY <2>4, <2>5, <2>6
    <3>2. Deframed(tx, n + 1)'
      BY <1>8, <2>6, <3>1, PushKeeps DEF T
    <3> QED
      BY <2>6, <3>2
  <2>8. phase' = Phase(d + 1)
    BY <1>7, <2>2
  <2>9. PICK m : m = at /\ Deframed(tx, m)'
    BY <2>7
  <2>10. m = (IF 2 * (d + 1) >= Sps THEN at ELSE at - 1) /\ prevLine' = air[m]
    BY <1>9, <2>4, <2>9 DEF a
  <2> QED
    BY <1>5, <1>7, <2>8, <2>9, <2>10 DEF LockedThen, a
<1>10. CASE ~(2 * d < Sps /\ 2 * (d + 1) >= Sps)
  <2>1. Phase(d) - 2 > 0 /\ Phase(d) - 2 = Phase(d + 1)
    <3>1. CASE 2 * d >= Sps
      <4>1. Phase(d) = 3 * Sps - 2 * d /\ Phase(d + 1) = 3 * Sps - 2 * (d + 1)
        BY <1>1, <1>2, <3>1 DEF Phase
      <4> QED
        BY <1>1, <1>2, <4>1
    <3>2. CASE ~(2 * d >= Sps)
      <4>1. Phase(d) = Sps - 2 * d /\ Phase(d + 1) = Sps - 2 * (d + 1) /\ 2 * (d + 1) < Sps
        BY <1>1, <1>2, <1>10, <3>2 DEF Phase
      <4> QED
        BY <1>1, <1>2, <4>1
    <3> QED
      BY <3>1, <3>2
  <2>2. n = IF 2 * (d + 1) >= Sps THEN at ELSE at - 1
    BY <1>1, <1>2, <1>8, <1>10
  <2>3. phase' = Phase(d + 1) /\ UNCHANGED deframerVars
    <3>1. ~(Phase(d) - 2 <= 0)
      <4>1. Phase(d) \in Int
        BY <1>1, <1>2 DEF Phase
      <4> QED
        BY <2>1, <4>1
    <3> QED
      BY <1>7, <2>1, <3>1
  <2>4. prevLine' = air[n]
    BY <1>8, <2>3 DEF deframerVars
  <2>5. Deframed(tx, n)'
    BY <1>8, <2>3 DEF deframerVars, Deframed, BeforeFirst, Between, DeframerType, RegAt
  <2> QED
    BY <1>5, <1>7, <2>2, <2>3, <2>4, <2>5 DEF LockedThen, a
<1> QED
  BY <1>9, <1>10

\* A symbol that is not followed by an edge has its length; an edge sets the clock.
LEMMA LockedKeeps ==
    ASSUME NEW tx \in Transmissions, OnAir(tx), NEW d, Symbol(d), Late, Locked(tx, d),
           at <= Len(air), ProcessSample(air[at]), Advance
    PROVE  \E e : Symbol(e)' /\ Locked(tx, e)'
<1> DEFINE T == Text(tx)
<1>1. LockedThen(tx, d + 1)
  BY LockedSample
<1>2. PICK n : n = (IF 2 * (d + 1) >= Sps THEN at ELSE at - 1) /\ prevLine' = air[n] /\ Deframed(tx, n)'
  BY <1>1 DEF LockedThen
<1>3. haveIQ' /\ prevBit' = air[at] /\ phase' = Phase(d + 1)
  BY <1>1 DEF LockedThen
<1>4. /\ at \in 2 .. Len(air) /\ Len(air) \in Nat /\ d \in Nat /\ Sps \in Nat \ {0, 1}
  BY ChannelAssumption DEF Symbol, Locked, OnAir
<1>5. /\ air' = air
      /\ \/ Symbol(d + 1)' /\ at' = at
         \/ /\ Symbol(0)' /\ at' = at + 1 /\ Sps < 2 * (d + 1)
            /\ ~EdgeAfter(at) => d + 1 = Sps
  BY <1>4, AdvanceIs
<1>6. CASE Symbol(d + 1)' /\ at' = at
  <2>1. SoFar(d + 1)' = at
    BY <1>4, <1>6 DEF SoFar
  <2>2. /\ prevBit' = air'[SoFar(d + 1)'] /\ at' >= 2
        /\ n = (IF 2 * (d + 1) >= Sps THEN at' ELSE at' - 1) /\ prevLine' = air'[n]
    BY <1>2, <1>3, <1>4, <1>5, <1>6, <2>1
  <2>3. phase' = Phase(d + 1)
    BY <1>3
  <2>4. Locked(tx, d + 1)'
    BY <1>2, <1>3, <2>2, <2>3 DEF Locked, Phase
  <2> QED
    BY <1>6, <2>4
<1>7. CASE /\ Symbol(0)' /\ at' = at + 1 /\ Sps < 2 * (d + 1)
           /\ ~EdgeAfter(at) => d + 1 = Sps
  <2>1. SoFar(0)' = at
    BY <1>4, <1>7 DEF SoFar
  <2>2. n = at /\ n = (IF 2 * 0 >= Sps THEN at' ELSE at' - 1)
    BY <1>2, <1>4, <1>7
  <2>3. prevBit' = air'[SoFar(0)'] /\ at' >= 2 /\ prevLine' = air'[n]
    BY <1>2, <1>3, <1>4, <1>5, <1>7, <2>1
  <2>4. ASSUME at' <= Len(air'), T[at'] = 1 PROVE phase' = Phase(0)
    <3>1. at + 1 \in 2 .. Len(air) /\ T[at + 1] = 1 /\ (at + 1) - 1 = at
      BY <1>4, <1>5, <1>7, <2>4
    <3>2. air[at + 1] = air[at]
      BY <3>1 DEF OnAir, T
    <3>3. d + 1 = Sps
      BY <1>7, <3>2 DEF EdgeAfter
    <3>4. Phase(Sps) = Phase(0)
      BY <1>4 DEF Phase
    <3> QED
      BY <1>3, <3>3, <3>4
  <2>5. Locked(tx, 0)'
    BY <1>2, <1>3, <2>2, <2>3, <2>4 DEF Locked, T, Phase
  <2> QED
    BY <1>7, <2>5
<1> QED
  BY <1>5, <1>6, <1>7

-----------------------------------------------------------------------------
\* Since symbol k the line has stayed: j ones are counted, at most as many as symbols
\* have ended, and h samples are left to the next middle.
Counting(tx, k, h, j) ==
    /\ k \in 1 .. Len(tx.noise) + 1 /\ h \in 1 .. Sps /\ j \in Nat /\ phase = 2 * h
    /\ \A i \in 1 .. 8 : reg[i] = IF i + j > 8 THEN 1 ELSE 0
Stays(tx, k, l) == k <= l /\ \A x \in k + 1 .. l : Text(tx)[x] = 1
Pace(tx, d, k, h, j) ==
    IF d = 0 /\ Text(tx)[at] = 0 THEN 2 * (Sps * (j + 1) - h) < 2 * (Sps * (at - k)) + Sps
    ELSE Sps * (j + 1) - h <= Sps * (at - k) + d

\* No edge was heard: the clock is free, and the deframer gets ones.
Quieted == DeframerType /\ onFrame = <<>> /\ ~synced
Free(tx, d) ==
    /\ haveIQ /\ Quieted /\ prevLine = prevBit /\ prevBit = air[SoFar(d)]
    /\ \E k, h, j : Counting(tx, k, h, j) /\ Stays(tx, k, SoFar(d)) /\ Pace(tx, d, k, h, j)
FreeThen(tx, d) ==
    /\ haveIQ' /\ Quieted' /\ prevLine' = prevBit' /\ prevBit' = air[at]
    /\ \E k, h, j : /\ Counting(tx, k, h, j)' /\ Stays(tx, k, at)
                    /\ Sps * (j + 1) - h <= Sps * (at - k) + d

\* It stays no longer than to the first flag.
LEMMA StaysShort ==
    ASSUME NEW tx \in Transmissions, OnAir(tx), NEW k \in 1 .. Len(tx.noise) + 1, NEW l \in Nat,
           Stays(tx, k, l)
    PROVE  l <= Len(tx.noise) + 1
<1>1. Len(tx.noise) \in Nat /\ Text(tx)[Len(tx.noise) + 2] = 0
  BY DEF OnAir
<1> DEFINE N == Len(tx.noise)
<1> HIDE DEF N
<1>2. SUFFICES ASSUME l > N + 1 PROVE FALSE
  BY <1>1 DEF N
<1>3. N + 2 \in k + 1 .. l
  BY <1>1, <1>2 DEF N
<1>4. Text(tx)[N + 2] = 1
  BY <1>3 DEF Stays
<1> QED
  BY <1>1, <1>4 DEF N

LEMMA Times ==
    ASSUME NEW s \in Nat \ {0}, NEW x \in Int, NEW y \in Int
    PROVE  /\ s * x \in Int /\ s * (x + 1) = s * x + s
           /\ 2 * (s * x) < 2 * (s * y) + s => x <= y
<1>1. s * x \in Int /\ s * (x + 1) = s * x + s
  OBVIOUS
<1>2. ASSUME x > y PROVE s * x >= s * y + s
  <2>1. x = y + 1 + (x - y - 1) /\ x - y - 1 \in Nat
    BY <1>2
  <2>2. \A z \in Nat : s * (y + 1 + z) = s * y + s + s * z /\ s * z >= 0 /\ s * y \in Int /\ s * z \in Int
    OBVIOUS
  <2> QED
    BY <2>1, <2>2
<1>3. s * y \in Int
  OBVIOUS
<1> QED
  BY <1>1, <1>2, <1>3

\* An edge at last: what was counted is a beginning of noise.
LEMMA FreeLocks ==
    ASSUME NEW tx \in Transmissions, OnAir(tx), NEW d, d = 0, Symbol(d), Free(tx, d), Text(tx)[at] = 0
    PROVE  Locked(tx, d)
<1> DEFINE T == Text(tx)
           N == Len(tx.noise)
           n == at - 1
<1>1. PICK k, h, j : Counting(tx, k, h, j) /\ Stays(tx, k, SoFar(d)) /\ Pace(tx, d, k, h, j)
  BY DEF Free
<1>2. /\ N \in Nat /\ at \in Nat /\ at >= 1 /\ Sps \in Nat \ {0, 1}
      /\ k \in 1 .. N + 1 /\ h \in 1 .. Sps /\ j \in Nat
      /\ \A i \in 1 .. 8 : reg[i] = IF i + j > 8 THEN 1 ELSE 0
  BY <1>1, ChannelAssumption DEF OnAir, Symbol, Counting
<1>3. SoFar(d) = n /\ k <= n /\ n \in Nat
  BY <1>1, <1>2 DEF SoFar, Stays
<1>4. \A x \in k + 1 .. n : T[x] = 1
  BY <1>1, <1>3 DEF Stays
<1>5. n <= N + 1
  BY <1>1, <1>2, <1>3, StaysShort
<1>6. 2 * (Sps * (j + 1) - h) < 2 * (Sps * (at - k)) + Sps
  BY <1>1 DEF Pace
<1>7. j <= at - k
  <2> DEFINE y == at - k
  <2>1. y \in Int
    BY <1>2
  <2>2. /\ Sps * j \in Int /\ Sps * (j + 1) = Sps * j + Sps
        /\ 2 * (Sps * j) < 2 * (Sps * y) + Sps => j <= y
    BY <1>2, <2>1, Times
  <2>3. Sps * y \in Int
    BY <1>2, <2>1, Times
  <2> DEFINE u == Sps * j
             w == Sps * y
             v == Sps * (j + 1)
  <2>4. u \in Int /\ w \in Int /\ v = u + Sps /\ 2 * (v - h) < 2 * w + Sps /\ (2 * u < 2 * w + Sps => j <= y)
    BY <1>6, <2>2, <2>3
  <2> HIDE DEF u, v, w, y
  <2>5. j <= y
    BY <1>2, <2>4
  <2> QED
    BY <2>5 DEF y
<1> HIDE DEF T, N
<1>8. ASSUME NEW z \in 1 .. 6, \A i \in 0 .. z - 1 : reg[8 - i] = 1, NEW i \in 0 .. z - 2
      PROVE  T[n - i] = 1
  <2>1. j >= z
    <3>1. z - 1 \in 0 .. z - 1 /\ 8 - (z - 1) \in 1 .. 8
      OBVIOUS
    <3>2. reg[8 - (z - 1)] = 1
      BY <1>8, <3>1
    <3>3. 8 - (z - 1) + j > 8
      BY <1>2, <3>1, <3>2
    <3> QED
      BY <1>2, <3>3
  <2>2. n - i \in k + 1 .. n
    BY <1>2, <1>7, <2>1
  <2> QED
    BY <1>4, <2>2
<1>9. ASSUME NEW i \in 0 .. 7, n - i >= N + 2 PROVE FALSE
  BY <1>2, <1>5, <1>9
<1>10. Quieted
  BY DEF Free
<1>11. BeforeFirst(tx, n)
  <2>1. n \in 1 .. N + 8
    BY <1>2, <1>3, <1>5
  <2> HIDE DEF n
  <2> QED
    BY <1>8, <1>9, <1>10, <2>1 DEF BeforeFirst, Quieted, N, T
<1>12. /\ haveIQ /\ prevBit = air[SoFar(d)] /\ prevLine = air[n] /\ at >= 2
  BY <1>2, <1>3 DEF Free
<1>13. n = IF 2 * d >= Sps THEN at ELSE at - 1
  BY <1>2
<1>14. ~(at <= Len(air) /\ (d > 0 \/ Text(tx)[at] = 1))
  OBVIOUS
<1> HIDE DEF n
<1>15. \E m : m = (IF 2 * d >= Sps THEN at ELSE at - 1) /\ prevLine = air[m] /\ Deframed(tx, m)
  BY <1>11, <1>12, <1>13 DEF Deframed
<1> QED
  BY <1>12, <1>14, <1>15 DEF Locked

\* A sample of a free clock: a one at the most.
LEMMA FreeSample ==
    ASSUME NEW tx \in Transmissions, OnAir(tx), NEW d, Symbol(d), Free(tx, d),
           ~(d = 0 /\ Text(tx)[at] = 0), at <= Len(air), ProcessSample(air[at])
    PROVE  FreeThen(tx, d + 1)
<1> DEFINE T == Text(tx)
           a == air[at]
<1>1. PICK k, h, j : Counting(tx, k, h, j) /\ Stays(tx, k, SoFar(d)) /\ Pace(tx, d, k, h, j)
  BY DEF Free
<1>2. /\ at \in 1 .. Len(air) /\ Len(air) \in Nat /\ d \in Nat /\ Sps \in Nat \ {0, 1}
      /\ k \in Nat /\ k >= 1 /\ k \in 1 .. Len(tx.noise) + 1
      /\ h \in 1 .. Sps /\ j \in Nat /\ phase = 2 * h
      /\ \A i \in 1 .. 8 : reg[i] = IF i + j > 8 THEN 1 ELSE 0
  BY <1>1, ChannelAssumption DEF OnAir, Symbol, Counting
<1>3. k <= SoFar(d) /\ (\A x \in k + 1 .. SoFar(d) : T[x] = 1) /\ SoFar(d) \in Nat
  BY <1>1, <1>2 DEF Stays, SoFar
<1>4. haveIQ /\ DeframerType /\ onFrame = <<>> /\ ~synced /\ prevLine = prevBit /\ prevBit = air[SoFar(d)]
  BY DEF Free, Quieted
<1>5. a \in Bit /\ T[at] \in Bit
  BY <1>2 DEF OnAir
<1>6. \A x \in Bit : x # -1 /\ (x # 0 => x = 1)
  BY DEF Bit
<1>7. prevBit = a /\ Stays(tx, k, at)
  <2>1. CASE d = 0
    <3>1. T[at] = 1
      BY <1>5, <1>6, <2>1
    <3>2. SoFar(d) = at - 1
      BY <2>1 DEF SoFar
    <3>3. at \in 2 .. Len(air)
      BY <1>2, <1>3, <3>2
    <3>4. air[at] = air[at - 1]
      BY <3>1, <3>3 DEF OnAir
    <3>5. ASSUME NEW x \in k + 1 .. at PROVE T[x] = 1
      <4>1. x = at \/ x \in k + 1 .. at - 1
        BY <1>2
      <4> QED
        BY <1>3, <3>1, <3>2, <4>1
    <3>6. k <= at
      BY <1>2, <1>3, <3>2
    <3> QED
      BY <1>4, <3>2, <3>4, <3>5, <3>6 DEF Stays
  <2>2. CASE d # 0
    <3>1. SoFar(d) = at
      BY <2>2 DEF SoFar
    <3> QED
      BY <1>1, <1>4, <3>1
  <2> QED
    BY <2>1, <2>2
<1> DEFINE u == Sps * (j + 1)
           w == Sps * (at - k)
<1>8. u - h <= w + d
  BY <1>1 DEF Pace
<1>9. u \in Int /\ w \in Int /\ Sps * (j + 1 + 1) = u + Sps
  <2>1. at - k \in Int /\ j + 1 \in Int
    BY <1>2
  <2> QED
    BY <1>2, <2>1, Times
<1> HIDE DEF T, a, u, w
<1>10. Clock(a) = 2 * h
  BY <1>2, <1>7 DEF Clock
<1>11. /\ prevBit' = a /\ haveIQ' = haveIQ
       /\ IF 2 * h - 2 <= 0 THEN phase' = 2 * h - 2 + 2 * Sps /\ PushLine(a)
          ELSE phase' = 2 * h - 2 /\ UNCHANGED deframerVars
  <2>1. ProcessSample(a)
    BY DEF a
  <2> QED
    BY <1>4, <1>10, <2>1 DEF ProcessSample
<1>12. CASE h = 1
  <2>1. phase' = 2 * Sps /\ PushLine(a)
    BY <1>2, <1>11, <1>12
  <2>2. prevLine' = a /\ PushLogical(1)
    BY <1>4, <1>5, <1>6, <1>7, <2>1 DEF PushLine
  <2>3. 1 \in Bit
    BY DEF Bit
  <2>4. DeframerType' /\ reg'[8] = 1 /\ \A i \in 1 .. 7 : reg'[8 - i] = reg[8 - (i - 1)]
    BY <1>4, <2>2, <2>3, PushIs
  <2>5. reg' # Flag
    BY <2>4, FlagBits
  <2>6. onFrame' = <<>> /\ ~synced'
    BY <1>4, <2>2, <2>3, <2>5, PushOther
  <2>7. ASSUME NEW i \in 1 .. 8 PROVE reg'[i] = IF i + (j + 1) > 8 THEN 1 ELSE 0
    <3>1. CASE i = 8
      BY <1>2, <2>4, <3>1
    <3>2. CASE i # 8
      <4>1. 8 - i \in 1 .. 7 /\ 8 - (8 - i) = i /\ 8 - ((8 - i) - 1) = i + 1 /\ i + 1 \in 1 .. 8
        BY <3>2
      <4>2. reg'[8 - (8 - i)] = reg[8 - ((8 - i) - 1)]
        BY <2>4, <4>1
      <4>3. reg'[i] = reg[i + 1]
        BY <4>1, <4>2
      <4>4. (i + 1) + j > 8 <=> i + (j + 1) > 8
        BY <1>2
      <4> QED
        BY <1>2, <4>1, <4>3, <4>4
    <3> QED
      BY <3>1, <3>2
  <2>8. Sps * (j + 1 + 1) - Sps <= Sps * (at - k) + (d + 1)
    BY <1>2, <1>8, <1>9, <1>12 DEF w
  <2>9. Counting(tx, k, Sps, j + 1)'
    <3>1. Sps \in 1 .. Sps /\ j + 1 \in Nat
      BY <1>2
    <3> QED
      BY <1>2, <2>1, <2>7, <3>1 DEF Counting
  <2>10. haveIQ' /\ Quieted' /\ prevLine' = prevBit' /\ prevBit' = air[at]
    BY <1>4, <1>11, <2>2, <2>4, <2>6 DEF Quieted, a
  <2> QED
    BY <1>7, <2>8, <2>9, <2>10 DEF FreeThen
<1>13. CASE h # 1
  <2>1. phase' = 2 * h - 2 /\ UNCHANGED deframerVars
    <3>1. ~(2 * h - 2 <= 0)
      BY <1>2, <1>13
    <3> QED
      BY <1>11, <3>1
  <2>2. prevLine' = prevLine /\ reg' = reg /\ bits' = bits /\ synced' = synced /\ onFrame' = onFrame
    BY <2>1 DEF deframerVars
  <2>3. Counting(tx, k, h - 1, j)'
    <3>1. h - 1 \in 1 .. Sps /\ phase' = 2 * (h - 1)
      BY <1>2, <1>13, <2>1
    <3> QED
      BY <1>2, <2>2, <3>1 DEF Counting
  <2>4. Sps * (j + 1) - (h - 1) <= Sps * (at - k) + (d + 1)
    <3>1. u - (h - 1) <= w + (d + 1)
      BY <1>2, <1>8, <1>9
    <3> QED
      BY <3>1 DEF u, w
  <2>5. haveIQ' /\ Quieted' /\ prevLine' = prevBit' /\ prevBit' = air[at]
    BY <1>4, <1>7, <1>11, <2>2 DEF Quieted, DeframerType, a
  <2> QED
    BY <1>7, <2>3, <2>4, <2>5 DEF FreeThen
<1> QED
  BY <1>12, <1>13

\* The ones counted are no more than the symbols that passed.
LEMMA FreeThenKeeps ==
    ASSUME NEW tx \in Transmissions, OnAir(tx), NEW d, Symbol(d), Late, FreeThen(tx, d + 1),
           at <= Len(air), Advance
    PROVE  \E e : Symbol(e)' /\ Free(tx, e)'
<1> DEFINE T == Text(tx)
<1>1. PICK k, h, j : /\ Counting(tx, k, h, j)' /\ Stays(tx, k, at)
                     /\ Sps * (j + 1) - h <= Sps * (at - k) + (d + 1)
  BY DEF FreeThen
<1>2. /\ at \in 1 .. Len(air) /\ Len(air) \in Nat /\ d \in Nat /\ Sps \in Nat \ {0, 1}
      /\ k \in 1 .. Len(tx.noise) + 1 /\ h \in 1 .. Sps /\ j \in Nat
  BY <1>1, ChannelAssumption DEF OnAir, Symbol, Counting
<1>3. haveIQ' /\ Quieted' /\ prevLine' = prevBit' /\ prevBit' = air[at]
  BY DEF FreeThen
<1>4. /\ air' = air
      /\ \/ Symbol(d + 1)' /\ at' = at
         \/ /\ Symbol(0)' /\ at' = at + 1 /\ 2 * (d + 1) < 3 * Sps
            /\ ~EdgeAfter(at) => d + 1 = Sps
  BY <1>2, AdvanceIs
<1>5. CASE Symbol(d + 1)' /\ at' = at
  <2>1. SoFar(d + 1)' = at
    BY <1>2, <1>5 DEF SoFar
  <2>2. prevBit' = air'[SoFar(d + 1)']
    BY <1>3, <1>4, <2>1
  <2>3. Stays(tx, k, SoFar(d + 1)')
    BY <1>1, <2>1
  <2>4. Pace(tx, d + 1, k, h, j)'
    <3>1. ~(d + 1 = 0)
      BY <1>2
    <3> QED
      BY <1>1, <1>5, <3>1 DEF Pace
  <2>5. Free(tx, d + 1)'
    BY <1>1, <1>3, <2>2, <2>3, <2>4 DEF Free, Stays
  <2> QED
    BY <1>5, <2>5
<1>6. CASE /\ Symbol(0)' /\ at' = at + 1 /\ 2 * (d + 1) < 3 * Sps
           /\ ~EdgeAfter(at) => d + 1 = Sps
  <2>1. SoFar(0)' = at
    BY <1>2, <1>6 DEF SoFar
  <2>2. prevBit' = air'[SoFar(0)'] /\ Stays(tx, k, SoFar(0)')
    BY <1>1, <1>3, <1>4, <2>1
  <2> DEFINE u == Sps * (j + 1)
             w == Sps * (at - k)
             y == Sps * (at' - k)
  <2>3. u - h <= w + (d + 1)
    BY <1>1
  <2>4. u \in Int /\ w \in Int /\ y = w + Sps
    <3>1. at - k \in Int /\ j + 1 \in Int /\ at' - k = (at - k) + 1
      BY <1>2, <1>6
    <3> QED
      BY <1>2, <3>1, Times
  <2> HIDE DEF u, w, y, T
  <2>5. CASE T[at'] = 0
    <3>1. 2 * (u - h) < 2 * y + Sps
      BY <1>2, <1>6, <2>3, <2>4
    <3> QED
      <4>1. Pace(tx, 0, k, h, j)'
        BY <2>5, <3>1 DEF Pace, T, u, y
      <4>2. Free(tx, 0)'
        BY <1>1, <1>3, <2>2, <4>1 DEF Free, Stays
      <4> QED
        BY <1>6, <4>2
  <2>6. CASE T[at'] # 0
    <3>1. at + 1 \in 2 .. Len(air) /\ (at + 1) - 1 = at
      <4>1. at <= Len(tx.noise) + 1
        BY <1>1, <1>2, StaysShort
      <4>2. Len(tx.noise) \in Nat /\ Len(tx.noise) + 11 <= Len(air)
        BY DEF OnAir
      <4> QED
        BY <1>2, <4>1, <4>2
    <3>2. T[at + 1] = 1
      <4>1. at + 1 \in 1 .. Len(air)
        BY <3>1
      <4>2. T[at + 1] \in Bit
        BY <4>1 DEF OnAir, T
      <4> QED
        BY <1>6, <2>6, <4>2 DEF Bit
    <3>3. air[at + 1] = air[at]
      BY <3>1, <3>2 DEF OnAir, T
    <3>4. d + 1 = Sps
      BY <1>6, <3>3 DEF EdgeAfter
    <3>5. u - h <= y + 0
      BY <1>2, <2>3, <2>4, <3>4
    <3>6. Pace(tx, 0, k, h, j)'
      BY <2>6, <3>5 DEF Pace, T, u, y
    <3>7. Free(tx, 0)'
      BY <1>1, <1>3, <2>2, <3>6 DEF Free, Stays
    <3> QED
      BY <1>6, <3>7
  <2> QED
    BY <2>5, <2>6
<1> QED
  BY <1>4, <1>5, <1>6

-----------------------------------------------------------------------------
(* The channel                                                              *)

\* Nothing was heard yet, or all of it forgotten, before the first flag.
Deaf(tx, d) ==
    /\ prevLine = -1 /\ prevBit = -1 /\ phase = 0 /\ reg = <<0, 0, 0, 0, 0, 0, 0, 0>>
    /\ Quieted /\ haveIQ \in BOOLEAN
    /\ haveIQ => at <= Len(tx.noise) + 1
    /\ ~haveIQ => at <= Len(tx.noise) \/ (at = 1 /\ d = 0)

Mode(tx, d) == Deaf(tx, d) \/ Free(tx, d) \/ Locked(tx, d)

\* The first line bit tells the deframer nothing, it only has it.
LEMMA DeafSample ==
    ASSUME NEW tx \in Transmissions, OnAir(tx), NEW d, Symbol(d), Deaf(tx, d), haveIQ,
           at <= Len(air), ProcessSample(air[at])
    PROVE  FreeThen(tx, d + 1)
<1> DEFINE a == air[at]
           N == Len(tx.noise)
<1>1. at \in 1 .. Len(air) /\ at \in Nat /\ d \in Nat /\ Sps \in Nat \ {0, 1} /\ N \in Nat
  BY ChannelAssumption DEF Symbol, OnAir
<1>2. /\ prevLine = -1 /\ prevBit = -1 /\ phase = 0 /\ reg = <<0, 0, 0, 0, 0, 0, 0, 0>>
      /\ DeframerType /\ onFrame = <<>> /\ ~synced /\ at <= N + 1
  BY DEF Deaf, Quieted
<1> HIDE DEF a, N
<1>3. Clock(a) = 0
  BY <1>2 DEF Clock
<1>4. ProcessSample(a)
  BY DEF a
<1>5. prevBit' = a /\ haveIQ' /\ phase' = 2 * (Sps - 1) /\ PushLine(a)
  <2>1. Clock(a) - 2 = -2 /\ -2 <= 0 /\ -2 + 2 * Sps = 2 * (Sps - 1)
    BY <1>1, <1>3
  <2> QED
    BY <1>4, <2>1 DEF ProcessSample
<1>6. /\ prevLine' = a /\ reg' = reg /\ bits' = bits /\ synced' = synced /\ onFrame' = onFrame
  BY <1>2, <1>5 DEF PushLine
<1>7. Quieted'
  BY <1>2, <1>6 DEF Quieted, DeframerType
<1>8. \A i \in 1 .. 8 : reg'[i] = IF i + 0 > 8 THEN 1 ELSE 0
  BY <1>2, <1>6
<1>9. at \in 1 .. N + 1 /\ Sps - 1 \in 1 .. Sps /\ 0 \in Nat
  BY <1>1, <1>2
<1>10. \E k : k = at /\ Counting(tx, k, Sps - 1, 0)'
  BY <1>5, <1>8, <1>9 DEF Counting, N
<1>11. PICK k : k = at /\ Counting(tx, k, Sps - 1, 0)'
  BY <1>10
<1>12. Stays(tx, k, at)
  BY <1>1, <1>11 DEF Stays
<1>13. Sps * (0 + 1) - (Sps - 1) <= Sps * (at - k) + (d + 1)
  BY <1>1, <1>11
<1> QED
  BY <1>5, <1>6, <1>7, <1>11, <1>12, <1>13 DEF FreeThen, a

\* The first sample tells nothing yet.
LEMMA FirstSample ==
    ASSUME NEW tx \in Transmissions, OnAir(tx), NEW d, Symbol(d), Late, Deaf(tx, d), ~haveIQ,
           at <= Len(air), ProcessSample(air[at]), Advance
    PROVE  \E e : Symbol(e)' /\ Deaf(tx, e)'
<1> DEFINE N == Len(tx.noise)
<1>1. at \in Nat /\ Sps \in Nat \ {0, 1} /\ N \in Nat /\ Len(air) \in Nat
  BY ChannelAssumption DEF Symbol, OnAir
<1>2. /\ prevLine = -1 /\ prevBit = -1 /\ phase = 0 /\ reg = <<0, 0, 0, 0, 0, 0, 0, 0>>
      /\ Quieted /\ (at <= N \/ (at = 1 /\ d = 0))
  BY DEF Deaf
<1>3. haveIQ' = TRUE /\ UNCHANGED <<prevBit, phase, deframerVars>>
  BY DEF ProcessSample
<1>4. /\ prevLine' = -1 /\ prevBit' = -1 /\ phase' = 0 /\ reg' = <<0, 0, 0, 0, 0, 0, 0, 0>>
      /\ Quieted'
  BY <1>2, <1>3 DEF deframerVars, Quieted, DeframerType
<1>5. \/ Symbol(d + 1)' /\ at' = at
      \/ Symbol(0)' /\ at' = at + 1 /\ Sps < 2 * (d + 1)
  BY <1>1, AdvanceIs
<1> HIDE DEF N
<1>6. at' <= N + 1
  BY <1>1, <1>2, <1>5
<1>7. \A e : Deaf(tx, e)'
  BY <1>3, <1>4, <1>6 DEF Deaf, N
<1> QED
  BY <1>5, <1>7

\* Every sample leaves the channel deaf, free or locked.
LEMMA SampleKeeps ==
    ASSUME NEW tx \in Transmissions, OnAir(tx), NEW d, Symbol(d), Late, Mode(tx, d),
           NextSample
    PROVE  Late' /\ \E e : Symbol(e)' /\ Mode(tx, e)'
<1>1. at <= Len(air) /\ ProcessSample(air[at]) /\ Advance
  BY DEF NextSample, Advance
<1>2. Late'
  <2>1. Len(air) \in Nat
    BY DEF OnAir
  <2> QED
    BY <1>1, <2>1, AdvanceIs
<1>3. CASE Locked(tx, d)
  BY <1>1, <1>2, <1>3, LockedKeeps DEF Mode
<1>4. CASE Deaf(tx, d)
  <2>1. CASE haveIQ
    <3>1. FreeThen(tx, d + 1)
      BY <1>1, <1>4, <2>1, DeafSample
    <3> QED
      BY <1>1, <1>2, <3>1, FreeThenKeeps DEF Mode
  <2>2. CASE ~haveIQ
    BY <1>1, <1>2, <1>4, <2>2, FirstSample DEF Mode
  <2> QED
    BY <2>1, <2>2
<1>5. CASE Free(tx, d)
  <2>1. CASE d = 0 /\ Text(tx)[at] = 0
    <3>1. Locked(tx, d)
      BY <1>5, <2>1, FreeLocks
    <3> QED
      BY <1>1, <1>2, <3>1, LockedKeeps DEF Mode
  <2>2. CASE ~(d = 0 /\ Text(tx)[at] = 0)
    <3>1. FreeThen(tx, d + 1)
      BY <1>1, <1>5, <2>2, FreeSample
    <3> QED
      BY <1>1, <1>2, <3>1, FreeThenKeeps DEF Mode
  <2> QED
    BY <2>1, <2>2
<1> QED
  BY <1>3, <1>4, <1>5 DEF Mode

LEMMA DeafReg ==
    LET r == <<0, 0, 0, 0, 0, 0, 0, 0>> IN r \in Seq(Bit) /\ Len(r) = 8
  BY DEF Bit

\* Before the first flag nothing was handed up.
LEMMA NothingBefore ==
    ASSUME NEW tx \in Transmissions, OnAir(tx), NEW d, Symbol(d), Mode(tx, d), at <= Len(tx.noise)
    PROVE  onFrame = <<>>
<1> DEFINE N == Len(tx.noise)
<1>1. at \in Nat /\ N \in Nat /\ d \in Nat /\ Sps \in Nat \ {0, 1}
  BY ChannelAssumption DEF Symbol, OnAir
<1>2. CASE Deaf(tx, d) \/ Free(tx, d)
  BY <1>2 DEF Deaf, Free, Quieted
<1>3. CASE Locked(tx, d)
  <2>1. PICK n : n = (IF 2 * d >= Sps THEN at ELSE at - 1) /\ Deframed(tx, n)
    BY <1>3 DEF Locked
  <2>2. n <= N /\ n \in Int
    BY <1>1, <2>1
  <2>3. ASSUME NEW i, Between(tx, i, n) PROVE FALSE
    <3>1. i \in 0 .. Len(tx.bodies) /\ n >= Start(tx, i)
      BY <2>2, <2>3 DEF Between, Inside
    <3>2. Start(tx, i) \in Nat /\ Start(tx, i) >= N + 9
      BY <3>1, StartIsIn
    <3> DEFINE s == Start(tx, i)
    <3>3. n >= s /\ s \in Nat /\ s >= N + 9
      BY <3>1, <3>2
    <3> HIDE DEF s, N
    <3> QED
      BY <1>1, <2>2, <3>3
  <2>4. BeforeFirst(tx, n)
    BY <2>1, <2>3 DEF Deframed
  <2> QED
    BY <2>4 DEF BeforeFirst
<1> QED
  BY <1>2, <1>3 DEF Mode

ChannelInv == \E tx \in Transmissions :
    /\ sending = tx /\ air = Line(tx.noise, tx.bodies) /\ Late
    /\ \E d : Symbol(d) /\ Mode(tx, d)

LEMMA ChannelInitIs == ChannelInit => ChannelInv
<1> SUFFICES ASSUME ChannelInit PROVE ChannelInv
  OBVIOUS
<1>1. PICK tx : tx = sending
  OBVIOUS
<1>2. tx \in Transmissions /\ air = Line(tx.noise, tx.bodies)
  BY <1>1 DEF ChannelInit
<1>3. OnAir(tx)
  BY <1>2, SentOnAir
<1>4. at = 1 /\ left = Sps /\ late = 0 /\ NothingHeard /\ onFrame = <<>>
  BY DEF ChannelInit
<1>5. Late
  BY <1>4 DEF Late
<1>6. Symbol(0)
  <2>1. Sps \in Nat \ {0, 1} /\ Len(air) \in Nat /\ Len(air) >= 1
    BY <1>3, ChannelAssumption DEF OnAir
  <2>2. at \in 1 .. Len(air) + 1 /\ ~(at > Len(air))
    BY <1>4, <2>1
  <2>3. Sps < 2 * (0 + left) /\ 2 * (0 + left) < 3 * Sps /\ 0 + left = Sps
    BY <1>4, <2>1
  <2> QED
    BY <1>4, <2>1, <2>2, <2>3 DEF Symbol
<1>7. Deaf(tx, 0)
  <2>1. Quieted
    BY <1>4, DeafReg, EmptySeq DEF NothingHeard, Quieted, DeframerType
  <2> QED
    BY <1>4, <2>1 DEF NothingHeard, Deaf
<1> QED
  BY <1>1, <1>2, <1>5, <1>6, <1>7 DEF ChannelInv, Mode

\* A reset makes it deaf again.
LEMMA ResetKeeps ==
    ASSUME NEW tx \in Transmissions, OnAir(tx), NEW d, Symbol(d), Late, Mode(tx, d), sending = tx,
           ResetChannel
    PROVE  Late' /\ Symbol(d)' /\ Deaf(tx, d)'
<1>1. /\ at <= Len(tx.noise) /\ haveIQ' = FALSE /\ prevBit' = -1 /\ phase' = 0
      /\ prevLine' = -1 /\ reg' = <<0, 0, 0, 0, 0, 0, 0, 0>> /\ bits' = <<>> /\ synced' = FALSE
      /\ UNCHANGED <<air, sending, at, left, late, onFrame>>
  BY DEF ResetChannel
<1>2. Late'
  BY <1>1 DEF Late
<1>3. Symbol(d)'
  BY <1>1 DEF Symbol, EdgeAfter
<1>4. onFrame = <<>>
  BY <1>1, NothingBefore
<1>5. Quieted'
  BY <1>1, <1>4, DeafReg, EmptySeq DEF Quieted, DeframerType
<1> QED
  BY <1>1, <1>2, <1>3, <1>5 DEF Deaf

\* Preservation, by the two actions.
LEMMA ChannelNextKeeps == ChannelInv /\ [ChannelNext]_channelVars => ChannelInv'
<1> SUFFICES ASSUME ChannelInv, [ChannelNext]_channelVars PROVE ChannelInv'
  OBVIOUS
<1>1. PICK tx \in Transmissions :
         /\ sending = tx /\ air = Line(tx.noise, tx.bodies) /\ Late
         /\ \E d : Symbol(d) /\ Mode(tx, d)
  BY DEF ChannelInv
<1>2. PICK d : Symbol(d) /\ Mode(tx, d)
  BY <1>1
<1>3. OnAir(tx)
  BY <1>1, SentOnAir
<1>4. CASE NextSample
  <2>1. air' = air /\ sending' = sending
    BY <1>4 DEF NextSample
  <2>2. Late' /\ \E e : Symbol(e)' /\ Mode(tx, e)'
    BY <1>1, <1>2, <1>3, <1>4, SampleKeeps
  <2> QED
    BY <1>1, <2>1, <2>2 DEF ChannelInv
<1>5. CASE ResetChannel
  <2>1. air' = air /\ sending' = sending
    BY <1>5 DEF ResetChannel
  <2>2. Late' /\ Symbol(d)' /\ Deaf(tx, d)'
    BY <1>1, <1>2, <1>3, <1>5, ResetKeeps
  <2> QED
    BY <1>1, <2>1, <2>2 DEF ChannelInv, Mode
<1>6. CASE UNCHANGED channelVars
  <2>1. UNCHANGED <<air, sending, at, left, late, haveIQ, prevBit, phase, prevLine, reg, bits, synced, onFrame>>
    BY <1>6 DEF channelVars, demodVars, deframerVars
  <2>2. Late' /\ Symbol(d)'
    BY <1>1, <1>2, <2>1 DEF Late, Symbol, EdgeAfter
  <2>3. CASE Deaf(tx, d)
    <3>1. Deaf(tx, d)'
      BY <2>1, <2>3 DEF Deaf, Quieted, DeframerType
    <3> QED
      BY <1>1, <2>1, <2>2, <3>1 DEF ChannelInv, Mode
  <2>4. CASE Free(tx, d)
    <3>1. PICK k, h, j : Counting(tx, k, h, j) /\ Stays(tx, k, SoFar(d)) /\ Pace(tx, d, k, h, j)
      BY <2>4 DEF Free
    <3>2. Counting(tx, k, h, j)' /\ Pace(tx, d, k, h, j)' /\ SoFar(d)' = SoFar(d)
      BY <2>1, <3>1 DEF Counting, Pace, SoFar
    <3>3. Quieted' /\ haveIQ' /\ prevLine' = prevBit' /\ prevBit' = air'[SoFar(d)']
      BY <2>1, <2>4, <3>2 DEF Free, Quieted, DeframerType
    <3>4. Free(tx, d)'
      BY <3>1, <3>2, <3>3 DEF Free, Stays
    <3> QED
      BY <1>1, <2>1, <2>2, <3>4 DEF ChannelInv, Mode
  <2>5. CASE Locked(tx, d)
    <3>1. PICK n : /\ n = IF 2 * d >= Sps THEN at ELSE at - 1
                   /\ prevLine = air[n] /\ Deframed(tx, n)
      BY <2>5 DEF Locked
    <3>2. Deframed(tx, n)'
      BY <2>1, <3>1 DEF Deframed, BeforeFirst, Between, DeframerType, RegAt
    <3>3. Locked(tx, d)'
      BY <2>1, <2>5, <3>1, <3>2 DEF Locked, SoFar, Phase
    <3> QED
      BY <1>1, <2>1, <2>2, <3>3 DEF ChannelInv, Mode
  <2> QED
    BY <1>2, <2>3, <2>4, <2>5 DEF Mode
<1> QED
  BY <1>4, <1>5, <1>6 DEF ChannelNext

\* After the last symbol it is locked, and behind the last message.
LEMMA ChannelInvIs == ChannelInv => FramesDelivered
<1> SUFFICES ASSUME ChannelInv, at > Len(air)
             PROVE  onFrame = Along(Delivered, <<>>, sending.bodies)
  BY DEF FramesDelivered
<1>1. PICK tx \in Transmissions :
         /\ sending = tx /\ air = Line(tx.noise, tx.bodies)
         /\ \E d : Symbol(d) /\ Mode(tx, d)
  BY DEF ChannelInv
<1>2. PICK d : Symbol(d) /\ Mode(tx, d)
  BY <1>1
<1>3. OnAir(tx)
  BY <1>1, SentOnAir
<1> DEFINE N == Len(tx.noise)
           M == Len(tx.bodies)
           L == Len(air)
<1>4. /\ d = 0 /\ L \in Nat /\ N \in Nat /\ N + 11 <= L /\ at = L + 1 /\ Sps \in Nat \ {0, 1}
  <2>1. L \in Nat /\ N \in Nat /\ N + 11 <= L
    BY <1>3 DEF OnAir
  <2>2. at \in 1 .. L + 1 /\ d = 0
    BY <1>2 DEF Symbol
  <2>3. Sps \in Nat \ {0, 1} /\ at > L
    BY ChannelAssumption
  <2> HIDE DEF L, N
  <2> QED
    BY <2>1, <2>2, <2>3
<1>5. L = Start(tx, M) + 2 /\ M \in Nat
  <2>1. L = Len(Text(tx))
    BY <1>3 DEF OnAir
  <2> QED
    BY <2>1, TransmissionIs DEF TextIs
<1> HIDE DEF N, M, L
<1>6. ~Deaf(tx, d)
  <2>1. ~(at <= N + 1) /\ ~(at <= N) /\ at # 1
    BY <1>4
  <2> QED
    BY <2>1 DEF Deaf, N
<1>7. ~Free(tx, d)
  <2> SUFFICES ASSUME Free(tx, d) PROVE FALSE
    OBVIOUS
  <2>1. SoFar(d) = L /\ L \in Nat
    BY <1>4 DEF SoFar
  <2>2. PICK k, h, j : Counting(tx, k, h, j) /\ Stays(tx, k, SoFar(d))
    BY DEF Free
  <2>3. k \in 1 .. N + 1
    BY <2>2 DEF Counting, N
  <2>4. L <= N + 1
    BY <1>3, <2>1, <2>2, <2>3, StaysShort DEF N
  <2> QED
    BY <1>4, <2>4
<1>8. Deframed(tx, L)
  <2>1. Locked(tx, d)
    BY <1>2, <1>6, <1>7 DEF Mode
  <2>2. PICK n : n = (IF 2 * d >= Sps THEN at ELSE at - 1) /\ Deframed(tx, n)
    BY <2>1 DEF Locked
  <2>3. n = L
    BY <1>4, <2>2
  <2> QED
    BY <2>2, <2>3
<1>9. ~BeforeFirst(tx, L)
  <2>1. ~(L \in 1 .. N + 8)
    BY <1>4
  <2> QED
    BY <2>1 DEF BeforeFirst, N
<1>10. PICK i : Between(tx, i, L)
  BY <1>8, <1>9 DEF Deframed
<1>11. i \in 0 .. M /\ (i < M => L < Start(tx, i + 1)) /\ onFrame = Handed(First(tx.bodies, i))
  BY <1>10 DEF Between, Inside, M
<1>12. i = M
  <2> SUFFICES ASSUME i # M PROVE FALSE
    OBVIOUS
  <2>1. i < M /\ i + 1 \in 0 .. M
    BY <1>5, <1>11
  <2>2. Start(tx, i + 1) <= Start(tx, M) /\ Start(tx, i + 1) \in Nat
    BY <2>1, StartIsIn DEF M
  <2> DEFINE s == Start(tx, i + 1)
             e == Start(tx, M)
  <2>3. s <= e /\ s \in Nat /\ L < s /\ L = e + 2
    BY <1>5, <1>11, <2>1, <2>2
  <2>4. e \in Nat
    <3>1. M \in 0 .. M
      BY <1>5
    <3> QED
      BY <3>1, StartIsIn DEF M
  <2> HIDE DEF s, e
  <2> QED
    BY <1>4, <2>3, <2>4
<1>13. First(tx.bodies, i) = tx.bodies
  BY <1>12, TransmissionIs, FirstAll DEF M
<1> QED
  BY <1>1, <1>11, <1>13 DEF Handed

LEMMA ChannelOrRest == [Next]_vars => [ChannelNext]_channelVars
  BY DEF Next, vars, DemodStage, AircraftStage, ChannelStage, VesselStage, MuLawStage

\* Every message between two flags is handed up, once and in order (Deframer.handle,
\* by pushLogical), for every noise before the first flag, every message however its
\* bits are stuffed, and all edges whose jitter is less than half a symbol.
THEOREM FramesHandedUp == Spec => []FramesDelivered
<1>1. Init => ChannelInv
  BY ChannelInitIs DEF Init
<1>2. ChannelInv /\ [Next]_vars => ChannelInv'
  BY ChannelNextKeeps, ChannelOrRest
<1>3. ChannelInv => FramesDelivered
  BY ChannelInvIs
<1> QED
  BY <1>1, <1>2, <1>3, PTL DEF Spec
=============================================================================
