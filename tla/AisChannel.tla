----------------------------- MODULE AisChannel -----------------------------
(***************************************************************************)
(* One AIS channel (internal/ais): the discriminator's sign, the bit clock *)
(* (demod.go), the deframer (hdlc.go) and its check sequence (crc.go).     *)
(* The line is sent by a ship: noise, then messages between flags, with    *)
(* edges that come a sample early or late.  A bit is 0 or 1.               *)
(***************************************************************************)
EXTENDS Integers, Sequences, FiniteSets

CONSTANTS Sps,            \* samples per symbol, 5
          MinFrameBits,   \* minFrameBits, 38 + 16
          MaxFrameBits,   \* bound: the code's 2048
          Jitters,        \* how many samples an edge may be late
          Transmissions   \* [noise, bodies]: bits before the first flag, messages

VARIABLES air,        \* the line bits sent
          sending,    \* the noise and the messages in them
          at,         \* the symbol in the air
          left,       \* samples left of it
          late,       \* samples the last edge was late
          haveIQ, prevBit, phase,            \* ChannelDemod, phase in half samples
          prevLine, reg, bits, synced,       \* Deframer
          onFrame                            \* the bodies handed up

demodVars == <<haveIQ, prevBit, phase>>
deframerVars == <<prevLine, reg, bits, synced, onFrame>>
channelVars == <<air, sending, at, left, late, demodVars, deframerVars>>

\* The edges keep to their symbols, by half a symbol against each other.  A message
\* is not too short; and what follows five ones in the noise, a flag or what a
\* reset may make one, is too short for a message before the first true flag.
ASSUME ChannelAssumption ==
    /\ Sps \in Nat \ {0, 1} /\ MinFrameBits \in Nat /\ MaxFrameBits \in Nat
    /\ Jitters \subseteq Int /\ \A k, l \in Jitters \cup {0} : 2 * (k - l) < Sps
    /\ \A t \in Transmissions :
          /\ t.noise \in Seq({0, 1}) /\ t.bodies \in Seq(Seq({0, 1}))
          /\ \A i \in DOMAIN t.bodies : MinFrameBits <= Len(t.bodies[i]) + 16
          /\ \A q \in 6 .. Len(t.noise) :
                (t.noise[q] = 0 /\ \A i \in 1 .. 5 : t.noise[q - i] = 1)
                    => Len(t.noise) - q < MinFrameBits

Flag == <<0, 1, 1, 1, 1, 1, 1, 0>>

-----------------------------------------------------------------------------
\* FoldLeft of SequencesExt goes through the subsets of the domain, too many
\* for the length of a frame.
Along(op(_, _), base, s) ==
    LET acc[i \in 0 .. Len(s)] == IF i = 0 THEN base ELSE op(acc[i - 1], s[i])
    IN acc[Len(s)]

\* fcs: the register of the reflected CRC-16, its lowest bit first; the polynomial
\* 0x8408 toggles the bits 3, 10 and 15.
FcsStep(crc, b) ==
    LET half == Append(Tail(crc), 0)
    IN IF crc[1] = b THEN half
       ELSE [i \in 1 .. 16 |-> IF i \in {4, 11, 16} THEN 1 - half[i] ELSE half[i]]
Fcs(body) ==
    LET crc == Along(FcsStep, [i \in 1 .. 16 |-> 1], body)
    IN [i \in 1 .. 16 |-> 1 - crc[i]]

DestuffSix(acc, b) ==
    IF acc.ones = 6 THEN [acc EXCEPT !.ones = 0]
    ELSE [out |-> Append(acc.out, b), ones |-> IF b = 1 THEN acc.ones + 1 ELSE 0]

\* destuff: the bit after five ones is skipped, whatever it is.
DestuffStep(acc, b) ==
    IF acc.ones = 5 THEN [acc EXCEPT !.ones = 0]
    ELSE [out |-> Append(acc.out, b), ones |-> IF b = 1 THEN acc.ones + 1 ELSE 0]
Destuff(in) == Along(DestuffStep, [out |-> <<>>, ones |-> 0], in).out

-----------------------------------------------------------------------------
\* The ship: stuffs a message and its check sequence, and codes a 0 as a
\* change of the line.
StuffStep(acc, b) ==
    LET ones == IF b = 1 THEN acc.ones + 1 ELSE 0
    IN IF ones = 5 THEN [out |-> acc.out \o <<1, 0>>, ones |-> 0]
       ELSE [out |-> Append(acc.out, b), ones |-> ones]
Stuff(in) == Along(StuffStep, [out |-> <<>>, ones |-> 0], in).out

Content(m) == Stuff(m \o Fcs(m))
FrameStep(acc, m) == acc \o Content(m) \o Flag
Frames(ms) == Along(FrameStep, Flag, ms)
Nrzi(in) == [i \in 1 .. Len(in) |-> Cardinality({k \in 1 .. i : in[k] = 0}) % 2]
Line(noise, ms) == Nrzi(<<0>> \o noise \o Frames(ms) \o <<0, 0>>)

-----------------------------------------------------------------------------
\* handle: a content between two flags.
Handle(content) ==
    LET frame == Destuff(content)
        n == Len(frame)
    IN IF n < MinFrameBits \/ Fcs(SubSeq(frame, 1, n - 16)) # SubSeq(frame, n - 15, n)
       THEN onFrame ELSE Append(onFrame, SubSeq(frame, 1, n - 16))

\* The last eight bits stay when they are a flag: the next may share its zero.
PushLogical(b) ==
    LET more == Append(bits, b)
    IN /\ reg' = Append(Tail(reg), b)
       /\ IF reg' = Flag
          THEN /\ onFrame' = IF synced /\ Len(more) >= 8
                             THEN Handle(SubSeq(more, 1, Len(more) - 8)) ELSE onFrame
               /\ synced' = TRUE /\ bits' = <<>>
          ELSE /\ bits' = IF Len(more) > MaxFrameBits THEN <<>> ELSE more
               /\ synced' = (synced /\ Len(more) <= MaxFrameBits)
               /\ UNCHANGED onFrame

PushLine(line) ==
    /\ prevLine' = line
    /\ IF prevLine = -1 THEN UNCHANGED <<reg, bits, synced, onFrame>>
       ELSE PushLogical(IF line = prevLine THEN 1 ELSE 0)

\* Half samples to the middle of a symbol: an edge tells where it begins.
Clock(bit) == IF prevBit # -1 /\ bit # prevBit THEN Sps ELSE phase

\* Process: a sample of the line.
ProcessSample(bit) ==
    IF ~haveIQ THEN haveIQ' = TRUE /\ UNCHANGED <<prevBit, phase, deframerVars>>
    ELSE LET p == Clock(bit) - 2
         IN /\ prevBit' = bit /\ UNCHANGED haveIQ
            /\ IF p <= 0 THEN phase' = p + 2 * Sps /\ PushLine(bit)
               ELSE phase' = p /\ UNCHANGED deframerVars

\* The air moves on by a sample; the end of a symbol that is an edge is early
\* or late.
EdgeAfter(k) == k < Len(air) /\ air[k] # air[k + 1]
NextSample ==
    /\ at <= Len(air)
    /\ ProcessSample(air[at])
    /\ IF left > 1 THEN left' = left - 1 /\ UNCHANGED <<at, late>>
       ELSE /\ at' = at + 1
            /\ \E l \in IF EdgeAfter(at + 1) THEN Jitters ELSE {late} :
                   left' = Sps + l - late /\ late' = l
    /\ UNCHANGED <<air, sending>>

\* resetDecoders, here before the first flag: what was heard is forgotten.
NothingHeard ==
    /\ haveIQ = FALSE /\ prevBit = -1 /\ phase = 0
    /\ prevLine = -1 /\ reg = <<0, 0, 0, 0, 0, 0, 0, 0>> /\ bits = <<>> /\ synced = FALSE

ResetChannel ==
    /\ haveIQ /\ at <= Len(sending.noise)
    /\ haveIQ' = FALSE /\ prevBit' = -1 /\ phase' = 0
    /\ prevLine' = -1 /\ reg' = <<0, 0, 0, 0, 0, 0, 0, 0>> /\ bits' = <<>> /\ synced' = FALSE
    /\ UNCHANGED <<air, sending, at, left, late, onFrame>>

ChannelInit ==
    /\ sending \in Transmissions /\ air = Line(sending.noise, sending.bodies)
    /\ at = 1 /\ left = Sps /\ late = 0
    /\ NothingHeard
    /\ onFrame = <<>>

ChannelNext == NextSample \/ ResetChannel

-----------------------------------------------------------------------------
\* Every message between two flags is handed up, once and in order, whatever
\* noise came before the first flag, wherever bits were stuffed and however
\* the edges jitter; a frame too long only loses itself: one whose closing flag
\* is not whole before the buffer is full.
Delivered(got, m) == IF Len(Content(m)) + 7 <= MaxFrameBits THEN Append(got, m) ELSE got
FramesDelivered == at > Len(air) => onFrame = Along(Delivered, <<>>, sending.bodies)
=============================================================================
