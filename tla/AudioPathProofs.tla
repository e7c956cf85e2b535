-------------------------- MODULE AudioPathProofs ---------------------------
(***************************************************************************)
(* Proofs about AudioPath, for any sessions, capacity and number of        *)
(* frames: audioCh implements LatestWins, packets are written to open      *)
(* sessions only, a closed session leaves the map, and the two mutexes are *)
(* never held by goroutines that wait for each other.                      *)
(***************************************************************************)
EXTENDS AudioPath, TLAPS

USE FeedAssumption
USE DEF feedVars, sessionVars, mapVars, dispatchVars, rtcVars, vars

FeedStep == Putter \/ Take

LEMMA FeedCases == [Next]_vars => FeedStep \/ UNCHANGED feedVars
  BY DEF Next, Broadcaster, FeedStep

-----------------------------------------------------------------------------
(* The channel                                                              *)

FeedInv == FeedType /\ RoomMade /\ (putStage # "idle" => put # 0)

LEMMA TailFacts ==
    ASSUME NEW S, NEW q \in Seq(S), q # <<>>
    PROVE  /\ Len(q) \in Nat \ {0} /\ Len(Tail(q)) = Len(q) - 1
           /\ Tail(q) \in Seq(S) /\ Head(q) \in S
  OBVIOUS

LEMMA AppendFacts ==
    ASSUME NEW S, NEW q \in Seq(S), NEW x \in S
    PROVE  /\ Len(q) \in Nat /\ Len(Append(q, x)) = Len(q) + 1
           /\ Append(q, x) \in Seq(S) /\ Append(q, x) # <<>>
  OBVIOUS

LEMMA TailOfAppend ==
    ASSUME NEW S, NEW q \in Seq(S), q # <<>>, NEW x \in S
    PROVE  /\ Head(Append(q, x)) = Head(q)
           /\ Tail(Append(q, x)) = Append(Tail(q), x)
  OBVIOUS

\* The third select finds room, since only the read goroutine puts.
LEMMA FeedInvNext == FeedInv /\ [Next]_vars => FeedInv'
<1> SUFFICES ASSUME FeedInv, [Next]_vars PROVE FeedInv'
    OBVIOUS
<1> USE DEF FeedInv, FeedType, RoomMade, HasRoom
<1>1. CASE Offer
  <2>1. put + 1 \in 1 .. MaxFrames /\ put' = put + 1 /\ taken' = taken
    BY <1>1 DEF Offer
  <2>2. CASE HasRoom
    BY <1>1, <2>1, <2>2, AppendFacts DEF Offer
  <2>3. CASE ~HasRoom
    BY <1>1, <2>1, <2>3 DEF Offer
  <2> QED
    BY <2>2, <2>3
<1>2. CASE MakeRoom
  <2>1. CASE ch = <<>>
    BY <1>2, <2>1 DEF MakeRoom
  <2>2. CASE ch # <<>>
    BY <1>2, <2>2, TailFacts DEF MakeRoom
  <2> QED
    BY <2>1, <2>2
<1>3. CASE Retry
  <2>1. put \in 1 .. MaxFrames
    BY <1>3 DEF Retry
  <2> QED
    BY <1>3, <2>1, AppendFacts DEF Retry
<1>4. CASE Take
  BY <1>4, TailFacts DEF Take
<1>5. CASE UNCHANGED feedVars
  BY <1>5
<1> QED
  BY <1>1, <1>2, <1>3, <1>4, <1>5, FeedCases DEF FeedStep, Putter

\* A step of the channel is a Put, a Take or a stutter of LatestWins.
LEMMA FeedRefines == FeedInv /\ FeedInv' /\ [Next]_vars => [LW!Put \/ LW!Take]_(LW!vars)
<1> SUFFICES ASSUME FeedInv, FeedInv', [Next]_vars
             PROVE  LW!Put \/ LW!Take \/ UNCHANGED LW!vars
    OBVIOUS
<1> USE DEF FeedInv, FeedType, RoomMade, HasRoom
<1>1. CASE Offer
  BY <1>1 DEF Offer, LW!Put, LW!vars
<1>2. CASE MakeRoom
  <2>1. CASE ch = <<>>
    BY <1>2, <2>1 DEF MakeRoom, LW!Put
  <2>2. CASE ch # <<>>
    BY <1>2, <2>2 DEF MakeRoom, LW!Put
  <2> QED
    BY <2>1, <2>2
<1>3. CASE Retry
  BY <1>3 DEF Retry, LW!vars
<1>4. CASE Take
  <2>1. CASE putStage = "retry"
    <3>1. put \in 1 .. MaxFrames /\ ch \in Seq(1 .. MaxFrames) /\ ch # <<>>
      BY <1>4, <2>1 DEF Take
    <3>2. /\ Head(Append(ch, put)) = Head(ch) /\ Append(ch, put) # <<>>
          /\ Tail(Append(ch, put)) = Append(Tail(ch), put)
      <4> HIDE DEF FeedInv, FeedType, RoomMade, HasRoom, FeedAssumption
      <4> QED
        BY <3>1, TailOfAppend, AppendFacts
    <3> QED
      BY <1>4, <2>1, <3>2 DEF Take, LW!Take
  <2>2. CASE putStage # "retry"
    BY <1>4, <2>2 DEF Take, LW!Take
  <2> QED
    BY <2>1, <2>2
<1>5. CASE UNCHANGED feedVars
  BY <1>5 DEF LW!vars
<1> QED
  BY <1>1, <1>2, <1>3, <1>4, <1>5, FeedCases DEF FeedStep, Putter

LEMMA FeedInit0 == Init => FeedInv /\ LW!Init
  BY DEF Init, FeedInit, FeedInv, FeedType, RoomMade, LW!Init

\* However the broadcast loop's takes fall between the selects of the read
\* goroutine, and whatever the sessions do, audioCh is a latest-wins channel.
THEOREM ChannelKeepsNewest == Spec => PutKeepsNewest
<1>1. Spec => []FeedInv
  BY FeedInit0, FeedInvNext, PTL DEF Spec
<1> QED
  BY <1>1, FeedInit0, FeedRefines, PTL DEF Spec, PutKeepsNewest, LW!Spec

-----------------------------------------------------------------------------
(* The sessions                                                             *)

USE WebRTCAssumption

RtcStep == \/ Dispatcher \/ SessionStep \/ UNCHANGED rtcVars
           \/ BeginDispatch /\ UNCHANGED <<offer, call, sessionVars, mapVars, batch>>

LEMMA RtcCases == [Next]_vars => RtcStep
  BY DEF Next, Broadcaster, RtcStep

CallStages == {"none", "begun", "locked", "marked", "removing", "removed", "unlocked", "done"}

\* The parts of RtcType the invariants below rest on.
CoreType == /\ call \in [Calls -> CallStages]
            /\ offer \in [Sessions -> {"none", "created", "adding", "answered", "failed"}]
            /\ closed \in [Sessions -> BOOLEAN] /\ track \in [Sessions -> BOOLEAN]
            /\ mu \in [Sessions -> Calls \union {NoOne, Broadcast}]
            /\ sessions \subseteq Sessions /\ early \subseteq Sessions

\* Between Lock and Unlock of s.mu a call of close and writeMulaw hold it, and a
\* session whose packets are written is open.
HoldInv ==
    /\ \A c \in Calls : call[c] \in {"locked", "marked", "removing", "removed"}
                           => mu[c[1]] = c
    /\ \A s \in Sessions : dispatch \in {Checking(s), Writing(s)} => mu[s] = Broadcast
    /\ OpenWhileWritten

\* A call has set closed and not yet deleted the session.
Leaving(s) == \E c \in Calls : mu[s] = c /\ c[1] = s /\ call[c] \in {"marked", "removing"}

LeaveInv ==
    /\ \A s \in Sessions : s \in sessions => offer[s] = "answered"
    /\ \A s \in Sessions : closed[s] /\ s \notin early
          => Leaving(s) \/ (offer[s] = "answered" /\ s \notin sessions)

LEMMA CallParts == \A c \in Calls : c[1] \in Sessions /\ c # NoOne /\ c # Broadcast
  BY DEF Calls

\* Each step keeps the types of what the two invariants speak of.
LEMMA CoreNext == CoreType /\ [Next]_vars => CoreType'
<1> SUFFICES ASSUME CoreType, RtcStep PROVE CoreType'
    BY RtcCases
<1> USE CallParts DEF CoreType, CallStages
<1>1. CASE \E s \in Sessions : HandlerStep(s) \/ ConnectionEnds(s)
  <2> SUFFICES ASSUME NEW s \in Sessions, HandlerStep(s) \/ ConnectionEnds(s) PROVE CoreType'
      BY <1>1
  <2>1. CASE CreateSession(s)
    BY <2>1 DEF CreateSession, OfferStep
  <2>2. CASE CreateFails(s)
    BY <2>2 DEF CreateFails, OfferStep, PeerClosed
  <2>3. CASE LockToRegister(s)
    BY <2>3 DEF LockToRegister, OfferStep
  <2>4. CASE Register(s)
    BY <2>4 DEF Register, OfferStep
  <2>5. CASE ConnectionEnds(s)
    BY <2>5 DEF ConnectionEnds, CallStep
  <2> QED
    BY <2>1, <2>2, <2>3, <2>4, <2>5 DEF HandlerStep
<1>2. CASE \E c \in Calls : CallbackStep(c)
  <2> SUFFICES ASSUME NEW c \in Calls, CallbackStep(c) PROVE CoreType'
      BY <1>2
  <2>1. CASE LockSession(c)
    BY <2>1 DEF LockSession, CallStep
  <2>2. CASE AlreadyClosed(c)
    BY <2>2 DEF AlreadyClosed, CallStep
  <2>3. CASE MarkClosed(c)
    BY <2>3 DEF MarkClosed, CallStep
  <2>4. CASE LockToRemove(c)
    BY <2>4 DEF LockToRemove, CallStep
  <2>5. CASE Remove(c)
    BY <2>5 DEF Remove, CallStep
  <2>6. CASE DropTrack(c)
    BY <2>6 DEF DropTrack, CallStep
  <2>7. CASE ClosePeer(c)
    BY <2>7 DEF ClosePeer, PeerClosed
  <2> QED
    BY <2>1, <2>2, <2>3, <2>4, <2>5, <2>6, <2>7 DEF CallbackStep
<1>3. CASE Dispatcher
  <2>1. CASE LockToCopy \/ Copy
    BY <2>1 DEF LockToCopy, Copy
  <2>2. CASE \E s \in Sessions : LockToWrite(s) \/ BeginWrite(s) \/ EndWrite(s)
    BY <2>2 DEF LockToWrite, BeginWrite, EndWrite
  <2> QED
    BY <1>3, <2>1, <2>2 DEF Dispatcher
<1>4. CASE UNCHANGED rtcVars \/ UNCHANGED <<offer, call, sessionVars, mapVars, batch>>
  BY <1>4
<1> QED
  BY <1>1, <1>2, <1>3, <1>4 DEF RtcStep, SessionStep

\* Only the holder of s.mu gives it up, and nobody else closes the session or
\* drops its track.
LEMMA HoldNext == CoreType /\ HoldInv /\ [Next]_vars => HoldInv'
<1> SUFFICES ASSUME CoreType, HoldInv, RtcStep PROVE HoldInv'
    BY RtcCases
<1> USE CallParts DEF CoreType, CallStages, HoldInv, OpenWhileWritten, Open,
                      Checking, Writing, Idle, Between, Copying, At
<1>1. CASE \E s \in Sessions : HandlerStep(s) \/ ConnectionEnds(s)
  <2> SUFFICES ASSUME NEW s \in Sessions, HandlerStep(s) \/ ConnectionEnds(s) PROVE HoldInv'
      BY <1>1
  <2>1. CASE CreateSession(s)
    BY <2>1 DEF CreateSession, OfferStep
  <2>2. CASE CreateFails(s)
    BY <2>2 DEF CreateFails, OfferStep, PeerClosed
  <2>3. CASE LockToRegister(s)
    BY <2>3 DEF LockToRegister, OfferStep
  <2>4. CASE Register(s)
    BY <2>4 DEF Register, OfferStep
  <2>5. CASE ConnectionEnds(s)
    BY <2>5 DEF ConnectionEnds, CallStep
  <2> QED
    BY <2>1, <2>2, <2>3, <2>4, <2>5 DEF HandlerStep
<1>2. CASE \E c \in Calls : CallbackStep(c)
  <2> SUFFICES ASSUME NEW c \in Calls, CallbackStep(c) PROVE HoldInv'
      BY <1>2
  <2>1. CASE LockSession(c)
    BY <2>1 DEF LockSession, CallStep
  <2>2. CASE AlreadyClosed(c)
    BY <2>2 DEF AlreadyClosed, CallStep
  <2>3. CASE MarkClosed(c)
    BY <2>3 DEF MarkClosed, CallStep
  <2>4. CASE LockToRemove(c)
    BY <2>4 DEF LockToRemove, CallStep
  <2>5. CASE Remove(c)
    BY <2>5 DEF Remove, CallStep
  <2>6. CASE DropTrack(c)
    BY <2>6 DEF DropTrack, CallStep
  <2>7. CASE ClosePeer(c)
    BY <2>7 DEF ClosePeer, PeerClosed
  <2> QED
    BY <2>1, <2>2, <2>3, <2>4, <2>5, <2>6, <2>7 DEF CallbackStep
<1>3. CASE Dispatcher
  <2>1. CASE LockToCopy
    BY <2>1 DEF LockToCopy
  <2>2. CASE Copy
    BY <2>2 DEF Copy
  <2>3. ASSUME NEW s \in Sessions, LockToWrite(s) PROVE HoldInv'
    BY <2>3 DEF LockToWrite
  <2>4. ASSUME NEW s \in Sessions, BeginWrite(s) PROVE HoldInv'
    BY <2>4 DEF BeginWrite
  <2>5. ASSUME NEW s \in Sessions, EndWrite(s) PROVE HoldInv'
    BY <2>5 DEF EndWrite
  <2> QED
    BY <1>3, <2>1, <2>2, <2>3, <2>4, <2>5 DEF Dispatcher
<1>4. CASE UNCHANGED rtcVars
  BY <1>4
<1>5. CASE BeginDispatch /\ UNCHANGED <<offer, call, sessionVars, mapVars, batch>>
  BY <1>5 DEF BeginDispatch
<1> QED
  BY <1>1, <1>2, <1>3, <1>4, <1>5 DEF RtcStep, SessionStep

\* close deletes the session before it gives up s.mu; Register comes at most once.
LEMMA LeaveNext == CoreType /\ HoldInv /\ LeaveInv /\ [Next]_vars => LeaveInv'
<1> SUFFICES ASSUME CoreType, HoldInv, LeaveInv, RtcStep PROVE LeaveInv'
    BY RtcCases
<1> USE CallParts DEF CoreType, CallStages, HoldInv, LeaveInv, Leaving
<1>1. CASE \E s \in Sessions : HandlerStep(s) \/ ConnectionEnds(s)
  <2> SUFFICES ASSUME NEW s \in Sessions, HandlerStep(s) \/ ConnectionEnds(s) PROVE LeaveInv'
      BY <1>1
  <2>1. CASE CreateSession(s)
    BY <2>1 DEF CreateSession, OfferStep
  <2>2. CASE CreateFails(s)
    BY <2>2 DEF CreateFails, OfferStep, PeerClosed
  <2>3. CASE LockToRegister(s)
    BY <2>3 DEF LockToRegister, OfferStep
  <2>4. CASE Register(s)
    <3>1. \A r \in Sessions : Leaving(r) => Leaving(r)'
      BY <2>4 DEF Register
    <3>2. offer[s] = "adding" /\ offer' = [offer EXCEPT ![s] = "answered"]
      BY <2>4 DEF Register, OfferStep
    <3>3. closed' = closed /\ early' = early /\ sessions' = sessions \union {s}
      BY <2>4 DEF Register
    <3>4. \A r \in Sessions : r \in sessions' => offer'[r] = "answered"
      BY <3>2, <3>3
    <3>5. ASSUME NEW r \in Sessions, closed'[r], r \notin early'
          PROVE  Leaving(r)' \/ (offer'[r] = "answered" /\ r \notin sessions')
      <4>1. Leaving(r) \/ (offer[r] = "answered" /\ r \notin sessions)
        BY <3>3, <3>5
      <4>2. CASE Leaving(r)
        <5> HIDE DEF Leaving, LeaveInv, HoldInv, CoreType
        <5> QED
          BY <3>1, <4>2
      <4>3. CASE offer[r] = "answered" /\ r \notin sessions
        BY <3>2, <3>3, <4>3
      <4> QED
        BY <4>1, <4>2, <4>3
    <3> QED
      BY <3>4, <3>5
  <2>5. CASE ConnectionEnds(s)
    BY <2>5 DEF ConnectionEnds, CallStep
  <2> QED
    BY <2>1, <2>2, <2>3, <2>4, <2>5 DEF HandlerStep
<1>2. CASE \E c \in Calls : CallbackStep(c)
  <2> SUFFICES ASSUME NEW c \in Calls, CallbackStep(c) PROVE LeaveInv'
      BY <1>2
  <2>1. CASE LockSession(c)
    <3>1. \A r \in Sessions : Leaving(r) => Leaving(r)'
      BY <2>1 DEF LockSession, CallStep
    <3>2. /\ offer' = offer /\ closed' = closed /\ early' = early
          /\ sessions' = sessions
      BY <2>1 DEF LockSession
    <3>3. ASSUME NEW r \in Sessions, closed'[r], r \notin early'
          PROVE  Leaving(r)' \/ (offer'[r] = "answered" /\ r \notin sessions')
      <4>1. Leaving(r) \/ (offer[r] = "answered" /\ r \notin sessions)
        BY <3>2, <3>3
      <4> QED
        BY <3>1, <3>2, <4>1
    <3> QED
      BY <3>2, <3>3
  <2>2. CASE AlreadyClosed(c)
    BY <2>2 DEF AlreadyClosed, CallStep
  <2>3. CASE MarkClosed(c)
    <3>1. \A r \in Sessions : Leaving(r) => Leaving(r)'
      BY <2>3 DEF MarkClosed, CallStep
    <3>2. Leaving(c[1])'
      <4>1. mu[c[1]] = c /\ mu' = mu /\ call'[c] = "marked"
        BY <2>3 DEF MarkClosed, CallStep
      <4> QED
        BY <4>1
    <3>3. /\ offer' = offer /\ early' = early /\ sessions' = sessions
          /\ \A r \in Sessions : r # c[1] => closed'[r] = closed[r]
      BY <2>3 DEF MarkClosed
    <3>4. ASSUME NEW r \in Sessions, closed'[r], r \notin early'
          PROVE  Leaving(r)' \/ (offer'[r] = "answered" /\ r \notin sessions')
      <4>1. CASE r = c[1]
        BY <3>2, <4>1
      <4>2. CASE r # c[1]
        <5>1. Leaving(r) \/ (offer[r] = "answered" /\ r \notin sessions)
          BY <3>3, <3>4, <4>2
        <5> HIDE DEF Leaving, LeaveInv, HoldInv, CoreType
        <5> QED
          BY <3>1, <3>3, <5>1
      <4> QED
        BY <4>1, <4>2
    <3> QED
      BY <3>3, <3>4
  <2>4. CASE LockToRemove(c)
    BY <2>4 DEF LockToRemove, CallStep
  <2>5. CASE Remove(c)
    BY <2>5 DEF Remove, CallStep
  <2>6. CASE DropTrack(c)
    BY <2>6 DEF DropTrack, CallStep
  <2>7. CASE ClosePeer(c)
    BY <2>7 DEF ClosePeer, PeerClosed
  <2> QED
    BY <2>1, <2>2, <2>3, <2>4, <2>5, <2>6, <2>7 DEF CallbackStep
<1>3. CASE Dispatcher
  <2>1. CASE LockToCopy
    BY <2>1 DEF LockToCopy
  <2>2. CASE Copy
    BY <2>2 DEF Copy
  <2>3. ASSUME NEW s \in Sessions, LockToWrite(s) PROVE LeaveInv'
    BY <2>3 DEF LockToWrite
  <2>4. ASSUME NEW s \in Sessions, BeginWrite(s) PROVE LeaveInv'
    BY <2>4 DEF BeginWrite
  <2>5. ASSUME NEW s \in Sessions, EndWrite(s) PROVE LeaveInv'
    BY <2>5 DEF EndWrite
  <2> QED
    BY <1>3, <2>1, <2>2, <2>3, <2>4, <2>5 DEF Dispatcher
<1>4. CASE UNCHANGED rtcVars
  BY <1>4
<1>5. CASE BeginDispatch /\ UNCHANGED <<offer, call, sessionVars, mapVars, batch>>
  BY <1>5 DEF BeginDispatch
<1> QED
  BY <1>1, <1>2, <1>3, <1>4, <1>5 DEF RtcStep, SessionStep

RestType == /\ mapLock \in Calls \union {NoOne} \union {Handler(s) : s \in Sessions}
            /\ mapRead \in BOOLEAN /\ batch \subseteq Sessions
            /\ \/ dispatch \in {Idle, At("lock"), Copying, Between}
               \/ \E s \in Sessions : dispatch \in {Checking(s), Writing(s)}

\* Each step keeps the types of the locks of the map and of dispatchWebRTC.
LEMMA RestNext == CoreType /\ RestType /\ [Next]_vars => RestType'
<1> SUFFICES ASSUME CoreType, RestType, RtcStep PROVE RestType'
    BY RtcCases
<1> USE DEF CoreType, RestType
<1>1. CASE \E s \in Sessions : HandlerStep(s) \/ ConnectionEnds(s)
  <2> SUFFICES ASSUME NEW s \in Sessions, HandlerStep(s) \/ ConnectionEnds(s) PROVE RestType'
      BY <1>1
  <2>1. CASE CreateSession(s)
    BY <2>1 DEF CreateSession, OfferStep
  <2>2. CASE CreateFails(s)
    BY <2>2 DEF CreateFails, OfferStep, PeerClosed
  <2>3. CASE LockToRegister(s)
    BY <2>3 DEF LockToRegister, OfferStep
  <2>4. CASE Register(s)
    BY <2>4 DEF Register, OfferStep
  <2>5. CASE ConnectionEnds(s)
    BY <2>5 DEF ConnectionEnds, CallStep
  <2> QED
    BY <2>1, <2>2, <2>3, <2>4, <2>5 DEF HandlerStep
<1>2. CASE \E c \in Calls : CallbackStep(c)
  <2> SUFFICES ASSUME NEW c \in Calls, CallbackStep(c) PROVE RestType'
      BY <1>2
  <2>1. CASE LockSession(c)
    BY <2>1 DEF LockSession, CallStep
  <2>2. CASE AlreadyClosed(c)
    BY <2>2 DEF AlreadyClosed, CallStep
  <2>3. CASE MarkClosed(c)
    BY <2>3 DEF MarkClosed, CallStep
  <2>4. CASE LockToRemove(c)
    BY <2>4 DEF LockToRemove, CallStep
  <2>5. CASE Remove(c)
    BY <2>5 DEF Remove, CallStep
  <2>6. CASE DropTrack(c)
    BY <2>6 DEF DropTrack, CallStep
  <2>7. CASE ClosePeer(c)
    BY <2>7 DEF ClosePeer, PeerClosed
  <2> QED
    BY <2>1, <2>2, <2>3, <2>4, <2>5, <2>6, <2>7 DEF CallbackStep
<1>3. CASE Dispatcher
  <2>1. CASE LockToCopy
    BY <2>1 DEF LockToCopy
  <2>2. CASE Copy
    BY <2>2 DEF Copy
  <2>3. ASSUME NEW s \in Sessions, LockToWrite(s) PROVE RestType'
    BY <2>3 DEF LockToWrite
  <2>4. ASSUME NEW s \in Sessions, BeginWrite(s) PROVE RestType'
    BY <2>4 DEF BeginWrite
  <2>5. ASSUME NEW s \in Sessions, EndWrite(s) PROVE RestType'
    BY <2>5 DEF EndWrite
  <2> QED
    BY <1>3, <2>1, <2>2, <2>3, <2>4, <2>5 DEF Dispatcher
<1>4. CASE UNCHANGED rtcVars
  BY <1>4
<1>5. CASE BeginDispatch /\ UNCHANGED <<offer, call, sessionVars, mapVars, batch>>
  BY <1>5 DEF BeginDispatch
<1> QED
  BY <1>1, <1>2, <1>3, <1>4, <1>5 DEF RtcStep, SessionStep

-----------------------------------------------------------------------------
(* The locks                                                                *)

\* Who is between Lock and Unlock of webrtcMu holds it.
MapInv ==
    /\ \A s \in Sessions : offer[s] = "adding" => mapLock = Handler(s)
    /\ \A c \in Calls : call[c] = "removing" => mapLock = c
    /\ dispatch = Copying => mapRead

HeldMap == mapLock # NoOne =>
    \/ \E s \in Sessions : mapLock = Handler(s) /\ offer[s] = "adding"
    \/ \E c \in Calls : mapLock = c /\ call[c] = "removing"

HeldBy(s, c) == /\ mu[s] = c /\ c[1] = s
                /\ call[c] \in {"locked", "marked", "removing", "removed"}

HeldSession(s) == mu[s] # NoOne =>
    \/ mu[s] = Broadcast /\ dispatch \in {Checking(s), Writing(s)}
    \/ \E c \in Calls : HeldBy(s, c)

ReadInv == mapRead => mapLock = NoOne /\ dispatch = Copying

SessionsHeld == \A s \in Sessions : HeldSession(s)

LockInv == MapInv /\ ReadInv /\ HeldMap /\ SessionsHeld

\* A handler is none of the calls of a callback, and neither is a free mutex.
LEMMA Holders ==
    /\ \A s \in Sessions : Handler(s) # NoOne
    /\ \A s \in Sessions, c \in Calls : Handler(s) # c
    /\ \A r, s \in Sessions : Handler(r) = Handler(s) => r = s
  BY DEF Handler, Calls

\* Each way into the section of webrtcMu takes the lock, each way out frees it.
LEMMA MapNext == CoreType /\ RestType /\ MapInv /\ ReadInv /\ [Next]_vars => MapInv'
<1> SUFFICES ASSUME CoreType, RestType, MapInv, ReadInv, RtcStep PROVE MapInv'
    BY RtcCases
<1> USE CallParts, Holders DEF CoreType, CallStages, RestType, MapInv, ReadInv,
                      Idle, Between, Copying, Checking, Writing, At
<1>1. CASE \E s \in Sessions : HandlerStep(s) \/ ConnectionEnds(s)
  <2> SUFFICES ASSUME NEW s \in Sessions, HandlerStep(s) \/ ConnectionEnds(s) PROVE MapInv'
      BY <1>1
  <2>1. CASE CreateSession(s)
    BY <2>1 DEF CreateSession, OfferStep
  <2>2. CASE CreateFails(s)
    BY <2>2 DEF CreateFails, OfferStep, PeerClosed
  <2>3. CASE LockToRegister(s)
    BY <2>3 DEF LockToRegister, OfferStep
  <2>4. CASE Register(s)
    BY <2>4 DEF Register, OfferStep
  <2>5. CASE ConnectionEnds(s)
    BY <2>5 DEF ConnectionEnds, CallStep
  <2> QED
    BY <2>1, <2>2, <2>3, <2>4, <2>5 DEF HandlerStep
<1>2. CASE \E c \in Calls : CallbackStep(c)
  <2> SUFFICES ASSUME NEW c \in Calls, CallbackStep(c) PROVE MapInv'
      BY <1>2
  <2>1. CASE LockSession(c)
    BY <2>1 DEF LockSession, CallStep
  <2>2. CASE AlreadyClosed(c)
    BY <2>2 DEF AlreadyClosed, CallStep
  <2>3. CASE MarkClosed(c)
    BY <2>3 DEF MarkClosed, CallStep
  <2>4. CASE LockToRemove(c)
    BY <2>4 DEF LockToRemove, CallStep
  <2>5. CASE Remove(c)
    BY <2>5 DEF Remove, CallStep
  <2>6. CASE DropTrack(c)
    BY <2>6 DEF DropTrack, CallStep
  <2>7. CASE ClosePeer(c)
    BY <2>7 DEF ClosePeer, PeerClosed
  <2> QED
    BY <2>1, <2>2, <2>3, <2>4, <2>5, <2>6, <2>7 DEF CallbackStep
<1>3. CASE Dispatcher
  <2>1. CASE LockToCopy
    BY <2>1 DEF LockToCopy
  <2>2. CASE Copy
    BY <2>2 DEF Copy
  <2>3. ASSUME NEW s \in Sessions, LockToWrite(s) PROVE MapInv'
    BY <2>3 DEF LockToWrite
  <2>4. ASSUME NEW s \in Sessions, BeginWrite(s) PROVE MapInv'
    BY <2>4 DEF BeginWrite
  <2>5. ASSUME NEW s \in Sessions, EndWrite(s) PROVE MapInv'
    BY <2>5 DEF EndWrite
  <2> QED
    BY <1>3, <2>1, <2>2, <2>3, <2>4, <2>5 DEF Dispatcher
<1>4. CASE UNCHANGED rtcVars
  BY <1>4
<1>5. CASE BeginDispatch /\ UNCHANGED <<offer, call, sessionVars, mapVars, batch>>
  BY <1>5 DEF BeginDispatch
<1> QED
  BY <1>1, <1>2, <1>3, <1>4, <1>5 DEF RtcStep, SessionStep


\* webrtcMu has a writer or its one reader.
LEMMA ReadNext == CoreType /\ RestType /\ MapInv /\ ReadInv /\ [Next]_vars => ReadInv'
<1> SUFFICES ASSUME CoreType, RestType, MapInv, ReadInv, RtcStep PROVE ReadInv'
    BY RtcCases
<1> USE CallParts, Holders DEF CoreType, CallStages, RestType, MapInv, ReadInv,
                      Idle, Between, Copying, Checking, Writing, At
<1>1. CASE \E s \in Sessions : HandlerStep(s) \/ ConnectionEnds(s)
  <2> SUFFICES ASSUME NEW s \in Sessions, HandlerStep(s) \/ ConnectionEnds(s) PROVE ReadInv'
      BY <1>1
  <2>1. CASE CreateSession(s)
    BY <2>1 DEF CreateSession, OfferStep
  <2>2. CASE CreateFails(s)
    BY <2>2 DEF CreateFails, OfferStep, PeerClosed
  <2>3. CASE LockToRegister(s)
    BY <2>3 DEF LockToRegister, OfferStep
  <2>4. CASE Register(s)
    BY <2>4 DEF Register, OfferStep
  <2>5. CASE ConnectionEnds(s)
    BY <2>5 DEF ConnectionEnds, CallStep
  <2> QED
    BY <2>1, <2>2, <2>3, <2>4, <2>5 DEF HandlerStep
<1>2. CASE \E c \in Calls : CallbackStep(c)
  <2> SUFFICES ASSUME NEW c \in Calls, CallbackStep(c) PROVE ReadInv'
      BY <1>2
  <2>1. CASE LockSession(c)
    BY <2>1 DEF LockSession, CallStep
  <2>2. CASE AlreadyClosed(c)
    BY <2>2 DEF AlreadyClosed, CallStep
  <2>3. CASE MarkClosed(c)
    BY <2>3 DEF MarkClosed, CallStep
  <2>4. CASE LockToRemove(c)
    BY <2>4 DEF LockToRemove, CallStep
  <2>5. CASE Remove(c)
    BY <2>5 DEF Remove, CallStep
  <2>6. CASE DropTrack(c)
    BY <2>6 DEF DropTrack, CallStep
  <2>7. CASE ClosePeer(c)
    BY <2>7 DEF ClosePeer, PeerClosed
  <2> QED
    BY <2>1, <2>2, <2>3, <2>4, <2>5, <2>6, <2>7 DEF CallbackStep
<1>3. CASE Dispatcher
  <2>1. CASE LockToCopy
    BY <2>1 DEF LockToCopy
  <2>2. CASE Copy
    BY <2>2 DEF Copy
  <2>3. ASSUME NEW s \in Sessions, LockToWrite(s) PROVE ReadInv'
    BY <2>3 DEF LockToWrite
  <2>4. ASSUME NEW s \in Sessions, BeginWrite(s) PROVE ReadInv'
    BY <2>4 DEF BeginWrite
  <2>5. ASSUME NEW s \in Sessions, EndWrite(s) PROVE ReadInv'
    BY <2>5 DEF EndWrite
  <2> QED
    BY <1>3, <2>1, <2>2, <2>3, <2>4, <2>5 DEF Dispatcher
<1>4. CASE UNCHANGED rtcVars
  BY <1>4
<1>5. CASE BeginDispatch /\ UNCHANGED <<offer, call, sessionVars, mapVars, batch>>
  BY <1>5 DEF BeginDispatch
<1> QED
  BY <1>1, <1>2, <1>3, <1>4, <1>5 DEF RtcStep, SessionStep


\* The writer of webrtcMu is in its section.
LEMMA HeldMapNext == CoreType /\ MapInv /\ HeldMap /\ [Next]_vars => HeldMap'
<1> SUFFICES ASSUME CoreType, MapInv, HeldMap, RtcStep PROVE HeldMap'
    BY RtcCases
<1> USE CallParts, Holders DEF CoreType, CallStages, MapInv, HeldMap
<1>1. CASE \E s \in Sessions : HandlerStep(s) \/ ConnectionEnds(s)
  <2> SUFFICES ASSUME NEW s \in Sessions, HandlerStep(s) \/ ConnectionEnds(s) PROVE HeldMap'
      BY <1>1
  <2>1. CASE CreateSession(s)
    BY <2>1 DEF CreateSession, OfferStep
  <2>2. CASE CreateFails(s)
    BY <2>2 DEF CreateFails, OfferStep, PeerClosed
  <2>3. CASE LockToRegister(s)
    BY <2>3 DEF LockToRegister, OfferStep
  <2>4. CASE Register(s)
    BY <2>4 DEF Register, OfferStep
  <2>5. CASE ConnectionEnds(s)
    BY <2>5 DEF ConnectionEnds, CallStep
  <2> QED
    BY <2>1, <2>2, <2>3, <2>4, <2>5 DEF HandlerStep
<1>2. CASE \E c \in Calls : CallbackStep(c)
  <2> SUFFICES ASSUME NEW c \in Calls, CallbackStep(c) PROVE HeldMap'
      BY <1>2
  <2>1. CASE LockSession(c)
    BY <2>1 DEF LockSession, CallStep
  <2>2. CASE AlreadyClosed(c)
    BY <2>2 DEF AlreadyClosed, CallStep
  <2>3. CASE MarkClosed(c)
    BY <2>3 DEF MarkClosed, CallStep
  <2>4. CASE LockToRemove(c)
    BY <2>4 DEF LockToRemove, CallStep
  <2>5. CASE Remove(c)
    BY <2>5 DEF Remove, CallStep
  <2>6. CASE DropTrack(c)
    BY <2>6 DEF DropTrack, CallStep
  <2>7. CASE ClosePeer(c)
    BY <2>7 DEF ClosePeer, PeerClosed
  <2> QED
    BY <2>1, <2>2, <2>3, <2>4, <2>5, <2>6, <2>7 DEF CallbackStep
<1>3. CASE Dispatcher
  <2>1. CASE LockToCopy
    BY <2>1 DEF LockToCopy
  <2>2. CASE Copy
    BY <2>2 DEF Copy
  <2>3. ASSUME NEW s \in Sessions, LockToWrite(s) PROVE HeldMap'
    BY <2>3 DEF LockToWrite
  <2>4. ASSUME NEW s \in Sessions, BeginWrite(s) PROVE HeldMap'
    BY <2>4 DEF BeginWrite
  <2>5. ASSUME NEW s \in Sessions, EndWrite(s) PROVE HeldMap'
    BY <2>5 DEF EndWrite
  <2> QED
    BY <1>3, <2>1, <2>2, <2>3, <2>4, <2>5 DEF Dispatcher
<1>4. CASE UNCHANGED rtcVars
  BY <1>4
<1>5. CASE BeginDispatch /\ UNCHANGED <<offer, call, sessionVars, mapVars, batch>>
  BY <1>5 DEF BeginDispatch
<1> QED
  BY <1>1, <1>2, <1>3, <1>4, <1>5 DEF RtcStep, SessionStep


\* So is the holder of a session's mutex.
LEMMA HeldSessionNext == CoreType /\ HoldInv /\ SessionsHeld /\ [Next]_vars => SessionsHeld'
<1> SUFFICES ASSUME CoreType, HoldInv, SessionsHeld, RtcStep PROVE SessionsHeld'
    BY RtcCases
<1> USE CallParts, Holders DEF CoreType, CallStages, HoldInv, SessionsHeld,
                      HeldSession, HeldBy, Idle, Between, Copying, Checking, Writing, At
<1>1. CASE \E s \in Sessions : HandlerStep(s) \/ ConnectionEnds(s)
  <2> SUFFICES ASSUME NEW s \in Sessions, HandlerStep(s) \/ ConnectionEnds(s) PROVE SessionsHeld'
      BY <1>1
  <2>1. CASE CreateSession(s)
    BY <2>1 DEF CreateSession, OfferStep
  <2>2. CASE CreateFails(s)
    BY <2>2 DEF CreateFails, OfferStep, PeerClosed
  <2>3. CASE LockToRegister(s)
    BY <2>3 DEF LockToRegister, OfferStep
  <2>4. CASE Register(s)
    BY <2>4 DEF Register, OfferStep
  <2>5. CASE ConnectionEnds(s)
    BY <2>5 DEF ConnectionEnds, CallStep
  <2> QED
    BY <2>1, <2>2, <2>3, <2>4, <2>5 DEF HandlerStep
<1>2. CASE \E c \in Calls : CallbackStep(c)
  <2> SUFFICES ASSUME NEW c \in Calls, CallbackStep(c) PROVE SessionsHeld'
      BY <1>2
  <2>1. CASE LockSession(c)
    BY <2>1 DEF LockSession, CallStep
  <2>2. CASE AlreadyClosed(c)
    BY <2>2 DEF AlreadyClosed, CallStep
  <2>3. CASE MarkClosed(c)
    BY <2>3 DEF MarkClosed, CallStep
  <2>4. CASE LockToRemove(c)
    BY <2>4 DEF LockToRemove, CallStep
  <2>5. CASE Remove(c)
    BY <2>5 DEF Remove, CallStep
  <2>6. CASE DropTrack(c)
    BY <2>6 DEF DropTrack, CallStep
  <2>7. CASE ClosePeer(c)
    BY <2>7 DEF ClosePeer, PeerClosed
  <2> QED
    BY <2>1, <2>2, <2>3, <2>4, <2>5, <2>6, <2>7 DEF CallbackStep
<1>3. CASE Dispatcher
  <2>1. CASE LockToCopy
    BY <2>1 DEF LockToCopy
  <2>2. CASE Copy
    BY <2>2 DEF Copy
  <2>3. ASSUME NEW s \in Sessions, LockToWrite(s) PROVE SessionsHeld'
    BY <2>3 DEF LockToWrite
  <2>4. ASSUME NEW s \in Sessions, BeginWrite(s) PROVE SessionsHeld'
    BY <2>4 DEF BeginWrite
  <2>5. ASSUME NEW s \in Sessions, EndWrite(s) PROVE SessionsHeld'
    BY <2>5 DEF EndWrite
  <2> QED
    BY <1>3, <2>1, <2>2, <2>3, <2>4, <2>5 DEF Dispatcher
<1>4. CASE UNCHANGED rtcVars
  BY <1>4
<1>5. CASE BeginDispatch /\ UNCHANGED <<offer, call, sessionVars, mapVars, batch>>
  BY <1>5 DEF BeginDispatch
<1> QED
  BY <1>1, <1>2, <1>3, <1>4, <1>5 DEF RtcStep, SessionStep


-----------------------------------------------------------------------------
(* The invariant and what follows from it                                   *)

RtcInv == CoreType /\ RestType /\ HoldInv /\ LeaveInv

LEMMA RtcInit0 == Init => RtcInv
<1> SUFFICES ASSUME Init PROVE RtcInv
    OBVIOUS
<1> USE CallParts DEF Init, RtcInit
<1>1. CoreType /\ RestType
  BY DEF CoreType, CallStages, RestType, Idle
<1>2. HoldInv /\ LeaveInv
  BY DEF HoldInv, LeaveInv, OpenWhileWritten, Idle, At, Checking, Writing
<1> QED
  BY <1>1, <1>2 DEF RtcInv

\* Types, the holders of s.mu, and where a closed session is: inductive together.
THEOREM RtcInvariant == Spec => []RtcInv
  BY RtcInit0, CoreNext, RestNext, HoldNext, LeaveNext, PTL DEF Spec, RtcInv

\* Every variable of the audio path keeps its type, audioCh its capacity.
THEOREM TypeCorrect == Spec => []TypeOK
<1>1. RtcInv => RtcType
  BY DEF RtcInv, CoreType, CallStages, RestType, RtcType
<1>2. FeedInv => FeedType
  BY DEF FeedInv
<1> QED
  BY <1>1, <1>2, RtcInvariant, FeedInit0, FeedInvNext, PTL DEF Spec, TypeOK

\* dispatchWebRTC writes packets to open sessions only, which stay open meanwhile.
THEOREM WritesToOpen == Spec => []OpenWhileWritten
  BY RtcInvariant, PTL DEF RtcInv, HoldInv

\* A closed session is on its way out of the map, unless close came before its
\* registration.
THEOREM ClosedIsRemoved == Spec => []ClosedLeavesMap
<1>1. RtcInv => ClosedLeavesMap
  BY DEF RtcInv, LeaveInv, Leaving, ClosedLeavesMap
<1> QED
  BY <1>1, RtcInvariant, PTL

LEMMA LockInit0 == Init => LockInv
  BY DEF Init, RtcInit, LockInv, MapInv, ReadInv, HeldMap, SessionsHeld, HeldSession,
         Idle, Copying, At

LEMMA LockNext == RtcInv /\ LockInv /\ [Next]_vars => LockInv'
<1> SUFFICES ASSUME RtcInv, LockInv, [Next]_vars PROVE LockInv'
    OBVIOUS
<1>1. CoreType /\ RestType /\ HoldInv
  BY DEF RtcInv
<1>2. MapInv /\ ReadInv /\ HeldMap /\ SessionsHeld
  BY DEF LockInv
<1>3. MapInv' /\ ReadInv'
  BY <1>1, <1>2, MapNext, ReadNext
<1>4. HeldMap' /\ SessionsHeld'
  BY <1>1, <1>2, HeldMapNext, HeldSessionNext
<1> QED
  BY <1>3, <1>4 DEF LockInv

\* However many sessions are made, closed and written to at once, a mutex is held
\* only inside its section of close, Register or dispatchWebRTC, and none of these
\* waits for a mutex whose holder waits for it: session first, then the map.
THEOREM LocksAreReleased == Spec => []HoldersGoOn
<1>1. LockInv => HoldersGoOn
  BY DEF LockInv, ReadInv, HeldMap, SessionsHeld, HeldSession, HeldBy, HoldersGoOn
<1> QED
  BY <1>1, RtcInvariant, LockInit0, LockNext, PTL DEF Spec

=============================================================================
