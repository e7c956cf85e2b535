----------------------------- MODULE AudioPath ------------------------------
(***************************************************************************)
(* The audio path: the read goroutine puts frames in audioCh (Feed), the   *)
(* audio broadcast loop takes them and writes each to the WebRTC sessions  *)
(* (WebRTC) before it takes the next.  What the loop also sends to the     *)
(* websocket clients never blocks it, and is the subject of Hub.           *)
(***************************************************************************)
EXTENDS Feed, WebRTC

vars == <<feedVars, rtcVars>>

Init == FeedInit /\ RtcInit

\* runAudioBroadcast: a frame, then its dispatch.
Broadcaster ==
    \/ Take /\ BeginDispatch
            /\ UNCHANGED <<offer, call, sessionVars, mapVars, batch>>
    \/ Dispatcher /\ UNCHANGED feedVars

Next == \/ Putter /\ UNCHANGED rtcVars
        \/ Broadcaster
        \/ SessionStep /\ UNCHANGED feedVars

Spec == Init /\ [][Next]_vars

\* The goroutines run.  Go's mutexes serve everyone who waits; here at most two
\* calls and the broadcast loop do, and each call waits once, so that weak
\* fairness is enough.  Nothing makes a frame, an offer or a lost connection happen.
Fairness ==
    /\ WF_vars((MakeRoom \/ Retry) /\ UNCHANGED rtcVars)
    /\ WF_vars(Broadcaster)
    /\ \A s \in Sessions : WF_vars(Register(s) /\ UNCHANGED feedVars)
    /\ \A c \in Calls : WF_vars(CallbackStep(c) /\ UNCHANGED feedVars)

FairSpec == Spec /\ Fairness

-----------------------------------------------------------------------------
TypeOK == FeedType /\ RtcType

\* The queue keeps its promise: frames leave in order, and a frame is lost only
\* to one that is newer, although the broadcast loop takes frames between the
\* selects by which the read goroutine makes room.
PutKeepsNewest == LW!Spec

\* However sessions are made and closed, a frame put is followed by the complete
\* dispatch of that frame or a newer one.
AudioServed ==
    \A n \in 1 .. MaxFrames : put >= n ~> taken >= n /\ dispatch = Idle

\* However often frames are dispatched, close ends: neither mutex is taken in
\* an order that could make the two wait for each other.
CloseEnds == \A c \in Calls : call[c] = "begun" ~> call[c] = "done"
=============================================================================
