------------------------------- MODULE WebRTC -------------------------------
(***************************************************************************)
(* The WebRTC sessions of the hub (internal/server/webrtc.go).  A session  *)
(* is made by the HTTP handler of an offer, registered in webrtcSessions,  *)
(* served by dispatchWebRTC on the audio broadcast loop, and closed by the *)
(* connection's state callback.  The WebRTC library runs each call of the  *)
(* callback in a goroutine of its own, and the pc.Close that a call makes  *)
(* (or that a handler makes when a later step fails) makes another call.   *)
(***************************************************************************)
EXTENDS Integers, FiniteSets

CONSTANTS Sessions,     \* peer connections
          NoOne,        \* holder of a free mutex
          Broadcast     \* the audio broadcast goroutine

\* <<s, 1>>: the connection has failed or is lost; <<s, 2>>: it has been closed.
Calls == Sessions \X {1, 2}
Handler(s) == <<s, 0>>        \* the HTTP handler of the offer

ASSUME WebRTCAssumption ==
    /\ NoOne # Broadcast
    /\ \A s \in Sessions, i \in {0, 1, 2} : <<s, i>> \notin {NoOne, Broadcast}

VARIABLES offer,      \* offer[s]: how far the handler has come
          call,       \* call[c]: how far a call of the state callback has come
          closed,     \* s.closed
          track,      \* s.track is not nil
          mu,         \* mu[s]: holder of s.mu
          sessions,   \* h.webrtcSessions
          mapLock,    \* writer holding h.webrtcMu
          mapRead,    \* the broadcast goroutine holds h.webrtcMu for reading
          dispatch,   \* how far dispatchWebRTC has come
          batch,      \* its copy of the sessions, those still to be written to
          early       \* history: sessions closed before they were registered

sessionVars  == <<closed, track, mu, early>>
mapVars      == <<sessions, mapLock, mapRead>>
dispatchVars == <<dispatch, batch>>
rtcVars      == <<offer, call, sessionVars, mapVars, dispatchVars>>

\* Points of dispatchWebRTC and of the writeMulaw it calls.
At(point)   == [at |-> point, to |-> NoOne]
Idle        == At("idle")
Copying     == At("copy")
Between     == At("next")
Checking(s) == [at |-> "check", to |-> s]
Writing(s)  == [at |-> "write", to |-> s]

RtcInit ==
    /\ offer = [s \in Sessions |-> "none"]
    /\ call = [c \in Calls |-> "none"]
    /\ closed = [s \in Sessions |-> FALSE]
    /\ track = [s \in Sessions |-> FALSE]
    /\ mu = [s \in Sessions |-> NoOne]
    /\ sessions = {} /\ mapLock = NoOne /\ mapRead = FALSE
    /\ dispatch = Idle /\ batch = {}
    /\ early = {}

-----------------------------------------------------------------------------
(* HandleWebRTCOffer                                                        *)

OfferStep(s, from, to) == offer[s] = from /\ offer' = [offer EXCEPT ![s] = to]

\* createWebRTCSession up to OnConnectionStateChange.
CreateSession(s) ==
    /\ OfferStep(s, "none", "created")
    /\ track' = [track EXCEPT ![s] = TRUE]
    /\ UNCHANGED <<call, closed, mu, early, mapVars, dispatchVars>>

\* pc.Close: the first one closes the connection, with a call of its own.
PeerClosed(c, s) == IF c = <<s, 2>> /\ call[c] = "none" THEN "begun" ELSE call[c]

\* A later step fails: nothing is registered.
CreateFails(s) ==
    /\ OfferStep(s, "created", "failed")
    /\ call' = [c \in Calls |-> PeerClosed(c, s)]
    /\ UNCHANGED <<sessionVars, mapVars, dispatchVars>>

LockToRegister(s) ==
    /\ mapLock = NoOne /\ ~mapRead
    /\ OfferStep(s, "created", "adding")
    /\ mapLock' = Handler(s)
    /\ UNCHANGED <<call, sessionVars, sessions, mapRead, dispatchVars>>

Register(s) ==
    /\ OfferStep(s, "adding", "answered")
    /\ sessions' = sessions \union {s} /\ mapLock' = NoOne
    /\ UNCHANGED <<call, sessionVars, mapRead, dispatchVars>>

-----------------------------------------------------------------------------
(* The state callback: close, then pc.Close                                 *)

CallStep(c, from, to) == call[c] = from /\ call' = [call EXCEPT ![c] = to]

\* The connection fails or is lost, at any time after the session was made.
ConnectionEnds(s) ==
    /\ offer[s] \in {"created", "adding", "answered"} /\ call[<<s, 2>>] = "none"
    /\ CallStep(<<s, 1>>, "none", "begun")
    /\ UNCHANGED <<offer, sessionVars, mapVars, dispatchVars>>

\* close without s.mu.
LockSessionNot(c) ==
    /\ CallStep(c, "begun", "locked")
    /\ mu' = [mu EXCEPT ![c[1]] = c]
    /\ UNCHANGED <<offer, closed, track, early, mapVars, dispatchVars>>

LockSession(c) ==
    /\ mu[c[1]] = NoOne
    /\ CallStep(c, "begun", "locked")
    /\ mu' = [mu EXCEPT ![c[1]] = c]
    /\ UNCHANGED <<offer, closed, track, early, mapVars, dispatchVars>>

\* close without the Unlock of its early return.
AlreadyClosedKeepsLock(c) ==
    /\ closed[c[1]]
    /\ CallStep(c, "locked", "unlocked")
    /\ UNCHANGED <<offer, sessionVars, mapVars, dispatchVars>>

AlreadyClosed(c) ==
    /\ closed[c[1]]
    /\ CallStep(c, "locked", "unlocked")
    /\ mu' = [mu EXCEPT ![c[1]] = NoOne]
    /\ UNCHANGED <<offer, closed, track, early, mapVars, dispatchVars>>

MarkClosed(c) ==
    /\ ~closed[c[1]]
    /\ CallStep(c, "locked", "marked")
    /\ closed' = [closed EXCEPT ![c[1]] = TRUE]
    /\ UNCHANGED <<offer, track, mu, early, mapVars, dispatchVars>>

LockToRemove(c) ==
    /\ mapLock = NoOne /\ ~mapRead
    /\ CallStep(c, "marked", "removing")
    /\ mapLock' = c
    /\ UNCHANGED <<offer, sessionVars, sessions, mapRead, dispatchVars>>

\* close without its delete.
RemoveNot(c) ==
    /\ CallStep(c, "removing", "removed")
    /\ mapLock' = NoOne
    /\ early' = IF c[1] \in sessions THEN early ELSE early \union {c[1]}
    /\ UNCHANGED <<offer, closed, track, mu, sessions, mapRead, dispatchVars>>

Remove(c) ==
    /\ CallStep(c, "removing", "removed")
    /\ sessions' = sessions \ {c[1]} /\ mapLock' = NoOne
    /\ early' = IF c[1] \in sessions THEN early ELSE early \union {c[1]}
    /\ UNCHANGED <<offer, closed, track, mu, mapRead, dispatchVars>>

DropTrack(c) ==
    /\ CallStep(c, "removed", "unlocked")
    /\ track' = [track EXCEPT ![c[1]] = FALSE]
    /\ mu' = [mu EXCEPT ![c[1]] = NoOne]
    /\ UNCHANGED <<offer, closed, early, mapVars, dispatchVars>>

\* The call's pc.Close.
ClosePeer(c) ==
    /\ call[c] = "unlocked"
    /\ call' = [d \in Calls |-> IF d = c THEN "done" ELSE PeerClosed(d, c[1])]
    /\ UNCHANGED <<offer, sessionVars, mapVars, dispatchVars>>

-----------------------------------------------------------------------------
(* dispatchWebRTC                                                           *)

\* Called by runAudioBroadcast with each frame it takes.
BeginDispatch == dispatch = Idle /\ dispatch' = At("lock")

LockToCopy ==
    /\ dispatch = At("lock") /\ mapLock = NoOne
    /\ mapRead' = TRUE /\ dispatch' = Copying
    /\ UNCHANGED <<offer, call, sessionVars, sessions, mapLock, batch>>

\* dispatchWebRTC without its RUnlock.
CopyHolding ==
    /\ dispatch = Copying
    /\ batch' = sessions /\ UNCHANGED mapRead
    /\ dispatch' = IF sessions = {} THEN Idle ELSE Between
    /\ UNCHANGED <<offer, call, sessionVars, sessions, mapLock>>

Copy ==
    /\ dispatch = Copying
    /\ batch' = sessions /\ mapRead' = FALSE
    /\ dispatch' = IF sessions = {} THEN Idle ELSE Between
    /\ UNCHANGED <<offer, call, sessionVars, sessions, mapLock>>

\* writeMulaw, for each session in any order.
LockToWrite(s) ==
    /\ dispatch = Between /\ s \in batch /\ mu[s] = NoOne
    /\ mu' = [mu EXCEPT ![s] = Broadcast]
    /\ batch' = batch \ {s}
    /\ dispatch' = Checking(s)
    /\ UNCHANGED <<offer, call, closed, track, early, mapVars>>

Open(s) == ~closed[s] /\ track[s]

BeginWrite(s) ==
    /\ dispatch = Checking(s) /\ Open(s)
    /\ dispatch' = Writing(s)
    /\ UNCHANGED <<offer, call, sessionVars, mapVars, batch>>

\* The session is closed, or its packets have been written, or one has failed.
EndWrite(s) ==
    /\ \/ dispatch = Checking(s) /\ ~Open(s)
       \/ dispatch = Writing(s)
    /\ mu' = [mu EXCEPT ![s] = NoOne]
    /\ dispatch' = IF batch = {} THEN Idle ELSE Between
    /\ UNCHANGED <<offer, call, closed, track, early, mapVars, batch>>

-----------------------------------------------------------------------------
HandlerStep(s)  == CreateSession(s) \/ CreateFails(s) \/ LockToRegister(s) \/ Register(s)
CallbackStep(c) == \/ LockSession(c) \/ AlreadyClosed(c) \/ MarkClosed(c)
                   \/ LockToRemove(c) \/ Remove(c) \/ DropTrack(c) \/ ClosePeer(c)
Dispatcher == \/ LockToCopy \/ Copy
              \/ \E s \in Sessions : LockToWrite(s) \/ BeginWrite(s) \/ EndWrite(s)

SessionStep == \/ \E s \in Sessions : HandlerStep(s) \/ ConnectionEnds(s)
               \/ \E c \in Calls : CallbackStep(c)

-----------------------------------------------------------------------------
RtcType ==
    /\ offer \in [Sessions -> {"none", "created", "adding", "answered", "failed"}]
    /\ call \in [Calls -> {"none", "begun", "locked", "marked", "removing", "removed",
                           "unlocked", "done"}]
    /\ closed \in [Sessions -> BOOLEAN] /\ track \in [Sessions -> BOOLEAN]
    /\ mu \in [Sessions -> Calls \union {NoOne, Broadcast}]
    /\ sessions \subseteq Sessions /\ early \subseteq Sessions
    /\ mapLock \in Calls \union {NoOne} \union {Handler(s) : s \in Sessions}
    /\ mapRead \in BOOLEAN
    /\ \/ dispatch \in {Idle, At("lock"), Copying, Between}
       \/ \E s \in Sessions : dispatch \in {Checking(s), Writing(s)}
    /\ batch \subseteq Sessions

\* Packets are written to a session only while it is open: close, which drops
\* the track they are written to, waits for writeMulaw, and the other way round.
OpenWhileWritten == \A s \in Sessions : dispatch = Writing(s) => Open(s)

\* close takes the session out of the map, while it holds the session.  Only a
\* session closed before its handler registered it stays there, closed, for the
\* life of the process.
ClosedLeavesMap ==
    \A s \in Sessions : closed[s] /\ s \in sessions /\ s \notin early
        => \E c \in Calls : mu[s] = c /\ c[1] = s /\ call[c] \in {"marked", "removing"}

\* Whoever holds a mutex is in the section that gives it up, and in no section is
\* a mutex taken that its holder could be waiting behind: the holder of webrtcMu
\* waits for nothing, writeMulaw, holding a session's mutex, for none, and close,
\* holding one, for webrtcMu at most.
HoldersGoOn ==
    /\ mapRead => mapLock = NoOne /\ dispatch = Copying
    /\ mapLock # NoOne =>
          \/ \E s \in Sessions : mapLock = Handler(s) /\ offer[s] = "adding"
          \/ \E c \in Calls : mapLock = c /\ call[c] = "removing"
    /\ \A s \in Sessions : mu[s] # NoOne =>
          \/ mu[s] = Broadcast /\ dispatch \in {Checking(s), Writing(s)}
          \/ \E c \in Calls : /\ mu[s] = c /\ c[1] = s
                             /\ call[c] \in {"locked", "marked", "removing", "removed"}
=============================================================================
