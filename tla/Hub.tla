-------------------------------- MODULE Hub --------------------------------
(***************************************************************************)
(* The websocket side of internal/server/server.go: the Hub, the goroutine *)
(* that runs HandleWS for each client, the writeLoop goroutine of each     *)
(* client, and the goroutines that broadcast what the receiver produces.   *)
(*                                                                         *)
(* h.mu is Go's sync.RWMutex: a Lock() waits for the readers there are and *)
(* lets no new reader in while it waits.  What it protects when locked for *)
(* writing is one statement each time, taken with the release in one step. *)
(*                                                                         *)
(* The receiver's Config is a version number.  A frame has no content.  A  *)
(* call into the receiver is one step here: that it returns is what        *)
(* StreamLifecycle's liveness properties are about.                        *)
(*                                                                         *)
(* A definition whose name adds to that of the one below it is a mutant of *)
(* it; Next reaches none of them.                                          *)
(***************************************************************************)
EXTENDS Naturals, Sequences

CONSTANTS
    Clients,     \* websocket clients, each connects at most once
    Feeds,       \* run{Audio,Spectrum,IQ,Decode}Broadcast goroutines
    NoOne,       \* no Lock() is waiting
    Volumes,     \* the volumes clients set, of 0 .. 100
    SendCap,     \* capacity of client.send (64 in the code)
    MaxCmds,     \* bound: commands all clients send
    MaxFrames    \* bound: frames the receiver produces

ASSUME HubAssumption ==
    /\ Clients \cap Feeds = {} /\ NoOne \notin Clients \cup Feeds
    /\ Volumes \subseteq 0 .. 100
    /\ SendCap \in Nat \ {0} /\ MaxCmds \in Nat /\ MaxFrames \in Nat

VARIABLES
    clients,    \* h.clients
    vol,        \* h.clientVolume
    readers,    \* the goroutines that hold h.mu for reading
    waiting,    \* the goroutine whose h.mu.Lock() waits for them
    cfg,        \* the version of rx.Config()
    due,        \* the version the latest command that ends in a broadcast set
    pc,         \* where each HandleWS and each broadcast goroutine stands
    out,        \* the message each of them is about to queue
    todo,       \* the clients its broadcast loop has not come to
    send,       \* client.send
    sendOpen,   \* client.send exists and is not closed
    conn,       \* the connection: up, lost (by the peer), closed (by us)
    writer,     \* where each writeLoop stands
    hand,       \* the message it writes
    seen,       \* the latest version the browser was told
    shown,      \* the volume the browser was told last
    missed,     \* the clients a status was dropped for
    volSet,     \* some client set the volume
    served,     \* the clients whose HandleWS queued the first status
    cmds,       \* how many commands were sent
    frames      \* how many frames were produced

mutexVars  == <<readers, waiting>>
sharedVars == <<clients, vol, cfg, due>>
taskVars   == <<pc, out, todo>>
chanVars   == <<send, sendOpen>>
writerVars == <<conn, writer, hand>>
viewVars   == <<seen, shown, missed, served, volSet>>
boundVars  == <<cmds, frames>>
vars == <<mutexVars, sharedVars, taskVars, chanVars, writerVars, viewVars,
          boundVars>>

Tasks == Clients \cup Feeds

\* statusJSON reports a volume that is not in 1 .. 100 as 80.
ReportedVolume(v) == IF v \in 1 .. 100 THEN v ELSE 80

Status(c, v) == [kind |-> "status", cfg |-> c, vol |-> v]
Frame        == [kind |-> "frame", cfg |-> 0, vol |-> 0]

Messages == [kind : {"status", "frame"}, cfg : 0 .. MaxCmds, vol : 0 .. 100]

\* Stages of HandleWS; a Lock() is a stage that waits for its turn and one
\* that waits for the readers.
LockStages == {"register", "setVolume", "unregister"}
Stages == {"new", "status", "statusVol", "first", "read", "bcast", "send",
           "close", "gone", "idle"} \cup LockStages

TypeOK ==
    /\ clients \subseteq Clients
    /\ vol \in 0 .. 100
    /\ readers \subseteq Tasks /\ waiting \in Clients \cup {NoOne}
    /\ cfg \in 0 .. cmds /\ due \in 0 .. cmds
    /\ pc \in [Tasks -> Stages]
    /\ out \in [Tasks -> Messages]
    /\ todo \in [Tasks -> SUBSET Clients]
    /\ send \in [Clients -> Seq(Messages)]
    /\ \A c \in Clients : Len(send[c]) <= SendCap
    /\ sendOpen \in [Clients -> BOOLEAN]
    /\ conn \in [Clients -> {"up", "lost", "closed"}]
    /\ writer \in [Clients -> {"none", "take", "write", "failed", "done"}]
    /\ hand \in [Clients -> Messages]
    /\ seen \in [Clients -> 0 .. MaxCmds]
    /\ shown \in [Clients -> 0 .. 100]
    /\ missed \subseteq Clients /\ served \subseteq Clients
    /\ volSet \in BOOLEAN
    /\ cmds \in 0 .. MaxCmds /\ frames \in 0 .. MaxFrames

\* NewHub, RunBroadcast's goroutines waiting for frames, and no client yet.
Init ==
    /\ clients = {} /\ vol = 0 /\ readers = {} /\ waiting = NoOne
    /\ cfg = 0 /\ due = 0
    /\ pc = [t \in Tasks |-> IF t \in Clients THEN "new" ELSE "idle"]
    /\ out = [t \in Tasks |-> Frame]
    /\ todo = [t \in Tasks |-> {}]
    /\ send = [c \in Clients |-> <<>>]
    /\ sendOpen = [c \in Clients |-> FALSE]
    /\ conn = [c \in Clients |-> "up"]
    /\ writer = [c \in Clients |-> "none"]
    /\ hand = [c \in Clients |-> Frame]
    /\ seen = [c \in Clients |-> 0]
    /\ shown = [c \in Clients |-> 0]
    /\ missed = {} /\ served = {} /\ volSet = FALSE
    /\ cmds = 0 /\ frames = 0

Step(t, from, to) == pc[t] = from /\ pc' = [pc EXCEPT ![t] = to]

-----------------------------------------------------------------------------
(* h.mu                                                                    *)

\* Lock() has its turn among the writers and now waits for the readers.
WaitForReaders(c) ==
    /\ pc[c] \in LockStages /\ waiting = NoOne
    /\ waiting' = c
    /\ UNCHANGED <<readers, sharedVars, taskVars, chanVars, writerVars,
                   viewVars, boundVars>>

Locked(c) == waiting = c /\ readers = {} /\ waiting' = NoOne

\* RLock() is not held up by a writer.
MayRead == waiting = NoOne

-----------------------------------------------------------------------------
(* HandleWS                                                                *)

\* Upgrade succeeds, the client and its channel are made.
Connect(c) ==
    /\ Step(c, "new", "register")
    /\ sendOpen' = [sendOpen EXCEPT ![c] = TRUE]
    /\ UNCHANGED <<mutexVars, sharedVars, out, todo, send, writerVars,
                   viewVars, boundVars>>

\* The client enters h.clients, then its writeLoop is started.
Register(c) ==
    /\ Locked(c)
    /\ Step(c, "register", "status")
    /\ clients' = clients \cup {c}
    /\ writer' = [writer EXCEPT ![c] = "take"]
    /\ UNCHANGED <<readers, vol, cfg, due, out, todo, chanVars, conn, hand,
                   viewVars, boundVars>>

ReadConfigLocked(c) ==
    /\ MayRead
    /\ Step(c, "status", "statusVol")
    /\ readers' = readers \cup {c}
    /\ out' = [out EXCEPT ![c] = Status(cfg, 0)]
    /\ UNCHANGED <<waiting, sharedVars, todo, chanVars, writerVars, viewVars,
                   boundVars>>

\* statusJSON takes the configuration first ...
ReadConfig(c) ==
    /\ Step(c, "status", "statusVol")
    /\ out' = [out EXCEPT ![c] = Status(cfg, 0)]
    /\ UNCHANGED <<mutexVars, sharedVars, todo, chanVars, writerVars,
                   viewVars, boundVars>>

\* ... and the volume, under h.mu.  The first status of a client is queued for
\* it alone, every other one is broadcast.
ReadVolume(c) ==
    /\ MayRead
    /\ Step(c, "statusVol", IF c \in served THEN "bcast" ELSE "first")
    /\ out' = [out EXCEPT ![c].vol = ReportedVolume(vol)]
    /\ UNCHANGED <<mutexVars, sharedVars, todo, chanVars, writerVars,
                   viewVars, boundVars>>

\* A blocking send, from HandleWS itself.
QueueFirst(c) ==
    /\ Len(send[c]) < SendCap
    /\ Step(c, "first", "read")
    /\ send' = [send EXCEPT ![c] = Append(@, out[c])]
    /\ out' = [out EXCEPT ![c] = Frame]
    /\ served' = served \cup {c}
    /\ UNCHANGED <<mutexVars, sharedVars, todo, sendOpen, writerVars, seen,
                   shown, missed, volSet, boundVars>>

\* ReadMessage fails once the connection is gone: the loop ends and the
\* deferred function begins.
ReadError(c) ==
    /\ conn[c] # "up"
    /\ Step(c, "read", "unregister")
    /\ UNCHANGED <<mutexVars, sharedVars, out, todo, chanVars, writerVars,
                   viewVars, boundVars>>

UnregisterNoLock(c) ==
    /\ Step(c, "unregister", "close")
    /\ clients' = clients \ {c}
    /\ waiting' = IF waiting = c THEN NoOne ELSE waiting
    /\ UNCHANGED <<readers, vol, cfg, due, out, todo, chanVars, writerVars,
                   viewVars, boundVars>>

Unregister(c) ==
    /\ Locked(c)
    /\ Step(c, "unregister", "close")
    /\ clients' = clients \ {c}
    /\ UNCHANGED <<readers, vol, cfg, due, out, todo, chanVars, writerVars,
                   viewVars, boundVars>>

CloseConnOnly(c) ==
    /\ Step(c, "close", "gone")
    /\ conn' = [conn EXCEPT ![c] = "closed"]
    /\ UNCHANGED <<mutexVars, sharedVars, out, todo, chanVars, writer, hand,
                   viewVars, boundVars>>

\* close(c.send), which lets writeLoop end, then conn.Close().
CloseClient(c) ==
    /\ Step(c, "close", "gone")
    /\ sendOpen' = [sendOpen EXCEPT ![c] = FALSE]
    /\ conn' = [conn EXCEPT ![c] = "closed"]
    /\ UNCHANGED <<mutexVars, sharedVars, out, todo, send, writer, hand,
                   viewVars, boundVars>>

-----------------------------------------------------------------------------
(* handleCmd                                                               *)

ReadsCommand(c) == conn[c] = "up" /\ cmds < MaxCmds /\ cmds' = cmds + 1

SetConfigAfterStatus(c) ==
    /\ ReadsCommand(c)
    /\ Step(c, "read", "statusVol")
    /\ out' = [out EXCEPT ![c] = Status(cfg, 0)]
    /\ cfg' = cfg + 1 /\ due' = cfg + 1
    /\ UNCHANGED <<mutexVars, clients, vol, todo, chanVars, writerVars,
                   viewVars, frames>>

\* A command that changes the receiver and sets changed.
SetConfig(c) ==
    /\ ReadsCommand(c)
    /\ Step(c, "read", "status")
    /\ cfg' = cfg + 1 /\ due' = cfg + 1
    /\ UNCHANGED <<mutexVars, clients, vol, out, todo, chanVars, writerVars,
                   viewVars, frames>>

\* tune and center (and the meteor commands) change it too, and tell nobody.
Tune(c) ==
    /\ ReadsCommand(c) /\ pc[c] = "read"
    /\ cfg' = cfg + 1
    /\ UNCHANGED <<mutexVars, clients, vol, due, taskVars, chanVars,
                   writerVars, viewVars, frames>>

\* volume, which needs h.mu for writing.
ReadVolumeCmd(c) ==
    /\ ReadsCommand(c)
    /\ Step(c, "read", "setVolume")
    /\ \E v \in Volumes : out' = [out EXCEPT ![c] = Status(0, v)]
    /\ UNCHANGED <<mutexVars, sharedVars, todo, chanVars, writerVars,
                   viewVars, frames>>

SetVolume(c) ==
    /\ Locked(c)
    /\ Step(c, "setVolume", "status")
    /\ vol' = out[c].vol /\ volSet' = TRUE
    /\ UNCHANGED <<readers, clients, cfg, due, out, todo, chanVars,
                   writerVars, seen, shown, missed, served, boundVars>>

-----------------------------------------------------------------------------
(* The broadcast goroutines, and broadcast                                 *)

\* The receiver's channel yields a frame.
TakeFrame(f) ==
    /\ frames < MaxFrames
    /\ Step(f, "idle", "bcast")
    /\ frames' = frames + 1
    /\ UNCHANGED <<mutexVars, sharedVars, out, todo, chanVars, writerVars,
                   viewVars, cmds>>

\* broadcast locks h.mu for reading and goes through h.clients.
BeginBroadcast(t) ==
    /\ MayRead
    /\ Step(t, "bcast", "send")
    /\ readers' = readers \cup {t}
    /\ todo' = [todo EXCEPT ![t] = clients]
    /\ UNCHANGED <<waiting, sharedVars, out, chanVars, writerVars, viewVars,
                   boundVars>>

HasRoomOffByOne(c) == Len(send[c]) <= SendCap
HasRoom(c) == Len(send[c]) < SendCap

\* The select's default.
DropNever(c) == FALSE
Drop(c) == ~HasRoom(c)

BroadcastTo(t, c) ==
    /\ pc[t] = "send" /\ c \in todo[t]
    /\ todo' = [todo EXCEPT ![t] = @ \ {c}]
    /\ \/ /\ HasRoom(c)
          /\ send' = [send EXCEPT ![c] = Append(@, out[t])]
          /\ UNCHANGED missed
       \/ /\ Drop(c)
          /\ missed' = IF out[t].kind = "status" THEN missed \cup {c} ELSE missed
          /\ UNCHANGED send
    /\ UNCHANGED <<mutexVars, sharedVars, pc, out, sendOpen, writerVars, seen,
                   shown, served, volSet, boundVars>>

EndBroadcast(t) ==
    /\ todo[t] = {}
    /\ Step(t, "send", IF t \in Feeds THEN "idle" ELSE "read")
    /\ readers' = readers \ {t}
    /\ out' = [out EXCEPT ![t] = Frame]
    /\ UNCHANGED <<waiting, sharedVars, todo, chanVars, writerVars, viewVars,
                   boundVars>>

-----------------------------------------------------------------------------
(* writeLoop, and the browser at the other end                             *)

WriterStep(c, from, to) == writer[c] = from /\ writer' = [writer EXCEPT ![c] = to]

TakeMessage(c) ==
    /\ send[c] # <<>>
    /\ WriterStep(c, "take", "write")
    /\ hand' = [hand EXCEPT ![c] = Head(send[c])]
    /\ send' = [send EXCEPT ![c] = Tail(@)]
    /\ UNCHANGED <<mutexVars, sharedVars, taskVars, sendOpen, conn, viewVars,
                   boundVars>>

\* The range over a closed, empty channel ends.
EndWriter(c) ==
    /\ send[c] = <<>> /\ ~sendOpen[c]
    /\ WriterStep(c, "take", "done")
    /\ UNCHANGED <<mutexVars, sharedVars, taskVars, chanVars, conn, hand,
                   viewVars, boundVars>>

WriteMessage(c) ==
    /\ conn[c] = "up"
    /\ WriterStep(c, "write", "take")
    /\ hand' = [hand EXCEPT ![c] = Frame]
    /\ IF hand[c].kind = "status"
          THEN /\ seen' = [seen EXCEPT ![c] = IF hand[c].cfg > @ THEN hand[c].cfg ELSE @]
               /\ shown' = [shown EXCEPT ![c] = hand[c].vol]
          ELSE UNCHANGED <<seen, shown>>
    /\ UNCHANGED <<mutexVars, sharedVars, taskVars, chanVars, conn, missed,
                   served, volSet, boundVars>>

WriteFailsQuietly(c) ==
    /\ WriterStep(c, "write", "failed")
    /\ hand' = [hand EXCEPT ![c] = Frame]
    /\ UNCHANGED <<mutexVars, sharedVars, taskVars, chanVars, conn, viewVars,
                   boundVars>>

\* The connection is gone, or ten seconds passed: writeLoop closes it, "unblock
\* the reader; HandleWS cleans up".
WriteFails(c) ==
    /\ WriterStep(c, "write", "failed")
    /\ hand' = [hand EXCEPT ![c] = Frame]
    /\ conn' = [conn EXCEPT ![c] = "closed"]
    /\ UNCHANGED <<mutexVars, sharedVars, taskVars, chanVars, viewVars,
                   boundVars>>

\* The browser goes away, or the network does.
LoseConn(c) ==
    /\ conn[c] = "up" /\ pc[c] # "new"
    /\ conn' = [conn EXCEPT ![c] = "lost"]
    /\ UNCHANGED <<mutexVars, sharedVars, taskVars, chanVars, writer, hand,
                   viewVars, boundVars>>

-----------------------------------------------------------------------------
SendStatus(c) == ReadConfig(c) \/ ReadVolume(c) \/ QueueFirst(c)

Command(c) == SetConfig(c) \/ Tune(c) \/ ReadVolumeCmd(c)

Cleanup(c) == ReadError(c) \/ Unregister(c) \/ CloseClient(c)

Broadcast(t) ==
    BeginBroadcast(t) \/ (\E c \in Clients : BroadcastTo(t, c)) \/ EndBroadcast(t)

\* What HandleWS does without waiting for the browser.
HandlerStep(c) ==
    \/ WaitForReaders(c) \/ Register(c) \/ SetVolume(c)
    \/ SendStatus(c) \/ Cleanup(c) \/ Broadcast(c)

\* What writeLoop does even when the browser reads nothing.
WriterMoves(c) ==
    TakeMessage(c) \/ EndWriter(c) \/ (conn[c] # "up" /\ WriteFails(c))

Next ==
    \/ \E c \in Clients :
        \/ Connect(c) \/ HandlerStep(c) \/ Command(c) \/ LoseConn(c)
        \/ TakeMessage(c) \/ EndWriter(c) \/ WriteMessage(c) \/ WriteFails(c)
    \/ \E f \in Feeds : TakeFrame(f) \/ Broadcast(f)

Spec == Init /\ [][Next]_vars

\* Goroutines that can run are run; a goroutine that waits for h.mu gets it in
\* turn.  Nothing is assumed of a browser: it may never send a command, and a
\* connection that is up may never take a message.
Fairness ==
    /\ \A c \in Clients : SF_vars(HandlerStep(c)) /\ WF_vars(WriterMoves(c))
    /\ \A f \in Feeds : SF_vars(Broadcast(f))

FairSpec == Spec /\ Fairness

-----------------------------------------------------------------------------
(* Safety                                                                  *)

\* A send on a closed channel would panic: no broadcast loop still has a
\* client to come to whose HandleWS has closed its channel, and no HandleWS is
\* about to queue the first status on a closed one.
NoSendOnClosed ==
    /\ \A t \in Tasks : \A c \in todo[t] : sendOpen[c]
    /\ \A c \in Clients : pc[c] = "first" => sendOpen[c]

\* The invariant behind NoSendOnClosed: who goes through the clients holds
\* h.mu, so every client still to come is registered; and a registered client's
\* HandleWS has not come to close its channel.
LoopInv ==
    /\ pc \in [Tasks -> Stages]
    /\ todo \in [Tasks -> SUBSET Clients]
    /\ sendOpen \in [Clients -> BOOLEAN]
    /\ clients \subseteq Clients
    /\ \A t \in Tasks : todo[t] # {} => t \in readers /\ todo[t] \subseteq clients
    /\ \A c \in Clients :
        /\ c \in clients => pc[c] \notin {"new", "register", "close", "gone"}
        /\ pc[c] \notin {"new", "gone"} => sendOpen[c]

\* All the commands so far are done with their broadcasts.
Quiet ==
    \A c \in Clients : pc[c] \in {"new", "register", "read", "unregister",
                                  "close", "gone"}

\* Client c has read whatever was queued for it.
CaughtUp(c) ==
    /\ c \in clients /\ pc[c] = "read"
    /\ writer[c] = "take"
    /\ \A i \in DOMAIN send[c] : send[c][i].kind # "status"

\* When the commands are done, every client that has caught up and missed
\* nothing for want of room was told of the latest announced configuration at
\* some time, also one that connected while the commands were going on.
NoUpdateMissed ==
    Quiet => \A c \in Clients : CaughtUp(c) /\ c \notin missed => seen[c] >= due

\* The comment on clientVolume: "last UI volume 0-100; shared across
\* tabs/origins".  When the commands are done, what a client was told last is
\* the volume the hub has.
VolumeShared ==
    Quiet => \A c \in Clients :
        volSet /\ CaughtUp(c) /\ c \notin missed => shown[c] = vol

-----------------------------------------------------------------------------
(* Liveness                                                                *)

\* A client whose first status was queued is cleaned up once its connection is
\* lost or a write to it failed, whatever its HandleWS is doing.
CleanedUp ==
    \A c \in Clients :
        (c \in served /\ (conn[c] # "up" \/ writer[c] = "failed"))
            ~> pc[c] = "gone"

\* What the comment in writeLoop says of every client: closing the connection
\* unblocks the reader, and HandleWS cleans up.
WriteErrorCleansUp == \A c \in Clients : writer[c] = "failed" ~> pc[c] = "gone"

\* The comment on broadcast: a slow consumer, even one that never takes a
\* message, must not stall the others.
SlowClientStallsNobody ==
    \A t \in Tasks : pc[t] \in {"bcast", "send"} ~> pc[t] \notin {"bcast", "send"}

\* A command is done at last and the next one is read, although it locks h.mu
\* several times, for reading and for writing, among other goroutines.
CommandsComplete ==
    \A c \in Clients :
        pc[c] \in {"setVolume", "status", "statusVol"} /\ c \in served
            ~> pc[c] \in {"read", "gone"}

\* The writeLoop of a client that is gone ends.
WriterEnds ==
    \A c \in Clients : pc[c] = "gone" ~> writer[c] \in {"failed", "done"}
=============================================================================
