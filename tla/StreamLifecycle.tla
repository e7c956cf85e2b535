-------------------------- MODULE StreamLifecycle --------------------------
(***************************************************************************)
(* The life of the IQ stream of internal/receiver/receiver.go: the device  *)
(* handle r.sdr, the stream r.rx, the generation counter r.runGen, the     *)
(* command queue r.cmdCh, and the goroutines that share them:              *)
(*                                                                         *)
(*   - one goroutine per websocket client, running handleCmd: it calls     *)
(*     SetEnabled, reopenForReconfig (through SetTuneFreq / SetCenterFreq) *)
(*     or a setter that ends in enqueue;                                   *)
(*   - for every run of the stream (every startRun that reaches `go`), a   *)
(*     drainPipe and a processLoop goroutine;                              *)
(*   - the main goroutine, which cancels the parent context and calls      *)
(*     Close when the process is told to stop.                             *)
(*                                                                         *)
(* A step of the model is the code between two points where another        *)
(* goroutine can observe or change what it uses.  What a queued command    *)
(* does to the radio is not told apart here: a command is the name of the  *)
(* device handle that was the latest when the command was issued.  The     *)
(* blocks of a channel are only counted.                                   *)
(*                                                                         *)
(* A definition whose name adds to that of the one below it (BumpGenNot)   *)
(* is a mutant of it, a bug the property it is paired with must catch.     *)
(* Next reaches none of them.                                              *)
(***************************************************************************)
EXTENDS Naturals, Sequences

CONSTANTS
    Clients,        \* the websocket clients' goroutines
    Main,           \* the main goroutine
    NoOne,          \* streamMu is free
    MaxOps,         \* bound: calls of SetEnabled and reopenForReconfig
    CmdCap,         \* capacity of cmdCh (32 in the code)
    BlockCap,       \* capacity of a run's blockCh (8 in the code)
    TrackHistory    \* whether commands carry the name of a handle and overdue
                    \* runs are recorded; no guard looks at either

ASSUME ProcsAssumption ==
    /\ Main \notin Clients
    /\ NoOne \notin Clients \cup {Main}

ASSUME BoundsAssumption ==
    /\ MaxOps \in Nat
    /\ CmdCap \in Nat \ {0}
    /\ BlockCap \in Nat \ {0}
    /\ TrackHistory \in BOOLEAN

Procs == Clients \cup {Main}
\* Run 1 is the one Start() begins, handle 1 the one New() opens; what the
\* n-th lifecycle call spawns or opens has the name n + 1.
Runs    == 1 .. MaxOps + 1
Handles == 0 .. MaxOps + 1
Tag(h)  == IF TrackHistory THEN h ELSE 0

VARIABLES
    enabled,     \* r.enabled
    running,     \* r.running
    runGen,      \* r.runGen
    sdr,         \* r.sdr: the open handle, 0 for nil
    lastSdr,     \* the handle openDevice returned last
    rx,          \* r.rx: the run whose IQ stream it is, 0 for nil
    runCancel,   \* r.runCancel: the run whose context it cancels, 0 for nil
    parentDone,  \* r.parentCtx is done
    streamMu,    \* the holder of r.streamMu, or NoOne
    cmdCh,       \* r.cmdCh
    pc,          \* where each client and main stand
    op,          \* the call each of them is in
    call,        \* the ordinal of that call, if it is a lifecycle call
    arg,         \* the command each of them is about to enqueue
    ops,         \* how many lifecycle calls were begun (bounded by MaxOps)
    gen,         \* drainPipe's gen argument, per run
    cancelled,   \* the run's own context was cancelled
    drain,       \* where the run's drainPipe stands
    drainRx,     \* drainPipe's local rx
    blocks,      \* how many blocks wait in the run's blockCh
    loop,        \* where the run's processLoop stands
    held,        \* the command processLoop is executing
    heldSdr,     \* r.sdr as that command read it
    overdue      \* history: runs whose goroutines were still there when a
                 \* two-second stop deadline passed

flagVars   == <<enabled, running, runGen>>
handleVars == <<sdr, lastSdr>>
rxVars     == <<rx, runCancel>>
deviceVars == <<flagVars, handleVars, rxVars>>
procRest   == <<parentDone, streamMu, op, call, arg, ops>>
procVars   == <<pc, procRest>>
drainVars  == <<drain, drainRx, blocks>>
loopVars   == <<loop, held, heldSdr>>
runVars    == <<gen, cancelled, overdue>>
goVars     == <<drainVars, loopVars, runVars>>
vars == <<deviceVars, procVars, cmdCh, goVars>>

StopStages  == {"bump", "cancel", "closeRx", "wait", "closeDev"}
StartStages == {"open", "cas", "startRx"}
EnqStages   == {"enq", "send", "inline"}
Stages == {"idle", "lock", "drainQ", "closeIdle", "unlock", "closing", "exit"}
            \cup StopStages \cup StartStages \cup EnqStages

DrainExit == {"check", "clear", "done"}     \* blockCh is closed

DeviceType ==
    /\ enabled \in BOOLEAN /\ running \in BOOLEAN /\ parentDone \in BOOLEAN
    /\ runGen \in Nat
    /\ sdr \in Handles /\ lastSdr \in Handles
    /\ rx \in 0 .. MaxOps + 1 /\ runCancel \in 0 .. MaxOps + 1
    /\ cmdCh \in Seq(Handles) /\ Len(cmdCh) <= CmdCap

ProcType ==
    /\ streamMu \in Clients \cup {NoOne}
    /\ ops \in 0 .. MaxOps
    /\ pc \in [Procs -> Stages]
    /\ op \in [Procs -> {"none", "on", "off", "reopen", "close"}]
    /\ call \in [Procs -> 0 .. MaxOps]
    /\ arg \in [Procs -> Handles]

DrainType ==
    /\ drain \in [Runs -> {"none", "top", "rx", "read", "send"} \cup DrainExit]
    /\ drainRx \in [Runs -> 0 .. MaxOps + 1]
    /\ blocks \in [Runs -> 0 .. BlockCap]

LoopType ==
    /\ loop \in [Runs -> {"none", "select", "busy", "cmd", "done"}]
    /\ held \in [Runs -> Handles]
    /\ heldSdr \in [Runs -> Handles]

RunType ==
    /\ gen \in [Runs -> Nat]
    /\ cancelled \in [Runs -> BOOLEAN]
    /\ overdue \in SUBSET Runs

TypeOK == DeviceType /\ ProcType /\ DrainType /\ LoopType /\ RunType

\* The state main() hands to the HTTP server: New() opened the device and
\* Start() began the first run, whose goroutines are about to take a step.
Init ==
    /\ enabled = TRUE /\ running = TRUE /\ parentDone = FALSE
    /\ runGen = 0 /\ sdr = 1 /\ lastSdr = 1
    /\ rx = 1 /\ runCancel = 1
    /\ streamMu = NoOne
    /\ cmdCh = <<>>
    /\ pc = [p \in Procs |-> "idle"]
    /\ op = [p \in Procs |-> "none"]
    /\ call = [p \in Procs |-> 0]
    /\ arg = [p \in Procs |-> 0]
    /\ ops = 0
    /\ gen = [r \in Runs |-> 0]
    /\ cancelled = [r \in Runs |-> FALSE]
    /\ drain = [r \in Runs |-> IF r = 1 THEN "top" ELSE "none"]
    /\ drainRx = [r \in Runs |-> 0]
    /\ blocks = [r \in Runs |-> 0]
    /\ loop = [r \in Runs |-> IF r = 1 THEN "select" ELSE "none"]
    /\ held = [r \in Runs |-> 0]
    /\ heldSdr = [r \in Runs |-> 0]
    /\ overdue = {}

\* Goroutine p goes from one stage to another.
Step(p, from, to) == pc[p] = from /\ pc' = [pc EXCEPT ![p] = to]

\* ctx.Done() of run r: its own cancel, or the parent's.
CtxDoneParentOnly(r) == parentDone
CtxDone(r) == cancelled[r] \/ parentDone

-----------------------------------------------------------------------------
(* enqueue, called by every setter and by reopenForReconfig               *)

\* A client calls one of the setters that end in enqueue, and enqueue reads
\* r.running: with no run under way the command is not queued ...
Setter(c) ==
    /\ Step(c, "idle", IF running THEN "send" ELSE "inline")
    /\ arg' = [arg EXCEPT ![c] = Tag(lastSdr)]
    /\ UNCHANGED <<parentDone, streamMu, op, call, ops, deviceVars, cmdCh,
                   goVars>>

\* ... and so does reopenForReconfig's enqueue of postReopenReset.
EnqueueReset(c) ==
    /\ Step(c, "enq", IF running THEN "send" ELSE "inline")
    /\ arg' = [arg EXCEPT ![c] = Tag(lastSdr)]
    /\ UNCHANGED <<parentDone, streamMu, op, call, ops, deviceVars, cmdCh,
                   goVars>>

\* Where a goroutine goes after enqueue returns: reopenForReconfig still has
\* its deferred Unlock to run, a setter is done.
AfterEnqueue(c) == IF op[c] = "reopen" THEN "unlock" ELSE "idle"

CmdRoomOffByOne == Len(cmdCh) <= CmdCap
CmdRoom == Len(cmdCh) < CmdCap

\* enqueue sends on cmdCh, blocking while it is full ...
Send(c) ==
    /\ CmdRoom
    /\ Step(c, "send", AfterEnqueue(c))
    /\ cmdCh' = Append(cmdCh, arg[c])
    /\ arg' = [arg EXCEPT ![c] = 0]
    /\ UNCHANGED <<parentDone, streamMu, op, call, ops, deviceVars, goVars>>

\* ... or runs the command on the caller's own goroutine.
RunInline(c) ==
    /\ Step(c, "inline", AfterEnqueue(c))
    /\ arg' = [arg EXCEPT ![c] = 0]
    /\ UNCHANGED <<parentDone, streamMu, op, call, ops, deviceVars, cmdCh,
                   goVars>>

-----------------------------------------------------------------------------
(* SetEnabled and reopenForReconfig, under streamMu                       *)

BeginLifecycle(c, o) ==
    /\ ops < MaxOps
    /\ Step(c, "idle", "lock")
    /\ op' = [op EXCEPT ![c] = o]
    /\ ops' = ops + 1
    /\ call' = [call EXCEPT ![c] = ops + 1]
    /\ UNCHANGED <<parentDone, streamMu, arg, deviceVars, cmdCh, goVars>>

\* streamMu.Lock(), then what SetEnabled stores in enabled before it starts
\* or stops the run.
LockStream(c) ==
    /\ streamMu = NoOne
    /\ Step(c, "lock", CASE op[c] = "on" -> "open"
                         [] op[c] = "off" -> "bump"
                         [] OTHER -> "drainQ")
    /\ streamMu' = c
    /\ enabled' = CASE op[c] = "on" -> TRUE
                    [] op[c] = "off" -> FALSE
                    [] OTHER -> enabled
    /\ UNCHANGED <<parentDone, op, call, arg, ops, running, runGen,
                   handleVars, rxVars, cmdCh, goVars>>

\* drainPendingCmds drops one queued command.
DropPending(c) ==
    /\ pc[c] = "drainQ" /\ cmdCh # <<>>
    /\ cmdCh' = Tail(cmdCh)
    /\ UNCHANGED <<deviceVars, procVars, goVars>>

PendingDroppedNoStop(c) ==
    /\ cmdCh = <<>>
    /\ Step(c, "drainQ", "closeIdle")
    /\ UNCHANGED <<procRest, deviceVars, cmdCh, goVars>>

\* drainPendingCmds found the queue empty: stop the run, or, when there is
\* none, close the idle device.
PendingDropped(c) ==
    /\ cmdCh = <<>>
    /\ Step(c, "drainQ", IF running THEN "bump" ELSE "closeIdle")
    /\ UNCHANGED <<procRest, deviceVars, cmdCh, goVars>>

\* reopenForReconfig goes on to startRun only while the receiver is enabled.
RestartIfEnabled == IF enabled THEN "open" ELSE "unlock"

CloseIdle(c) ==
    /\ Step(c, "closeIdle", RestartIfEnabled)
    /\ sdr' = 0
    /\ UNCHANGED <<procRest, flagVars, lastSdr, rxVars, cmdCh, goVars>>

Unlock(c) ==
    /\ Step(c, "unlock", "idle")
    /\ streamMu' = NoOne
    /\ op' = [op EXCEPT ![c] = "none"]
    /\ call' = [call EXCEPT ![c] = 0]
    /\ UNCHANGED <<parentDone, arg, ops, deviceVars, cmdCh, goVars>>

-----------------------------------------------------------------------------
(* stopStreaming and stopRun                                              *)

BumpGenNot(p) ==
    Step(p, "bump", "cancel") /\ UNCHANGED <<procRest, deviceVars, cmdCh, goVars>>

BumpGen(p) ==
    /\ Step(p, "bump", "cancel")
    /\ runGen' = runGen + 1
    /\ UNCHANGED <<procRest, enabled, running, handleVars, rxVars, cmdCh,
                   goVars>>

CancelRun(p) ==
    /\ Step(p, "cancel", "closeRx")
    /\ cancelled' = [r \in Runs |-> cancelled[r] \/ r = runCancel]
    /\ runCancel' = 0
    /\ UNCHANGED <<procRest, flagVars, handleVars, rx, cmdCh, drainVars,
                   loopVars, gen, overdue>>

CloseRx(p) ==
    /\ Step(p, "closeRx", "wait")
    /\ rx' = 0
    /\ UNCHANGED <<procRest, flagVars, handleVars, runCancel, cmdCh, goVars>>

Exited(r) == drain[r] \in {"none", "done"} /\ loop[r] \in {"none", "done"}

\* The polling loop ends when running is false or two seconds have passed;
\* then running is false.
WaitStopped(p) ==
    /\ Step(p, "wait", "closeDev")
    /\ running' = FALSE
    /\ overdue' = IF running /\ TrackHistory
                     THEN overdue \cup {r \in Runs : CtxDone(r) /\ ~Exited(r)}
                     ELSE overdue
    /\ UNCHANGED <<procRest, enabled, runGen, handleVars, rxVars, cmdCh,
                   drainVars, loopVars, gen, cancelled>>

AfterStopKeepsLock(p, closed) ==
    CASE op[p] = "close" -> "exit"
      [] op[p] = "reopen" -> IF closed THEN RestartIfEnabled ELSE "idle"
      [] OTHER -> "unlock"

\* The stage after stopRun, by what the caller does with its error.
AfterStop(p, closed) ==
    CASE op[p] = "close" -> "exit"
      [] op[p] = "reopen" /\ closed -> RestartIfEnabled
      [] OTHER -> "unlock"

CloseDev(p) ==
    \E closed \in BOOLEAN :
        /\ sdr = 0 => closed        \* only a handle's Close can fail
        /\ Step(p, "closeDev", AfterStop(p, closed))
        /\ sdr' = IF closed THEN 0 ELSE sdr
        /\ UNCHANGED <<procRest, flagVars, lastSdr, rxVars, cmdCh, goVars>>

-----------------------------------------------------------------------------
(* startRun                                                               *)

OpenDev(c) ==
    \/ /\ sdr # 0
       /\ Step(c, "open", "cas")
       /\ UNCHANGED <<procRest, deviceVars, cmdCh, goVars>>
    \/ /\ sdr = 0                    \* openDevice returns a handle
       /\ Step(c, "open", "cas")
       /\ sdr' = call[c] + 1 /\ lastSdr' = call[c] + 1
       /\ UNCHANGED <<procRest, flagVars, rxVars, cmdCh, goVars>>
    \/ /\ sdr = 0                    \* openDevice returns an error
       /\ Step(c, "open", "unlock")
       /\ UNCHANGED <<procRest, deviceVars, cmdCh, goVars>>

ClaimRunningNoCas(c) ==
    /\ Step(c, "cas", "startRx")
    /\ running' = TRUE
    /\ UNCHANGED <<procRest, enabled, runGen, handleVars, rxVars, cmdCh,
                   goVars>>

ClaimRunning(c) ==
    /\ Step(c, "cas", IF running THEN "unlock" ELSE "startRx")
    /\ running' = TRUE
    /\ UNCHANGED <<procRest, enabled, runGen, handleVars, rxVars, cmdCh,
                   goVars>>

StartRxFailsRunning(c) ==
    Step(c, "startRx", "unlock") /\ UNCHANGED <<procRest, deviceVars, cmdCh, goVars>>

\* StartRx returns an error and running is cleared again ...
StartRxFails(c) ==
    /\ Step(c, "startRx", "unlock")
    /\ running' = FALSE
    /\ UNCHANGED <<procRest, enabled, runGen, handleVars, rxVars, cmdCh,
                   goVars>>

\* ... or the new run's stream: then come the context, its cancel function
\* and the two goroutines.  SetEnabled is done, reopenForReconfig enqueues.
StartRx(c) ==
    LET n == call[c] + 1 IN
    /\ Step(c, "startRx", IF op[c] = "reopen" THEN "enq" ELSE "unlock")
    /\ rx' = n /\ runCancel' = n
    /\ gen' = [gen EXCEPT ![n] = runGen]
    /\ drain' = [drain EXCEPT ![n] = "top"]
    /\ loop' = [loop EXCEPT ![n] = "select"]
    /\ UNCHANGED <<procRest, flagVars, handleVars, cmdCh, drainRx, blocks,
                   held, heldSdr, cancelled, overdue>>

-----------------------------------------------------------------------------
(* drainPipe                                                              *)

DrainStep(r, from, to) == drain[r] = from /\ drain' = [drain EXCEPT ![r] = to]

DrainTop(r) ==
    /\ DrainStep(r, "top", IF CtxDone(r) THEN "check" ELSE "rx")
    /\ UNCHANGED <<deviceVars, procVars, cmdCh, drainRx, blocks, loopVars,
                   runVars>>

\* It reads r.rx anew for every block, under rxMu.
DrainLoadRx(r) ==
    /\ DrainStep(r, "rx", IF rx = 0 THEN "check" ELSE "read")
    /\ drainRx' = [drainRx EXCEPT ![r] = rx]
    /\ UNCHANGED <<deviceVars, procVars, cmdCh, blocks, loopVars, runVars>>

\* rx.Read returns a block of an open stream.
DrainRead(r) ==
    /\ drainRx[r] = rx
    /\ DrainStep(r, "read", "send")
    /\ UNCHANGED <<deviceVars, procVars, cmdCh, drainRx, blocks, loopVars,
                   runVars>>

\* rx.Read returns an error, as it must once the stream is closed, or no
\* samples.
DrainReadNothing(r) ==
    /\ DrainStep(r, "read", IF CtxDone(r) THEN "check" ELSE "top")
    /\ drainRx' = [drainRx EXCEPT ![r] = 0]
    /\ UNCHANGED <<deviceVars, procVars, cmdCh, blocks, loopVars, runVars>>

FullEarly(r) == blocks[r] + 1 >= BlockCap
Full(r) == blocks[r] = BlockCap

\* The select's default: neither blockCh nor ctx.Done() is ready.
MustDropNever(r) == FALSE
MustDrop(r) == Full(r) /\ ~CtxDone(r)

\* The select on blockCh: deliver, leave on ctx.Done(), or drop the block.
DrainDeliver(r) ==
    /\ \/ /\ ~Full(r)
          /\ DrainStep(r, "send", "top")
          /\ blocks' = [blocks EXCEPT ![r] = @ + 1]
       \/ /\ CtxDone(r)
          /\ DrainStep(r, "send", "check")
          /\ UNCHANGED blocks
       \/ /\ MustDrop(r)
          /\ DrainStep(r, "send", "top")
          /\ UNCHANGED blocks
    /\ drainRx' = [drainRx EXCEPT ![r] = 0]
    /\ UNCHANGED <<deviceVars, procVars, cmdCh, loopVars, runVars>>

GenVerdictAny(r) == "clear"
GenVerdict(r) == IF runGen = gen[r] THEN "clear" ELSE "done"

\* The deferred function closes blockCh as drainPipe returns, compares runGen
\* with gen, and only then clears running.
DrainCheckGen(r) ==
    /\ DrainStep(r, "check", GenVerdict(r))
    /\ UNCHANGED <<deviceVars, procVars, cmdCh, drainRx, blocks, loopVars,
                   runVars>>

DrainClear(r) ==
    /\ DrainStep(r, "clear", "done")
    /\ running' = FALSE
    /\ UNCHANGED <<enabled, runGen, handleVars, rxVars, procVars, cmdCh,
                   drainRx, blocks, loopVars, runVars>>

-----------------------------------------------------------------------------
(* processLoop                                                            *)

LoopStep(r, from, to) == loop[r] = from /\ loop' = [loop EXCEPT ![r] = to]

\* select: a done context and a closed, empty blockCh both end the loop ...
LoopExit(r) ==
    /\ CtxDone(r) \/ (drain[r] \in DrainExit /\ blocks[r] = 0)
    /\ LoopStep(r, "select", "done")
    /\ UNCHANGED <<deviceVars, procVars, cmdCh, drainVars, held, heldSdr,
                   runVars>>

\* ... and a block may be taken even when the context is done.
LoopTake(r) ==
    /\ blocks[r] > 0
    /\ LoopStep(r, "select", "busy")
    /\ blocks' = [blocks EXCEPT ![r] = @ - 1]
    /\ UNCHANGED <<deviceVars, procVars, cmdCh, drain, drainRx, held, heldSdr,
                   runVars>>

\* drainCommands' select finds a command.
CmdWaitingNever == FALSE
CmdWaiting == cmdCh # <<>>

\* drainCommands takes a command and begins it: it looks whether r.sdr is nil.
LoopBeginCmd(r) ==
    /\ CmdWaiting
    /\ LoopStep(r, "busy", "cmd")
    /\ held' = [held EXCEPT ![r] = Head(cmdCh)]
    /\ heldSdr' = [heldSdr EXCEPT ![r] = Tag(sdr)]
    /\ cmdCh' = Tail(cmdCh)
    /\ UNCHANGED <<deviceVars, procVars, drainVars, runVars>>

LoopEndCmd(r) ==
    /\ LoopStep(r, "cmd", "busy")
    /\ held' = [held EXCEPT ![r] = 0]
    /\ heldSdr' = [heldSdr EXCEPT ![r] = 0]
    /\ UNCHANGED <<deviceVars, procVars, cmdCh, drainVars, runVars>>

\* No command is left: processBlock runs the DSP on the block and returns.
LoopProcess(r) ==
    /\ ~CmdWaiting
    /\ LoopStep(r, "busy", "select")
    /\ UNCHANGED <<deviceVars, procVars, cmdCh, drainVars, held, heldSdr,
                   runVars>>

-----------------------------------------------------------------------------
(* main: cancel() on a signal, then the deferred Close(), without streamMu *)

Shutdown ==
    /\ Step(Main, "idle", "closing")
    /\ parentDone' = TRUE
    /\ UNCHANGED <<streamMu, op, call, arg, ops, deviceVars, cmdCh, goVars>>

BeginCloseEnqueues ==
    /\ CmdRoom
    /\ Step(Main, "closing", "bump")
    /\ op' = [op EXCEPT ![Main] = "close"]
    /\ enabled' = FALSE
    /\ UNCHANGED <<parentDone, streamMu, call, arg, ops, running, runGen,
                   handleVars, rxVars, cmdCh, goVars>>

BeginClose ==
    /\ Step(Main, "closing", "bump")
    /\ op' = [op EXCEPT ![Main] = "close"]
    /\ enabled' = FALSE
    /\ UNCHANGED <<parentDone, streamMu, call, arg, ops, running, runGen,
                   handleVars, rxVars, cmdCh, goVars>>

-----------------------------------------------------------------------------
ClientEnqueue(c) == Setter(c) \/ EnqueueReset(c) \/ Send(c) \/ RunInline(c)

ClientLifecycle(c) ==
    \/ \E o \in {"on", "off", "reopen"} : BeginLifecycle(c, o)
    \/ LockStream(c) \/ DropPending(c) \/ PendingDropped(c) \/ CloseIdle(c)
    \/ Unlock(c)

Stopping(p) ==
    BumpGen(p) \/ CancelRun(p) \/ CloseRx(p) \/ WaitStopped(p) \/ CloseDev(p)

Starting(c) ==
    OpenDev(c) \/ ClaimRunning(c) \/ StartRxFails(c) \/ StartRx(c)

DrainPipe(r) ==
    \/ DrainTop(r) \/ DrainLoadRx(r) \/ DrainRead(r) \/ DrainReadNothing(r)
    \/ DrainDeliver(r) \/ DrainCheckGen(r) \/ DrainClear(r)

ProcessLoop(r) ==
    LoopExit(r) \/ LoopTake(r) \/ LoopBeginCmd(r) \/ LoopEndCmd(r) \/ LoopProcess(r)

\* The process ends when main returns: no goroutine steps after that.
Alive == pc[Main] # "exit"

Next ==
    /\ Alive
    /\ \/ \E c \in Clients : ClientEnqueue(c) \/ ClientLifecycle(c) \/ Starting(c)
       \/ \E p \in Procs : Stopping(p)
       \/ \E r \in Runs : DrainPipe(r) \/ ProcessLoop(r)
       \/ Shutdown
       \/ BeginClose

Spec == Init /\ [][Next]_vars

-----------------------------------------------------------------------------
(* Safety                                                                  *)

Live(r) == drain[r] # "none" /\ ~cancelled[r]

\* Between two lifecycle calls, and before shutdown.
Settled == streamMu = NoOne /\ ~parentDone

\* When running is false and no call is under way, no stream was left behind:
\* a drainPipe of an earlier run that exits late has not cleared the running
\* flag of a later run (the comment in stopStreaming).
StoppedMeansCancelled ==
    Settled /\ ~running => \A r \in Runs : ~Live(r)

\* When running is true and no call is under way, there is a run that can
\* deliver blocks: its context is live, r.rx is its stream, the device is
\* open, and neither of its goroutines has left its loop.
RunningMeansStreaming ==
    Settled /\ running =>
        \E r \in Runs :
            /\ Live(r) /\ rx = r /\ sdr # 0 /\ gen[r] = runGen
            /\ drain[r] \notin DrainExit
            /\ loop[r] # "done"

\* At no time are two runs uncancelled, whatever SetEnabled and reopen calls
\* of different clients do: startRun's compare-and-swap admits one.
AtMostOneLiveRun ==
    ~parentDone => \A r, s \in Runs : Live(r) /\ Live(s) => r = s

\* stopRun and reopenForReconfig never close the device under a run whose
\* context is still live, nor take its stream away from it.
DeviceOpenWhileLive ==
    ~parentDone => \A r \in Runs : Live(r) => sdr # 0 /\ runCancel = r

\* A receiver that was switched off stays off: no reopen of another client,
\* begun before or after, brings the stream back.
DisabledStaysOff ==
    Settled /\ ~enabled => ~running /\ \A r \in Runs : ~Live(r)

\* Only a run that outlived a two-second stop deadline can overlap a later
\* one: its processLoop beside a later processLoop, a command of it on a
\* handle that is closed or replaced, its drainPipe on a later run's stream.
OverlapOnlyIfOverdue ==
    ~parentDone => \A r \in Runs \ overdue :
        /\ loop[r] \notin {"none", "done"} =>
               \A s \in Runs \ overdue :
                   loop[s] \notin {"none", "done"} => r = s
        /\ loop[r] = "cmd" /\ heldSdr[r] # 0 => heldSdr[r] = sdr
        /\ drain[r] \in {"read", "send"} => drainRx[r] = r

\* Only shutdown lets a drainPipe clear running: every earlier stop bumps
\* runGen first, so its polling loop waits for its whole deadline, and no
\* setter is told before then that the run it enqueues for has ended.
OnlyShutdownClears == ~parentDone => \A r \in Runs : drain[r] # "clear"

\* drainPipe "must never stall": except in rx.Read it can always take its
\* next step, however slow processLoop and the clients are.
DrainNeverStalls ==
    Alive => \A r \in Runs :
        drain[r] \notin {"none", "read", "done"} => ENABLED DrainPipe(r)

\* What Receiver's comment says: "All hardware control and all DSP-state
\* mutation happen on the single Start() goroutine".  The goroutines that are
\* now in a command or in processBlock:
DspActors ==
    {c \in Clients : pc[c] = "inline"}
        \cup {r \in Runs : loop[r] \in {"cmd", "busy"}}

SingleDspGoroutine == ~parentDone => \A a, b \in DspActors : a = b

\* What drainPendingCmds' comment says: commands are dropped "so stale
\* tune/service commands cannot run against a reopened device".
NoStaleCommand ==
    ~parentDone => \A r \in Runs \ overdue :
        loop[r] = "cmd" /\ heldSdr[r] # 0 => held[r] = heldSdr[r]

\* The lifecycle as OneStream has it: a stream is on from StartRx to the
\* cancelling of its run, and the turn is streamMu's.
Streams == {r \in Runs : Live(r)}

OS == INSTANCE OneStream WITH
          Callers <- Clients, NoDevice <- 0,
          turn <- streamMu, wanted <- enabled, device <- sdr,
          streams <- Streams, over <- parentDone

\* Every step of every goroutine is one that OneStream allows: whatever calls
\* overlap, fail or outlive their deadline, there is one stream at most, on a
\* device that stays open under it, and the flag by which setters choose the
\* goroutine of their command is right whenever nobody is switching.
OneStreamAtATime == OS!Spec

-----------------------------------------------------------------------------
(* Liveness                                                                *)

\* A goroutine that can run is run.  A client that waits for streamMu or for
\* room in cmdCh is served in turn (Go queues the waiters), so it is not
\* overtaken for ever.  The next setter of a client takes another websocket
\* message, so drainPendingCmds, which drops commands without waiting, finds
\* the queue empty at last.  An open stream delivers blocks.
ClientGoesOn(c) ==
    /\ Alive
    /\ \/ EnqueueReset(c) \/ Send(c) \/ RunInline(c)
       \/ LockStream(c) \/ PendingDropped(c) \/ CloseIdle(c) \/ Unlock(c)
       \/ Stopping(c) \/ Starting(c)

Fairness ==
    /\ \A c \in Clients :
        SF_vars(ClientGoesOn(c)) /\ WF_vars(Alive /\ DropPending(c))
    /\ \A r \in Runs :
        /\ WF_vars(Alive /\ DrainPipe(r))
        /\ SF_vars(Alive /\ DrainRead(r))
        /\ WF_vars(Alive /\ ProcessLoop(r))
    /\ WF_vars(Alive /\ (BeginClose \/ Stopping(Main)))

FairSpec == Spec /\ Fairness

\* Every SetEnabled and every reopenForReconfig that got streamMu gives it
\* back, although a stop waits for goroutines that may be slow and a reopen
\* enqueues its reset while it holds the lock and cmdCh may be full.
LockIsReleased == streamMu # NoOne ~> (streamMu = NoOne \/ ~Alive)

\* A full cmdCh, which blocks every setter, is emptied unless the stream stops.
FullQueueDrains ==
    Len(cmdCh) = CmdCap ~> (Len(cmdCh) < CmdCap \/ ~running \/ parentDone)

\* While the stream is on and no call is under way, blocks reach a processLoop.
StreamDelivers ==
    (Settled /\ running)
        ~> (\E r \in Runs : loop[r] = "busy") \/ ~(Settled /\ running)

\* The drainPipe of a stopped run leaves, even when the next run has begun and
\* r.rx is a stream again.
DrainPipesExit ==
    \A r \in Runs : cancelled[r] ~> (drain[r] = "done" \/ ~Alive)

\* Shutdown ends: Close returns although no processLoop takes commands any
\* more and setters, which it is not serialized with, may stand blocked.
ShutdownCompletes == parentDone ~> ~Alive

-----------------------------------------------------------------------------
(* The inductive invariant behind the safety properties                    *)

\* Goroutine c is between streamMu.Lock() and streamMu.Unlock().
Locked(c) ==
    \/ pc[c] \in {"drainQ", "closeIdle", "unlock", "enq"}
                     \cup StopStages \cup StartStages
    \/ pc[c] \in {"send", "inline"} /\ op[c] = "reopen"

\* Some client holds streamMu and stands at one of the stages S.
HolderIn(S) == streamMu # NoOne /\ pc[streamMu] \in S

\* Which call a stage belongs to; main stops the run only at shutdown.
StageInv ==
    /\ \A c \in Clients :
        /\ Locked(c) => streamMu = c
        /\ op[c] \in {"none", "on", "off", "reopen"}
        /\ pc[c] \notin {"closing", "exit"}
        /\ pc[c] = "idle" => op[c] = "none"
        /\ pc[c] = "enq" => op[c] = "reopen"
        /\ pc[c] \in {"send", "inline"} => op[c] \in {"none", "reopen"}
        /\ pc[c] \notin {"idle", "send", "inline"} => op[c] # "none"
    /\ ~parentDone => pc[Main] = "idle"

\* Calls that overlap have different ordinals, and the run a call may start
\* has not been started by another.
FreshInv ==
    /\ \A c \in Clients :
        /\ op[c] # "none" => call[c] \in 1 .. ops
        /\ pc[c] \in {"lock", "drainQ", "closeIdle"} \cup StopStages \cup StartStages
               => drain[call[c] + 1] = "none"
    /\ \A c, d \in Clients :
        c # d /\ op[c] # "none" /\ op[d] # "none" => call[c] # call[d]
    /\ \A r \in Runs : r > ops + 1 => drain[r] = "none"

\* A drainPipe or a processLoop leaves only a cancelled run, and a run is
\* cancelled only after runGen has left its gen behind.
RunInv ==
    \A r \in Runs :
        /\ gen[r] <= runGen
        /\ cancelled[r] => drain[r] # "none" /\ gen[r] < runGen
        /\ Live(r) => runCancel = r
        /\ drain[r] \in DrainExit => cancelled[r] /\ drain[r] # "clear"
        /\ loop[r] = "done" => cancelled[r]

\* What the holder of streamMu keeps true of the device at each stage.
DeviceInv ==
    /\ runCancel # 0 =>
        /\ running /\ sdr # 0 /\ rx = runCancel
        /\ Live(runCancel)
        /\ gen[runCancel] = runGen \/ HolderIn({"cancel"})
    /\ running /\ runCancel = 0 => HolderIn({"closeRx", "wait", "startRx"})
    /\ running /\ ~enabled => HolderIn({"bump", "cancel", "closeRx", "wait"})
    /\ \A c \in Clients :
        /\ pc[c] \in {"closeRx", "wait", "closeDev", "closeIdle", "startRx"}
               => runCancel = 0
        /\ pc[c] = "cancel" => \A r \in Runs : gen[r] < runGen
        /\ pc[c] \in {"cas", "startRx"} => sdr # 0
        /\ pc[c] = "startRx" => running
        /\ pc[c] \in StartStages => enabled

IInv ==
    /\ TypeOK
    /\ StageInv
    /\ FreshInv
    /\ ~parentDone => RunInv /\ DeviceInv

=============================================================================
