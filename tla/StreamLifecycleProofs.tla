----------------------- MODULE StreamLifecycleProofs -----------------------
(***************************************************************************)
(* Proofs about StreamLifecycle, for any number of clients and calls and   *)
(* any capacities: type correctness, then the inductive invariant IInv and *)
(* the safety properties that follow from it.                              *)
(***************************************************************************)
EXTENDS StreamLifecycle, TLAPS

USE BoundsAssumption, ProcsAssumption
USE DEF deviceVars, flagVars, handleVars, rxVars, procVars, procRest, goVars,
        drainVars, loopVars, runVars

-----------------------------------------------------------------------------
(* Type correctness                                                        *)

LEMMA TypeInit == Init => TypeOK
  <1> SUFFICES ASSUME Init PROVE TypeOK
    OBVIOUS
  <1>1. DeviceType
    <2>1. cmdCh \in Seq(Handles)
      BY DEF Init
    <2>2. Len(cmdCh) <= CmdCap
      BY DEF Init
    <2>3. 1 \in Handles /\ 1 \in 0 .. MaxOps + 1
      BY DEF Handles
    <2>4. runGen \in Nat /\ enabled \in BOOLEAN /\ running \in BOOLEAN
          /\ parentDone \in BOOLEAN
      BY DEF Init
    <2> QED  BY <2>1, <2>2, <2>3, <2>4 DEF Init, DeviceType
  <1>2. ProcType
    BY DEF Init, ProcType, Stages, Handles
  <1>3. DrainType
    BY DEF Init, DrainType
  <1>4. LoopType
    BY DEF Init, LoopType, Handles
  <1>5. RunType
    BY DEF Init, RunType
  <1> QED  BY <1>1, <1>2, <1>3, <1>4, <1>5 DEF TypeOK

\* A step that leaves a part of the state alone leaves its types alone.
LEMMA DeviceFrame ==
  ASSUME TypeOK, UNCHANGED <<deviceVars, parentDone, cmdCh>>
  PROVE  DeviceType'
  BY DEF TypeOK, DeviceType

LEMMA ProcFrame ==
  ASSUME TypeOK, UNCHANGED <<pc, streamMu, op, call, arg, ops>>
  PROVE  ProcType'
  BY DEF TypeOK, ProcType

LEMMA DrainFrame ==
  ASSUME TypeOK, UNCHANGED drainVars PROVE DrainType'
  BY DEF TypeOK, DrainType

LEMMA LoopFrame ==
  ASSUME TypeOK, UNCHANGED loopVars PROVE LoopType'
  BY DEF TypeOK, LoopType

LEMMA RunFrame ==
  ASSUME TypeOK, UNCHANGED runVars PROVE RunType'
  BY DEF TypeOK, RunType

\* enqueue, and the setters that call it.
LEMMA EnqueueType ==
  ASSUME TypeOK, NEW c \in Clients, ClientEnqueue(c)
  PROVE  TypeOK'
  <1>1. CASE Setter(c)
    <2>1. ProcType'
      BY <1>1 DEF Setter, TypeOK, ProcType, Step, Stages, StopStages,
         StartStages, EnqStages, Procs, Tag, Handles, DeviceType
    <2> QED  BY <1>1, <2>1, DeviceFrame, DrainFrame, LoopFrame, RunFrame DEF
       Setter, TypeOK
  <1>2. CASE EnqueueReset(c)
    <2>1. ProcType'
      BY <1>2 DEF EnqueueReset, TypeOK, ProcType, Step, Stages, StopStages,
         StartStages, EnqStages, Procs, Tag, Handles, DeviceType
    <2> QED  BY <1>2, <2>1, DeviceFrame, DrainFrame, LoopFrame, RunFrame DEF
       EnqueueReset, TypeOK
  <1>3. CASE Send(c)
    <2>1. DeviceType'
      BY <1>3 DEF Send, TypeOK, CmdRoom, DeviceType, ProcType, Procs
    <2>2. ProcType'
      BY <1>3 DEF Send, TypeOK, ProcType, Step, Stages, StopStages,
         StartStages, EnqStages, Procs, Handles, AfterEnqueue
    <2> QED  BY <1>3, <2>1, <2>2, DrainFrame, LoopFrame, RunFrame DEF Send,
       TypeOK
  <1>4. CASE RunInline(c)
    <2>1. ProcType'
      BY <1>4 DEF RunInline, TypeOK, ProcType, Step, Stages, StopStages,
         StartStages, EnqStages, Procs, Handles, AfterEnqueue
    <2> QED  BY <1>4, <2>1, DeviceFrame, DrainFrame, LoopFrame, RunFrame DEF
       RunInline, TypeOK
  <1> QED  BY <1>1, <1>2, <1>3, <1>4 DEF ClientEnqueue

\* SetEnabled and reopenForReconfig up to the stop or the start.
LEMMA LifecycleType ==
  ASSUME TypeOK, NEW c \in Clients, ClientLifecycle(c)
  PROVE  TypeOK'
  <1>1. ASSUME NEW o \in {"on", "off", "reopen"}, BeginLifecycle(c, o)
       PROVE  TypeOK'
    <2>1. ProcType'
      BY <1>1 DEF BeginLifecycle, TypeOK, ProcType, Step, Stages, StopStages,
         StartStages, EnqStages, Procs
    <2> QED  BY <1>1, <2>1, DeviceFrame, DrainFrame, LoopFrame, RunFrame DEF
       BeginLifecycle, TypeOK
  <1>2. CASE LockStream(c)
    <2>1. DeviceType'
      BY <1>2 DEF LockStream, TypeOK, DeviceType
    <2>2. ProcType'
      BY <1>2 DEF LockStream, TypeOK, ProcType, Step, Stages, StopStages,
         StartStages, EnqStages, Procs
    <2> QED  BY <1>2, <2>1, <2>2, DrainFrame, LoopFrame, RunFrame DEF
       LockStream, TypeOK
  <1>3. CASE DropPending(c)
    <2>1. DeviceType'
      BY <1>3 DEF DropPending, TypeOK, DeviceType
    <2> QED  BY <1>3, <2>1, ProcFrame, DrainFrame, LoopFrame, RunFrame DEF
       DropPending, TypeOK
  <1>4. CASE PendingDropped(c)
    <2>1. ProcType'
      BY <1>4 DEF PendingDropped, TypeOK, ProcType, Step, Stages, StopStages,
         StartStages, EnqStages
    <2> QED  BY <1>4, <2>1, DeviceFrame, DrainFrame, LoopFrame, RunFrame DEF
       PendingDropped, TypeOK
  <1>5. CASE CloseIdle(c)
    <2>1. DeviceType'
      BY <1>5 DEF CloseIdle, TypeOK, DeviceType, Handles
    <2>2. ProcType'
      BY <1>5 DEF CloseIdle, TypeOK, ProcType, Step, Stages, StopStages,
         StartStages, EnqStages, RestartIfEnabled
    <2> QED  BY <1>5, <2>1, <2>2, DrainFrame, LoopFrame, RunFrame DEF
       CloseIdle, TypeOK
  <1>6. CASE Unlock(c)
    <2>1. ProcType'
      BY <1>6 DEF Unlock, TypeOK, ProcType, Step, Stages, StopStages,
         StartStages, EnqStages, Procs
    <2> QED  BY <1>6, <2>1, DeviceFrame, DrainFrame, LoopFrame, RunFrame DEF
       Unlock, TypeOK
  <1> QED  BY <1>1, <1>2, <1>3, <1>4, <1>5, <1>6 DEF ClientLifecycle

\* stopStreaming and stopRun.
LEMMA StoppingType ==
  ASSUME TypeOK, NEW p \in Procs, Stopping(p)
  PROVE  TypeOK'
  <1>1. CASE BumpGen(p)
    <2>1. DeviceType'
      BY <1>1 DEF BumpGen, TypeOK, DeviceType
    <2>2. ProcType'
      BY <1>1 DEF BumpGen, TypeOK, ProcType, Step, Stages, StopStages,
         StartStages, EnqStages
    <2> QED  BY <1>1, <2>1, <2>2, DrainFrame, LoopFrame, RunFrame DEF BumpGen,
       TypeOK
  <1>2. CASE CancelRun(p)
    <2>1. DeviceType'
      BY <1>2 DEF CancelRun, TypeOK, DeviceType
    <2>2. ProcType'
      BY <1>2 DEF CancelRun, TypeOK, ProcType, Step, Stages, StopStages,
         StartStages, EnqStages
    <2>3. RunType'
      BY <1>2 DEF CancelRun, TypeOK, RunType
    <2> QED  BY <1>2, <2>1, <2>2, <2>3, DrainFrame, LoopFrame DEF CancelRun,
       TypeOK
  <1>3. CASE CloseRx(p)
    <2>1. DeviceType'
      BY <1>3 DEF CloseRx, TypeOK, DeviceType
    <2>2. ProcType'
      BY <1>3 DEF CloseRx, TypeOK, ProcType, Step, Stages, StopStages,
         StartStages, EnqStages
    <2> QED  BY <1>3, <2>1, <2>2, DrainFrame, LoopFrame, RunFrame DEF CloseRx,
       TypeOK
  <1>4. CASE WaitStopped(p)
    <2>1. DeviceType'
      BY <1>4 DEF WaitStopped, TypeOK, DeviceType
    <2>2. ProcType'
      BY <1>4 DEF WaitStopped, TypeOK, ProcType, Step, Stages, StopStages,
         StartStages, EnqStages
    <2>3. RunType'
      BY <1>4 DEF WaitStopped, TypeOK, RunType
    <2> QED  BY <1>4, <2>1, <2>2, <2>3, DrainFrame, LoopFrame DEF WaitStopped,
       TypeOK
  <1>5. CASE CloseDev(p)
    <2>1. DeviceType'
      BY <1>5 DEF CloseDev, TypeOK, DeviceType, Handles
    <2>2. ProcType'
      BY <1>5 DEF CloseDev, TypeOK, ProcType, Step, Stages, StopStages,
         StartStages, EnqStages, AfterStop, RestartIfEnabled
    <2> QED  BY <1>5, <2>1, <2>2, DrainFrame, LoopFrame, RunFrame DEF
       CloseDev, TypeOK
  <1> QED  BY <1>1, <1>2, <1>3, <1>4, <1>5 DEF Stopping

\* startRun.
LEMMA StartingType ==
  ASSUME TypeOK, NEW c \in Clients, Starting(c)
  PROVE  TypeOK'
  <1>1. CASE OpenDev(c)
    <2>1. DeviceType'
      <3>1. call[c] + 1 \in Handles
        BY DEF TypeOK, ProcType, Procs, Handles
      <3> QED  BY <1>1, <3>1 DEF OpenDev, TypeOK, DeviceType
    <2>2. ProcType'
      BY <1>1 DEF OpenDev, TypeOK, ProcType, Step, Stages, StopStages,
         StartStages, EnqStages
    <2> QED  BY <1>1, <2>1, <2>2, DrainFrame, LoopFrame, RunFrame DEF OpenDev,
       TypeOK
  <1>2. CASE ClaimRunning(c)
    <2>1. DeviceType'
      BY <1>2 DEF ClaimRunning, TypeOK, DeviceType
    <2>2. ProcType'
      BY <1>2 DEF ClaimRunning, TypeOK, ProcType, Step, Stages, StopStages,
         StartStages, EnqStages
    <2> QED  BY <1>2, <2>1, <2>2, DrainFrame, LoopFrame, RunFrame DEF
       ClaimRunning, TypeOK
  <1>3. CASE StartRxFails(c)
    <2>1. DeviceType'
      BY <1>3 DEF StartRxFails, TypeOK, DeviceType
    <2>2. ProcType'
      BY <1>3 DEF StartRxFails, TypeOK, ProcType, Step, Stages, StopStages,
         StartStages, EnqStages
    <2> QED  BY <1>3, <2>1, <2>2, DrainFrame, LoopFrame, RunFrame DEF
       StartRxFails, TypeOK
  <1>4. CASE StartRx(c)
    <2>1. DeviceType'
      BY <1>4 DEF StartRx, TypeOK, DeviceType, ProcType, Procs
    <2>2. ProcType'
      BY <1>4 DEF StartRx, TypeOK, ProcType, Step, Stages, StopStages,
         StartStages, EnqStages
    <2>3. DrainType'
      BY <1>4 DEF StartRx, TypeOK, DrainType
    <2>4. LoopType'
      BY <1>4 DEF StartRx, TypeOK, LoopType
    <2>5. RunType'
      BY <1>4 DEF StartRx, TypeOK, RunType, DeviceType
    <2> QED  BY <1>4, <2>1, <2>2, <2>3, <2>4, <2>5 DEF StartRx, TypeOK
  <1> QED  BY <1>1, <1>2, <1>3, <1>4 DEF Starting

\* drainPipe.
LEMMA DrainPipeType ==
  ASSUME TypeOK, NEW r \in Runs, DrainPipe(r)
  PROVE  TypeOK'
  <1>1. CASE DrainTop(r)
    <2>1. DrainType'
      BY <1>1 DEF DrainTop, TypeOK, DrainStep, DrainType, DrainExit
    <2> QED  BY <1>1, <2>1, DeviceFrame, ProcFrame, LoopFrame, RunFrame DEF
       DrainTop, TypeOK
  <1>2. CASE DrainLoadRx(r)
    <2>1. DrainType'
      BY <1>2 DEF DrainLoadRx, TypeOK, DrainStep, DrainType, DrainExit,
         DeviceType
    <2> QED  BY <1>2, <2>1, DeviceFrame, ProcFrame, LoopFrame, RunFrame DEF
       DrainLoadRx, TypeOK
  <1>3. CASE DrainRead(r)
    <2>1. DrainType'
      BY <1>3 DEF DrainRead, TypeOK, DrainStep, DrainType, DrainExit
    <2> QED  BY <1>3, <2>1, DeviceFrame, ProcFrame, LoopFrame, RunFrame DEF
       DrainRead, TypeOK
  <1>4. CASE DrainReadNothing(r)
    <2>1. DrainType'
      BY <1>4 DEF DrainReadNothing, TypeOK, DrainStep, DrainType, DrainExit
    <2> QED  BY <1>4, <2>1, DeviceFrame, ProcFrame, LoopFrame, RunFrame DEF
       DrainReadNothing, TypeOK
  <1>5. CASE DrainDeliver(r)
    <2>1. DrainType'
      BY <1>5 DEF DrainDeliver, TypeOK, DrainStep, DrainType, DrainExit, Full
    <2> QED  BY <1>5, <2>1, DeviceFrame, ProcFrame, LoopFrame, RunFrame DEF
       DrainDeliver, TypeOK
  <1>6. CASE DrainCheckGen(r)
    <2>1. DrainType'
      BY <1>6 DEF DrainCheckGen, TypeOK, DrainStep, DrainType, DrainExit,
         GenVerdict
    <2> QED  BY <1>6, <2>1, DeviceFrame, ProcFrame, LoopFrame, RunFrame DEF
       DrainCheckGen, TypeOK
  <1>7. CASE DrainClear(r)
    <2>1. DeviceType'
      BY <1>7 DEF DrainClear, TypeOK, DeviceType
    <2>2. DrainType'
      BY <1>7 DEF DrainClear, TypeOK, DrainStep, DrainType, DrainExit
    <2> QED  BY <1>7, <2>1, <2>2, ProcFrame, LoopFrame, RunFrame DEF
       DrainClear, TypeOK
  <1> QED  BY <1>1, <1>2, <1>3, <1>4, <1>5, <1>6, <1>7 DEF DrainPipe

\* processLoop.
LEMMA ProcessLoopType ==
  ASSUME TypeOK, NEW r \in Runs, ProcessLoop(r)
  PROVE  TypeOK'
  <1>1. CASE LoopExit(r)
    <2>1. LoopType'
      BY <1>1 DEF LoopExit, TypeOK, LoopStep, LoopType
    <2> QED  BY <1>1, <2>1, DeviceFrame, ProcFrame, DrainFrame, RunFrame DEF
       LoopExit, TypeOK
  <1>2. CASE LoopTake(r)
    <2>1. DrainType'
      BY <1>2 DEF LoopTake, TypeOK, DrainType
    <2>2. LoopType'
      BY <1>2 DEF LoopTake, TypeOK, LoopStep, LoopType
    <2> QED  BY <1>2, <2>1, <2>2, DeviceFrame, ProcFrame, RunFrame DEF
       LoopTake, TypeOK
  <1>3. CASE LoopBeginCmd(r)
    <2>1. DeviceType'
      BY <1>3 DEF LoopBeginCmd, TypeOK, DeviceType, CmdWaiting
    <2>2. LoopType'
      BY <1>3 DEF LoopBeginCmd, TypeOK, LoopStep, LoopType, DeviceType,
         CmdWaiting, Tag, Handles
    <2> QED  BY <1>3, <2>1, <2>2, ProcFrame, DrainFrame, RunFrame DEF
       LoopBeginCmd, TypeOK
  <1>4. CASE LoopEndCmd(r)
    <2>1. LoopType'
      BY <1>4 DEF LoopEndCmd, TypeOK, LoopStep, LoopType, Handles
    <2> QED  BY <1>4, <2>1, DeviceFrame, ProcFrame, DrainFrame, RunFrame DEF
       LoopEndCmd, TypeOK
  <1>5. CASE LoopProcess(r)
    <2>1. LoopType'
      BY <1>5 DEF LoopProcess, TypeOK, LoopStep, LoopType
    <2> QED  BY <1>5, <2>1, DeviceFrame, ProcFrame, DrainFrame, RunFrame DEF
       LoopProcess, TypeOK
  <1> QED  BY <1>1, <1>2, <1>3, <1>4, <1>5 DEF ProcessLoop

\* main's part in the end of the process.
LEMMA MainType ==
  ASSUME TypeOK, Shutdown \/ BeginClose
  PROVE  TypeOK'
  <1>1. CASE Shutdown
    <2>1. DeviceType'
      BY <1>1 DEF Shutdown, TypeOK, DeviceType
    <2>2. ProcType'
      BY <1>1 DEF Shutdown, TypeOK, ProcType, Step, Stages, Procs
    <2> QED  BY <1>1, <2>1, <2>2, DrainFrame, LoopFrame, RunFrame
             DEF Shutdown, TypeOK
  <1>2. CASE BeginClose
    <2>1. DeviceType'
      BY <1>2 DEF BeginClose, TypeOK, DeviceType
    <2>2. ProcType'
      BY <1>2 DEF BeginClose, TypeOK, ProcType, Step, Stages, StopStages, Procs
    <2> QED  BY <1>2, <2>1, <2>2, DrainFrame, LoopFrame, RunFrame
             DEF BeginClose, TypeOK
  <1> QED  BY <1>1, <1>2

LEMMA TypeNext == TypeOK /\ [Next]_vars => TypeOK'
  <1> SUFFICES ASSUME TypeOK, [Next]_vars PROVE TypeOK'
    OBVIOUS
  <1>1. CASE UNCHANGED vars
    BY <1>1, DeviceFrame, ProcFrame, DrainFrame, LoopFrame, RunFrame
       DEF vars, TypeOK
  <1>2. CASE Next
    BY <1>2, EnqueueType, LifecycleType, StoppingType, StartingType,
       DrainPipeType, ProcessLoopType, MainType DEF Next
  <1> QED  BY <1>1, <1>2

\* The variables of the stream keep their types, whatever calls the clients
\* make: in particular cmdCh and a run's blockCh never exceed their capacity.
THEOREM TypeCorrect == Spec => []TypeOK
  BY TypeInit, TypeNext, PTL DEF Spec

-----------------------------------------------------------------------------
(* What the steps do                                                       *)

\* openDevice was called, or not, and failed, or not: what each way has in
\* common.
LEMMA OpenDevEffect ==
  ASSUME TypeOK, NEW c \in Clients, OpenDev(c)
  PROVE  \E to \in {"cas", "unlock"} :
            /\ Step(c, "open", to)
            /\ to = "cas" \/ sdr # 0 => sdr' # 0
            /\ UNCHANGED <<procRest, flagVars, rxVars, cmdCh, goVars>>
  <1>1. call[c] + 1 # 0
    BY DEF TypeOK, ProcType, Procs
  <1> QED  BY <1>1 DEF OpenDev

\* A step of drainPipe moves that run's drainPipe and leaves the clients, the
\* queue and the other goroutines alone.  It gives up only when the context is
\* done or the stream is gone, and goes on to clear running only when runGen
\* is still its own gen.
DrainMoves(r, to) ==
  /\ drain[r] # "none" /\ to # "none"
  /\ drain' = [drain EXCEPT ![r] = to]
  /\ to \in DrainExit => CtxDone(r) \/ rx = 0 \/ drain[r] \in DrainExit
  /\ to = "clear" => drain[r] \in DrainExit /\ runGen = gen[r]
  /\ running' = running \/ drain[r] = "clear"
  /\ UNCHANGED <<procVars, enabled, runGen, handleVars, rxVars, cmdCh,
                 loopVars, runVars>>

Progress == {"top", "rx", "read", "send"} \cup DrainExit

LEMMA DrainPipeEffect ==
  ASSUME NEW r \in Runs, DrainPipe(r)
  PROVE  \E to \in Progress : DrainMoves(r, to)
  <1> USE DEF DrainStep, DrainMoves, Progress, DrainExit
  <1>1. CASE DrainTop(r)
    <2>1. PICK to \in {"check", "rx"} :
              DrainStep(r, "top", to) /\ (to = "check" => CtxDone(r))
      BY <1>1 DEF DrainTop
    <2>2. DrainMoves(r, to)
      BY <1>1, <2>1 DEF DrainTop
    <2> QED  BY <2>2
  <1>2. CASE DrainLoadRx(r)
    <2>1. PICK to \in {"check", "read"} :
              DrainStep(r, "rx", to) /\ (to = "check" => rx = 0)
      BY <1>2 DEF DrainLoadRx
    <2>2. DrainMoves(r, to)
      BY <1>2, <2>1 DEF DrainLoadRx
    <2> QED  BY <2>2
  <1>3. CASE DrainRead(r)
    <2>1. DrainMoves(r, "send")
      BY <1>3 DEF DrainRead
    <2> QED  BY <2>1
  <1>4. CASE DrainReadNothing(r)
    <2>1. PICK to \in {"check", "top"} :
              DrainStep(r, "read", to) /\ (to = "check" => CtxDone(r))
      BY <1>4 DEF DrainReadNothing
    <2>2. DrainMoves(r, to)
      BY <1>4, <2>1 DEF DrainReadNothing
    <2> QED  BY <2>2
  <1>5. CASE DrainDeliver(r)
    <2>1. PICK to \in {"check", "top"} :
              DrainStep(r, "send", to) /\ (to = "check" => CtxDone(r))
      BY <1>5 DEF DrainDeliver
    <2>2. DrainMoves(r, to)
      BY <1>5, <2>1 DEF DrainDeliver
    <2> QED  BY <2>2
  <1>6. CASE DrainCheckGen(r)
    <2>1. PICK to \in {"clear", "done"} :
              DrainStep(r, "check", to) /\ (to = "clear" => runGen = gen[r])
      BY <1>6 DEF DrainCheckGen, GenVerdict
    <2>2. DrainMoves(r, to)
      BY <1>6, <2>1 DEF DrainCheckGen
    <2> QED  BY <2>2
  <1>7. CASE DrainClear(r)
    <2>1. DrainMoves(r, "done")
      BY <1>7 DEF DrainClear
    <2> QED  BY <2>1
  <1> QED  BY <1>1, <1>2, <1>3, <1>4, <1>5, <1>6, <1>7 DEF DrainPipe

\* A step of processLoop moves that run's processLoop; it ends only when the
\* context is done or blockCh is closed.
LoopMoves(r, to) ==
  /\ loop' = [loop EXCEPT ![r] = to]
  /\ to = "done" => CtxDone(r) \/ drain[r] \in DrainExit
  /\ UNCHANGED <<procVars, deviceVars, drain, runVars>>

LEMMA ProcessLoopEffect ==
  ASSUME NEW r \in Runs, ProcessLoop(r)
  PROVE  \E to \in {"select", "busy", "cmd", "done"} : LoopMoves(r, to)
  <1> USE DEF LoopStep, LoopMoves
  <1>1. CASE LoopExit(r)
    <2>1. LoopMoves(r, "done")
      BY <1>1 DEF LoopExit
    <2> QED  BY <2>1
  <1>2. CASE LoopTake(r)
    <2>1. LoopMoves(r, "busy")
      BY <1>2 DEF LoopTake
    <2> QED  BY <2>1
  <1>3. CASE LoopBeginCmd(r)
    <2>1. LoopMoves(r, "cmd")
      BY <1>3 DEF LoopBeginCmd
    <2> QED  BY <2>1
  <1>4. CASE LoopEndCmd(r)
    <2>1. LoopMoves(r, "busy")
      BY <1>4 DEF LoopEndCmd
    <2> QED  BY <2>1
  <1>5. CASE LoopProcess(r)
    <2>1. LoopMoves(r, "select")
      BY <1>5 DEF LoopProcess
    <2> QED  BY <2>1
  <1> QED  BY <1>1, <1>2, <1>3, <1>4, <1>5 DEF ProcessLoop

-----------------------------------------------------------------------------
(* The stages of the calls, and the names of their runs                    *)

LEMMA StageFrame ==
  ASSUME StageInv, UNCHANGED <<pc, op, streamMu, parentDone>>
  PROVE  StageInv'
  BY DEF StageInv, Locked

\* One client at a time stands between Lock and Unlock.
LEMMA StageNext ==
  ASSUME TypeOK, StageInv, [Next]_vars
  PROVE  StageInv'
  <1>1. CASE UNCHANGED vars
    BY <1>1, StageFrame DEF vars
  <1>2. ASSUME NEW c \in Clients, ClientEnqueue(c) PROVE StageInv'
    <2>1. CASE Setter(c)
      BY <2>1 DEF Setter, Step, StageInv, Locked, StopStages, StartStages,
         TypeOK, ProcType, Procs
    <2>2. CASE EnqueueReset(c)
      BY <2>2 DEF EnqueueReset, Step, StageInv, Locked, StopStages,
         StartStages, TypeOK, ProcType, Procs
    <2>3. CASE Send(c)
      BY <2>3 DEF Send, Step, AfterEnqueue, StageInv, Locked, StopStages,
         StartStages, TypeOK, ProcType, Procs
    <2>4. CASE RunInline(c)
      BY <2>4 DEF RunInline, Step, AfterEnqueue, StageInv, Locked, StopStages,
         StartStages, TypeOK, ProcType, Procs
    <2> QED  BY <1>2, <2>1, <2>2, <2>3, <2>4 DEF ClientEnqueue
  <1>3. ASSUME NEW c \in Clients, ClientLifecycle(c) PROVE StageInv'
    <2>1. ASSUME NEW o \in {"on", "off", "reopen"}, BeginLifecycle(c, o)
          PROVE  StageInv'
      BY <2>1 DEF BeginLifecycle, Step, StageInv, Locked, StopStages,
         StartStages, TypeOK, ProcType, Procs
    <2>2. CASE LockStream(c)
      BY <2>2 DEF LockStream, Step, StageInv, Locked, StopStages, StartStages,
         TypeOK, ProcType, Procs
    <2>3. CASE DropPending(c)
      BY <2>3, StageFrame DEF DropPending
    <2>4. CASE PendingDropped(c)
      BY <2>4 DEF PendingDropped, Step, StageInv, Locked, StopStages,
         StartStages, TypeOK, ProcType, Procs
    <2>5. CASE CloseIdle(c)
      BY <2>5 DEF CloseIdle, Step, RestartIfEnabled, StageInv, Locked,
         StopStages, StartStages, TypeOK, ProcType, Procs
    <2>6. CASE Unlock(c)
      BY <2>6 DEF Unlock, Step, StageInv, Locked, StopStages, StartStages,
         TypeOK, ProcType, Procs
    <2> QED  BY <1>3, <2>1, <2>2, <2>3, <2>4, <2>5, <2>6 DEF ClientLifecycle
  <1>4. ASSUME NEW c \in Clients, Starting(c) PROVE StageInv'
    <2>1. CASE OpenDev(c)
      <3>1. PICK to \in {"cas", "unlock"} :
                Step(c, "open", to) /\ UNCHANGED procRest
        BY <2>1, OpenDevEffect
      <3> QED  BY <3>1 DEF Step, StageInv, Locked, StopStages, StartStages,
         TypeOK, ProcType, Procs
    <2>2. CASE ClaimRunning(c)
      BY <2>2 DEF ClaimRunning, Step, StageInv, Locked, StopStages,
         StartStages, TypeOK, ProcType, Procs
    <2>3. CASE StartRxFails(c)
      BY <2>3 DEF StartRxFails, Step, StageInv, Locked, StopStages,
         StartStages, TypeOK, ProcType, Procs
    <2>4. CASE StartRx(c)
      BY <2>4 DEF StartRx, Step, StageInv, Locked, StopStages, StartStages,
         TypeOK, ProcType, Procs
    <2> QED  BY <1>4, <2>1, <2>2, <2>3, <2>4 DEF Starting
  <1>5. ASSUME NEW p \in Procs, Stopping(p) PROVE StageInv'
    <2>1. CASE BumpGen(p)
      BY <2>1 DEF BumpGen, Step, StageInv, Locked, StopStages, StartStages,
         TypeOK, ProcType, Procs
    <2>2. CASE CancelRun(p)
      BY <2>2 DEF CancelRun, Step, StageInv, Locked, StopStages, StartStages,
         TypeOK, ProcType, Procs
    <2>3. CASE CloseRx(p)
      BY <2>3 DEF CloseRx, Step, StageInv, Locked, StopStages, StartStages,
         TypeOK, ProcType, Procs
    <2>4. CASE WaitStopped(p)
      BY <2>4 DEF WaitStopped, Step, StageInv, Locked, StopStages,
         StartStages, TypeOK, ProcType, Procs
    <2>5. CASE CloseDev(p)
      BY <2>5 DEF CloseDev, Step, AfterStop, RestartIfEnabled, StageInv,
         Locked, StopStages, StartStages, TypeOK, ProcType, Procs
    <2> QED  BY <1>5, <2>1, <2>2, <2>3, <2>4, <2>5 DEF Stopping
  <1>6. ASSUME NEW r \in Runs, DrainPipe(r) \/ ProcessLoop(r)
        PROVE  StageInv'
    BY <1>6, DrainPipeEffect, ProcessLoopEffect, StageFrame
       DEF DrainMoves, LoopMoves
  <1>7. CASE Shutdown
    BY <1>7 DEF Shutdown, Step, StageInv, Locked, TypeOK, ProcType, Procs
  <1>8. CASE BeginClose
    BY <1>8 DEF BeginClose, Step, StageInv, Locked, TypeOK, ProcType, Procs
  <1> QED  BY <1>1, <1>2, <1>3, <1>4, <1>5, <1>6, <1>7, <1>8 DEF Next

\* The stages from which a call may still start its run.
Pending == {"lock", "drainQ", "closeIdle"} \cup StopStages \cup StartStages

\* A step that starts no run and begins no call, if it moves a goroutine p at
\* all: p may start a run afterwards only if it might before.
LEMMA FreshMove ==
  ASSUME TypeOK, FreshInv, NEW p \in Procs, NEW to,
         pc' = [pc EXCEPT ![p] = to], to \in Pending => pc[p] \in Pending,
         UNCHANGED <<op, call, ops, drain>>
  PROVE  FreshInv'
  <1>1. \A c \in Clients : pc'[c] \in Pending => pc[c] \in Pending
    BY DEF TypeOK, ProcType
  <1> QED  BY <1>1 DEF FreshInv, Pending

\* A step of drainPipe or processLoop, neither of which starts a run.
LEMMA FreshFrame ==
  ASSUME FreshInv, TypeOK, UNCHANGED procVars,
         \A r \in Runs : drain[r] = "none" => drain'[r] = "none"
  PROVE  FreshInv'
  <1>1. ASSUME NEW c \in Clients, pc'[c] \in Pending
        PROVE  drain'[call'[c] + 1] = "none"
    <2>1. drain[call[c] + 1] = "none" /\ call[c] + 1 \in Runs
      BY <1>1 DEF FreshInv, Pending, TypeOK, ProcType, Procs, Runs
    <2> QED  BY <2>1
  <1> QED  BY <1>1 DEF FreshInv, Pending

\* Every call that reaches startRun starts a run nobody started before.
LEMMA FreshNext ==
  ASSUME TypeOK, StageInv, FreshInv, [Next]_vars
  PROVE  FreshInv'
  <1>1. CASE UNCHANGED vars
    BY <1>1, FreshFrame DEF vars
  <1>2. ASSUME NEW c \in Clients, ClientEnqueue(c) PROVE FreshInv'
    <2> USE DEF Procs, Step, Pending, StopStages, StartStages
    <2>1. CASE Setter(c)
      BY <2>1, FreshMove DEF Setter
    <2>2. CASE EnqueueReset(c)
      BY <2>2, FreshMove DEF EnqueueReset
    <2>3. CASE Send(c)
      BY <2>3, FreshMove DEF Send, AfterEnqueue
    <2>4. CASE RunInline(c)
      BY <2>4, FreshMove DEF RunInline, AfterEnqueue
    <2> QED  BY <1>2, <2>1, <2>2, <2>3, <2>4 DEF ClientEnqueue
  <1>3. ASSUME NEW c \in Clients, ClientLifecycle(c) PROVE FreshInv'
    <2> USE DEF Procs, Step, Pending, StopStages, StartStages
    <2>1. ASSUME NEW o \in {"on", "off", "reopen"}, BeginLifecycle(c, o)
          PROVE  FreshInv'
      <3>1. call' = [call EXCEPT ![c] = ops + 1] /\ ops' = ops + 1
            /\ op' = [op EXCEPT ![c] = o] /\ pc' = [pc EXCEPT ![c] = "lock"]
            /\ drain' = drain /\ ops \in 0 .. MaxOps /\ ops < MaxOps
        BY <2>1 DEF BeginLifecycle, TypeOK, ProcType
      <3>2. ASSUME NEW d \in Clients, op'[d] # "none"
            PROVE  call'[d] \in 1 .. ops'
        BY <3>1, <3>2 DEF FreshInv, TypeOK, ProcType
      <3>3. ASSUME NEW d \in Clients, pc'[d] \in Pending
            PROVE  drain'[call'[d] + 1] = "none"
        <4>1. CASE d = c
          <5>1. ops + 2 \in Runs /\ ops + 2 > ops + 1
            BY <3>1 DEF Runs
          <5>2. drain[ops + 2] = "none"
            BY <5>1 DEF FreshInv
          <5> QED  BY <3>1, <4>1, <5>2 DEF TypeOK, ProcType
        <4>2. CASE d # c
          BY <3>1, <3>3, <4>2 DEF FreshInv, TypeOK, ProcType
        <4> QED  BY <4>1, <4>2
      <3>4. ASSUME NEW d \in Clients, NEW e \in Clients, d # e,
                   op'[d] # "none", op'[e] # "none"
            PROVE  call'[d] # call'[e]
        BY <3>1, <3>4 DEF FreshInv, TypeOK, ProcType
      <3>5. ASSUME NEW r \in Runs, r > ops' + 1 PROVE drain'[r] = "none"
        BY <3>1, <3>5 DEF FreshInv, Runs
      <3> QED  BY <3>2, <3>3, <3>4, <3>5 DEF FreshInv
    <2>2. CASE LockStream(c)
      BY <2>2, FreshMove DEF LockStream
    <2>3. CASE DropPending(c)
      BY <2>3, FreshFrame DEF DropPending
    <2>4. CASE PendingDropped(c)
      BY <2>4, FreshMove DEF PendingDropped
    <2>5. CASE CloseIdle(c)
      BY <2>5, FreshMove DEF CloseIdle, RestartIfEnabled
    <2>6. CASE Unlock(c)
      BY <2>6 DEF Unlock, FreshInv, TypeOK, ProcType
    <2> QED  BY <1>3, <2>1, <2>2, <2>3, <2>4, <2>5, <2>6 DEF ClientLifecycle
  <1>4. ASSUME NEW c \in Clients, Starting(c) PROVE FreshInv'
    <2> USE DEF Procs, Step, Pending, StopStages, StartStages
    <2>1. CASE OpenDev(c)
      <3>1. PICK to \in {"cas", "unlock"} :
                Step(c, "open", to) /\ UNCHANGED <<procRest, goVars>>
        BY <2>1, OpenDevEffect
      <3> QED  BY <3>1, FreshMove
    <2>2. CASE ClaimRunning(c)
      BY <2>2, FreshMove DEF ClaimRunning
    <2>3. CASE StartRxFails(c)
      BY <2>3, FreshMove DEF StartRxFails
    <2>4. CASE StartRx(c)
      <3>1. /\ pc[c] = "startRx" /\ \A d \in Clients \ {c} : pc'[d] = pc[d]
            /\ pc'[c] \in {"enq", "unlock"}
            /\ UNCHANGED <<op, call, ops>>
            /\ \A r \in Runs : r # call[c] + 1 => drain'[r] = drain[r]
        BY <2>4 DEF StartRx, TypeOK, ProcType, DrainType
      <3>2. op[c] # "none" /\ call[c] \in 1 .. ops
        BY <3>1 DEF StageInv, FreshInv
      <3>3. ASSUME NEW d \in Clients, pc'[d] \in Pending
            PROVE  drain'[call'[d] + 1] = "none"
        <4>1. d # c /\ pc'[d] = pc[d]
          BY <3>1, <3>3
        <4>2. op[d] # "none" /\ drain[call[d] + 1] = "none"
          BY <3>3, <4>1 DEF StageInv, FreshInv
        <4>3. call[d] # call[c] /\ call[d] + 1 \in Runs
          BY <3>2, <4>1, <4>2 DEF FreshInv, TypeOK, ProcType, Runs
        <4>4. call[d] + 1 # call[c] + 1
          BY <3>2, <4>3 DEF TypeOK, ProcType
        <4> QED  BY <3>1, <4>2, <4>3, <4>4
      <3>4. ASSUME NEW r \in Runs, r > ops' + 1 PROVE drain'[r] = "none"
        BY <3>1, <3>2, <3>4 DEF FreshInv, Runs, TypeOK, ProcType
      <3> QED  BY <3>1, <3>3, <3>4 DEF FreshInv
    <2> QED  BY <1>4, <2>1, <2>2, <2>3, <2>4 DEF Starting
  <1>5. ASSUME NEW p \in Procs, Stopping(p) PROVE FreshInv'
    <2> USE DEF Step, Pending, StopStages, StartStages
    <2>1. CASE BumpGen(p)
      BY <2>1, FreshMove DEF BumpGen
    <2>2. CASE CancelRun(p)
      BY <2>2, FreshMove DEF CancelRun
    <2>3. CASE CloseRx(p)
      BY <2>3, FreshMove DEF CloseRx
    <2>4. CASE WaitStopped(p)
      BY <2>4, FreshMove DEF WaitStopped
    <2>5. CASE CloseDev(p)
      BY <2>5, FreshMove DEF CloseDev, AfterStop, RestartIfEnabled
    <2> QED  BY <1>5, <2>1, <2>2, <2>3, <2>4, <2>5 DEF Stopping
  <1>6. ASSUME NEW r \in Runs, DrainPipe(r) PROVE FreshInv'
    BY <1>6, DrainPipeEffect, FreshFrame DEF DrainMoves, TypeOK, DrainType
  <1>7. ASSUME NEW r \in Runs, ProcessLoop(r) PROVE FreshInv'
    BY <1>7, ProcessLoopEffect, FreshFrame DEF LoopMoves
  <1>8. CASE Shutdown
    BY <1>8 DEF Shutdown, Step, FreshInv, TypeOK, ProcType, Procs
  <1>9. CASE BeginClose
    BY <1>9 DEF BeginClose, Step, FreshInv, TypeOK, ProcType, Procs
  <1> QED  BY <1>1, <1>2, <1>3, <1>4, <1>5, <1>6, <1>7, <1>8, <1>9 DEF Next

-----------------------------------------------------------------------------
(* The runs and the device                                                 *)

\* The stages of a call that touches the device, all of them under streamMu.
AtDevice == {"closeIdle"} \cup StopStages \cup StartStages
UnderLock == {"drainQ", "unlock"} \cup AtDevice

\* Before shutdown a goroutine at such a stage is a client, holds streamMu,
\* and is the only one.
LEMMA OneHolder ==
  ASSUME IInv, ~parentDone, NEW p \in Procs, pc[p] \in UnderLock
  PROVE  /\ p \in Clients /\ streamMu = p /\ streamMu # NoOne
         /\ \A d \in Clients \ {p} : pc[d] \notin UnderLock
  <1>1. p \in Clients
    BY DEF IInv, StageInv, Procs, UnderLock, AtDevice, StopStages, StartStages
  <1>2. \A d \in Clients : pc[d] \in UnderLock => streamMu = d
    BY DEF IInv, StageInv, Locked, UnderLock, AtDevice, StopStages, StartStages
  <1> QED  BY <1>1, <1>2

LEMMA RunInvFrame ==
  ASSUME RunInv, UNCHANGED <<gen, runGen, cancelled, drain, runCancel, loop>>
  PROVE  RunInv'
  BY DEF RunInv, Live

\* drainPipe leaves only a cancelled run, and does not clear running: runGen
\* has gone past its gen.
LEMMA RunInvDrain ==
  ASSUME IInv, ~parentDone, NEW r \in Runs, NEW to, DrainMoves(r, to)
  PROVE  RunInv'
  <1>1. /\ RunInv /\ DeviceInv
        /\ gen[r] \in Nat /\ runGen \in Nat
        /\ \A s \in Runs : drain'[s] = IF s = r THEN to ELSE drain[s]
    BY DEF IInv, TypeOK, DrainType, RunType, DeviceType, DrainMoves
  <1>2. rx = 0 => runCancel = 0
    BY <1>1 DEF DeviceInv
  <1>3. to \in DrainExit => cancelled[r]
    <2>1. Live(r) => runCancel = r /\ r # 0
      BY <1>1 DEF RunInv, Runs
    <2> QED  BY <1>1, <1>2, <2>1 DEF DrainMoves, RunInv, Live, CtxDone
  <1>4. to # "clear"
    BY <1>1, <1>3 DEF DrainMoves, RunInv, DrainExit
  <1>5. \A s \in Runs : Live(s)' <=> Live(s)
    BY <1>1 DEF DrainMoves, Live
  <1>6. UNCHANGED <<gen, runGen, cancelled, runCancel, loop>>
    BY DEF DrainMoves
  <1> QED  BY <1>1, <1>3, <1>4, <1>5, <1>6 DEF RunInv, DrainMoves

\* processLoop leaves only a cancelled run.
LEMMA RunInvLoop ==
  ASSUME IInv, ~parentDone, NEW r \in Runs, NEW to, LoopMoves(r, to)
  PROVE  RunInv'
  <1>1. RunInv
    BY DEF IInv
  <1>2. to = "done" => cancelled[r]
    BY <1>1 DEF LoopMoves, RunInv, CtxDone
  <1>3. \A s \in Runs : loop'[s] = "done" => loop[s] = "done" \/ cancelled[s]
    BY <1>2 DEF LoopMoves, IInv, TypeOK, LoopType
  <1>4. UNCHANGED <<gen, runGen, cancelled, drain, runCancel>>
    BY DEF LoopMoves
  <1> QED  BY <1>1, <1>3, <1>4 DEF RunInv, Live

\* Runs are cancelled before they are left, and left behind before they are
\* cancelled.
LEMMA RunNext ==
  ASSUME IInv, ~parentDone, ~parentDone', [Next]_vars
  PROVE  RunInv'
  <1> RunInv /\ DeviceInv /\ TypeOK
    BY DEF IInv
  <1>1. CASE UNCHANGED vars
    BY <1>1, RunInvFrame DEF vars
  <1>2. ASSUME NEW c \in Clients, ClientEnqueue(c) PROVE RunInv'
    BY <1>2, RunInvFrame DEF ClientEnqueue, Setter, EnqueueReset, Send,
       RunInline
  <1>3. ASSUME NEW c \in Clients, ClientLifecycle(c) PROVE RunInv'
    BY <1>3, RunInvFrame DEF ClientLifecycle, BeginLifecycle, LockStream,
       DropPending, PendingDropped, CloseIdle, Unlock
  <1>4. ASSUME NEW c \in Clients, Starting(c) PROVE RunInv'
    <2>1. CASE OpenDev(c)
      BY <2>1, OpenDevEffect, RunInvFrame
    <2>2. CASE ClaimRunning(c) \/ StartRxFails(c)
      BY <2>2, RunInvFrame DEF ClaimRunning, StartRxFails
    <2>3. CASE StartRx(c)
      <3> DEFINE n == call[c] + 1
      <3>1. runCancel = 0 /\ n \in Runs /\ drain[n] = "none"
        BY <2>3 DEF StartRx, Step, IInv, FreshInv, DeviceInv, StartStages,
           TypeOK, ProcType, Procs, Runs
      <3>2. /\ gen' = [gen EXCEPT ![n] = runGen]
            /\ drain' = [drain EXCEPT ![n] = "top"]
            /\ loop' = [loop EXCEPT ![n] = "select"]
            /\ runCancel' = n
            /\ UNCHANGED <<cancelled, runGen>>
        BY <2>3 DEF StartRx
      <3>3. ~cancelled[n]
        BY <3>1 DEF RunInv
      <3>4. \A r \in Runs : ~Live(r)
        BY <3>1 DEF RunInv, Runs
      <3> HIDE DEF n
      <3> QED  BY <3>1, <3>2, <3>3, <3>4 DEF RunInv, Live, TypeOK,
                  DeviceType, DrainType, LoopType, RunType, DrainExit
    <2> QED  BY <1>4, <2>1, <2>2, <2>3 DEF Starting
  <1>5. ASSUME NEW p \in Procs, Stopping(p) PROVE RunInv'
    <2>1. CASE BumpGen(p)
      <3>1. runGen' = runGen + 1 /\ runGen \in Nat
            /\ UNCHANGED <<gen, cancelled, drain, loop, runCancel>>
        BY <2>1 DEF BumpGen, TypeOK, DeviceType
      <3>2. \A r \in Runs : gen[r] \in Nat /\ gen[r] <= runGen
        BY DEF RunInv, TypeOK, RunType
      <3>3. \A r \in Runs : gen'[r] < runGen'
        BY <3>1, <3>2
      <3>4. \A r \in Runs : gen'[r] <= runGen'
        BY <3>1, <3>2
      <3> QED  BY <3>1, <3>3, <3>4 DEF RunInv, Live
    <2>2. CASE CancelRun(p)
      <3>1. pc[p] = "cancel" /\ p \in Clients
        BY <2>2, OneHolder DEF CancelRun, Step, UnderLock, AtDevice, StopStages
      <3>2. \A r \in Runs : gen[r] < runGen
        BY <3>1 DEF DeviceInv
      <3>3. \A r \in Runs : cancelled'[r] <=> cancelled[r] \/ r = runCancel
        BY <2>2 DEF CancelRun
      <3>4. \A r \in Runs : r = runCancel => Live(r)
        BY DEF DeviceInv, Runs
      <3>5. \A r \in Runs : ~Live(r)'
        BY <2>2, <3>3 DEF CancelRun, RunInv, Live
      <3>6. UNCHANGED <<gen, runGen, drain, loop>>
        BY <2>2 DEF CancelRun
      <3> QED  BY <3>2, <3>3, <3>4, <3>5, <3>6 DEF RunInv, Live
    <2>3. CASE CloseRx(p) \/ WaitStopped(p) \/ CloseDev(p)
      BY <2>3, RunInvFrame DEF CloseRx, WaitStopped, CloseDev
    <2> QED  BY <1>5, <2>1, <2>2, <2>3 DEF Stopping
  <1>6. ASSUME NEW r \in Runs, DrainPipe(r) PROVE RunInv'
    BY <1>6, DrainPipeEffect, RunInvDrain
  <1>7. ASSUME NEW r \in Runs, ProcessLoop(r) PROVE RunInv'
    BY <1>7, ProcessLoopEffect, RunInvLoop
  <1>8. ~Shutdown
    BY DEF Shutdown
  <1>9. CASE BeginClose
    BY <1>9, RunInvFrame DEF BeginClose
  <1> QED  BY <1>1, <1>2, <1>3, <1>4, <1>5, <1>6, <1>7, <1>8, <1>9 DEF Next

\* What DeviceInv says when the holder of streamMu stands at stage s.
DeviceAt(s) ==
  /\ runCancel # 0 =>
      /\ running /\ sdr # 0 /\ rx = runCancel
      /\ Live(runCancel)
      /\ gen[runCancel] = runGen \/ s = "cancel"
  /\ running /\ runCancel = 0 => s \in {"closeRx", "wait", "startRx"}
  /\ running /\ ~enabled => s \in {"bump", "cancel", "closeRx", "wait"}
  /\ s \in {"closeRx", "wait", "closeDev", "closeIdle", "startRx"}
         => runCancel = 0
  /\ s = "cancel" => \A r \in Runs : gen[r] < runGen
  /\ s \in {"cas", "startRx"} => sdr # 0
  /\ s = "startRx" => running
  /\ s \in StartStages => enabled

LEMMA DeviceAtHolder ==
  ASSUME DeviceInv, streamMu \in Clients
  PROVE  DeviceAt(pc[streamMu])
  BY DEF DeviceInv, HolderIn, DeviceAt

\* A client that holds streamMu after its step keeps DeviceInv true by what
\* holds at the stage it reaches.
LEMMA HolderStep ==
  ASSUME TypeOK, NEW c \in Clients, NEW s, pc' = [pc EXCEPT ![c] = s],
         streamMu' = c, \A d \in Clients \ {c} : pc[d] \notin AtDevice,
         DeviceAt(s)'
  PROVE  DeviceInv'
  <1>1. pc'[c] = s /\ \A d \in Clients \ {c} : pc'[d] \notin AtDevice
    BY DEF TypeOK, ProcType, Procs
  <1>2. \A S : s \in S => HolderIn(S)'
    BY <1>1 DEF HolderIn
  <1>3. ASSUME NEW d \in Clients
        PROVE  /\ pc'[d] \in {"closeRx", "wait", "closeDev", "closeIdle", "startRx"}
                      => runCancel' = 0
               /\ pc'[d] = "cancel" => \A r \in Runs : gen'[r] < runGen'
               /\ pc'[d] \in {"cas", "startRx"} => sdr' # 0
               /\ pc'[d] = "startRx" => running'
               /\ pc'[d] \in StartStages => enabled'
    BY <1>1 DEF DeviceAt, AtDevice, StopStages, StartStages
  <1> QED  BY <1>2, <1>3 DEF DeviceAt, DeviceInv

\* A client's step away from the device, when it does not give up the lock.
LEMMA DeviceMove ==
  ASSUME TypeOK, DeviceInv, NEW c \in Clients, NEW to,
         pc' = [pc EXCEPT ![c] = to], pc[c] \notin AtDevice, to \notin AtDevice,
         UNCHANGED <<streamMu, deviceVars, gen, cancelled, drain>>
  PROVE  DeviceInv'
  <1>1. \A d \in Clients :
           \/ pc'[d] = pc[d]
           \/ pc[d] \notin AtDevice /\ pc'[d] \notin AtDevice
    BY DEF TypeOK, ProcType, Procs
  <1>2. streamMu # NoOne => streamMu \in Clients
    BY DEF TypeOK, ProcType
  <1>3. \A S \in SUBSET AtDevice : HolderIn(S)' <=> HolderIn(S)
    BY <1>1, <1>2 DEF HolderIn
  <1>4. /\ {"cancel"} \in SUBSET AtDevice
        /\ {"closeRx", "wait", "startRx"} \in SUBSET AtDevice
        /\ {"bump", "cancel", "closeRx", "wait"} \in SUBSET AtDevice
    BY DEF AtDevice, StopStages, StartStages
  <1>5. ASSUME NEW d \in Clients, pc'[d] \in AtDevice PROVE pc'[d] = pc[d]
    BY <1>1, <1>5
  <1>6. Live(runCancel)' <=> Live(runCancel)
    BY DEF Live
  <1>7. ASSUME NEW d \in Clients
        PROVE  /\ pc'[d] \in {"closeRx", "wait", "closeDev", "closeIdle", "startRx"}
                      => runCancel' = 0
               /\ pc'[d] = "cancel" => \A r \in Runs : gen'[r] < runGen'
               /\ pc'[d] \in {"cas", "startRx"} => sdr' # 0
               /\ pc'[d] = "startRx" => running'
               /\ pc'[d] \in StartStages => enabled'
    BY <1>5 DEF DeviceInv, AtDevice, StopStages, StartStages
  <1> QED  BY <1>3, <1>4, <1>6, <1>7 DEF DeviceInv

\* A step of the run's goroutines, which do not touch the device.
LEMMA GoroutineFrame ==
  ASSUME TypeOK, DeviceInv, UNCHANGED <<procVars, deviceVars, gen, cancelled>>,
         \A s \in Runs : drain[s] # "none" => drain'[s] # "none"
  PROVE  DeviceInv'
  <1>1. \A s \in Runs : Live(s) => Live(s)'
    BY DEF Live
  <1>2. runCancel # 0 => runCancel \in Runs
    BY DEF TypeOK, DeviceType, Runs
  <1> QED  BY <1>1, <1>2 DEF DeviceInv, HolderIn

\* The device is open and the cancel function is set while a run is live.
LEMMA DeviceNext ==
  ASSUME IInv, ~parentDone, ~parentDone', [Next]_vars
  PROVE  DeviceInv'
  <1> RunInv /\ DeviceInv /\ TypeOK /\ StageInv
    BY DEF IInv
  <1> USE DEF Step
  <1>1. CASE UNCHANGED vars
    BY <1>1, GoroutineFrame DEF vars
  <1>2. ASSUME NEW c \in Clients, ClientEnqueue(c) PROVE DeviceInv'
    <2> USE DEF AtDevice, StopStages, StartStages
    <2>1. CASE Setter(c) \/ EnqueueReset(c)
      BY <2>1, DeviceMove DEF Setter, EnqueueReset
    <2>2. CASE Send(c) \/ RunInline(c)
      BY <2>2, DeviceMove DEF Send, RunInline, AfterEnqueue
    <2> QED  BY <1>2, <2>1, <2>2 DEF ClientEnqueue
  <1>3. ASSUME NEW c \in Clients, ClientLifecycle(c) PROVE DeviceInv'
    <2>1. ASSUME NEW o \in {"on", "off", "reopen"}, BeginLifecycle(c, o)
          PROVE  DeviceInv'
      BY <2>1, DeviceMove DEF BeginLifecycle, AtDevice, StopStages, StartStages
    <2>2. CASE LockStream(c)
      <3>1. \A d \in Clients : pc[d] \notin AtDevice
        BY <2>2 DEF LockStream, StageInv, Locked, AtDevice, StopStages,
           StartStages
      <3>2. \A S : ~HolderIn(S)
        BY <2>2 DEF LockStream, HolderIn
      <3>3. PICK s \in {"open", "bump", "drainQ"} :
               /\ pc' = [pc EXCEPT ![c] = s]
               /\ s = "open" => enabled'
               /\ s = "drainQ" => enabled' = enabled
        BY <2>2 DEF LockStream
      <3>4. DeviceAt(s)'
        BY <2>2, <3>2, <3>3 DEF LockStream, DeviceAt, DeviceInv, Live,
           StartStages
      <3> QED  BY <2>2, <3>1, <3>3, <3>4, HolderStep DEF LockStream
    <2>3. CASE DropPending(c)
      BY <2>3, GoroutineFrame DEF DropPending
    <2>4. CASE PendingDropped(c) \/ CloseIdle(c)
      <3>1. /\ streamMu = c /\ DeviceAt(pc[c])
            /\ \A d \in Clients \ {c} : pc[d] \notin AtDevice
        BY <2>4, OneHolder, DeviceAtHolder DEF PendingDropped, CloseIdle,
           UnderLock, AtDevice, Procs
      <3>2. CASE PendingDropped(c)
        <4>1. PICK s \in {"bump", "closeIdle"} :
                  pc' = [pc EXCEPT ![c] = s] /\ (s = "bump" <=> running)
          BY <3>2 DEF PendingDropped
        <4>2. DeviceAt(s)'
          BY <3>1, <3>2, <4>1 DEF PendingDropped, DeviceAt, Live, StartStages
        <4> QED  BY <3>1, <3>2, <4>1, <4>2, HolderStep DEF PendingDropped
      <3>3. CASE CloseIdle(c)
        <4>1. PICK s \in {"open", "unlock"} :
                  pc' = [pc EXCEPT ![c] = s] /\ (s = "open" <=> enabled)
          BY <3>3 DEF CloseIdle, RestartIfEnabled
        <4>2. DeviceAt(s)'
          BY <3>1, <3>3, <4>1 DEF CloseIdle, DeviceAt, StartStages
        <4> QED  BY <3>1, <3>3, <4>1, <4>2, HolderStep DEF CloseIdle
      <3> QED  BY <2>4, <3>2, <3>3
    <2>5. CASE Unlock(c)
      <3>1. /\ streamMu = c /\ DeviceAt("unlock") /\ pc[c] = "unlock"
            /\ \A d \in Clients \ {c} : pc[d] \notin AtDevice
        BY <2>5, OneHolder, DeviceAtHolder DEF Unlock, UnderLock, Procs
      <3>2. \A d \in Clients : pc'[d] \notin AtDevice
        BY <2>5, <3>1 DEF Unlock, AtDevice, StopStages, StartStages, TypeOK,
           ProcType, Procs
      <3>3. UNCHANGED <<deviceVars, gen, cancelled, drain>>
        BY <2>5 DEF Unlock
      <3>4. Live(runCancel)' <=> Live(runCancel)
        BY <3>3 DEF Live
      <3>5. /\ runCancel # 0 =>
                 /\ running /\ sdr # 0 /\ rx = runCancel
                 /\ Live(runCancel) /\ gen[runCancel] = runGen
            /\ ~(running /\ runCancel = 0) /\ ~(running /\ ~enabled)
        BY <3>1 DEF DeviceAt
      <3> QED  BY <3>2, <3>3, <3>4, <3>5 DEF DeviceInv, AtDevice, StopStages,
                  StartStages
    <2> QED  BY <1>3, <2>1, <2>2, <2>3, <2>4, <2>5 DEF ClientLifecycle
  <1>4. ASSUME NEW c \in Clients, Starting(c) PROVE DeviceInv'
    <2>1. pc[c] \in StartStages
      BY <1>4 DEF Starting, OpenDev, ClaimRunning, StartRxFails, StartRx,
         StartStages
    <2>2. /\ streamMu = c /\ DeviceAt(pc[c])
          /\ \A d \in Clients \ {c} : pc[d] \notin AtDevice
      BY <2>1, OneHolder, DeviceAtHolder DEF UnderLock, AtDevice, Procs
    <2>3. CASE OpenDev(c)
      <3>1. PICK to \in {"cas", "unlock"} :
                /\ Step(c, "open", to)
                /\ to = "cas" \/ sdr # 0 => sdr' # 0
                /\ UNCHANGED <<procRest, flagVars, rxVars, cmdCh, goVars>>
        BY <2>3, OpenDevEffect
      <3>2. DeviceAt(to)'
        BY <2>2, <3>1 DEF DeviceAt, Live, StartStages
      <3> QED  BY <2>2, <3>1, <3>2, HolderStep
    <2>4. CASE ClaimRunning(c)
      <3>1. PICK s \in {"unlock", "startRx"} :
                pc' = [pc EXCEPT ![c] = s] /\ (s = "startRx" <=> ~running)
        BY <2>4 DEF ClaimRunning
      <3>2. DeviceAt(s)'
        BY <2>2, <2>4, <3>1 DEF ClaimRunning, DeviceAt, Live, StartStages
      <3> QED  BY <2>2, <2>4, <3>1, <3>2, HolderStep DEF ClaimRunning
    <2>5. CASE StartRxFails(c)
      <3>1. DeviceAt("unlock")'
        BY <2>2, <2>5 DEF StartRxFails, DeviceAt, Live, StartStages
      <3> QED  BY <2>2, <2>5, <3>1, HolderStep DEF StartRxFails
    <2>6. CASE StartRx(c)
      <3> DEFINE n == call[c] + 1
      <3>1. /\ n \in Runs /\ n # 0 /\ drain[n] = "none"
            /\ running /\ sdr # 0 /\ enabled
        BY <2>2, <2>6 DEF StartRx, DeviceAt, IInv, FreshInv, StartStages,
           ProcType, TypeOK, Procs, Runs
      <3>2. ~cancelled[n]
        BY <3>1 DEF RunInv
      <3>3. /\ rx' = n /\ runCancel' = n
            /\ gen' = [gen EXCEPT ![n] = runGen]
            /\ drain' = [drain EXCEPT ![n] = "top"]
            /\ UNCHANGED <<flagVars, handleVars, cancelled, streamMu>>
        BY <2>6 DEF StartRx
      <3>4. gen'[n] = runGen /\ drain'[n] = "top"
        BY <3>1, <3>3 DEF TypeOK, RunType, DrainType
      <3>5. PICK s \in {"enq", "unlock"} : pc' = [pc EXCEPT ![c] = s]
        BY <2>6 DEF StartRx
      <3> HIDE DEF n
      <3>6. DeviceAt(s)'
        BY <3>1, <3>2, <3>3, <3>4, <3>5 DEF DeviceAt, Live, StartStages
      <3> QED  BY <2>2, <3>3, <3>5, <3>6, HolderStep
    <2> QED  BY <1>4, <2>3, <2>4, <2>5, <2>6 DEF Starting
  <1>5. ASSUME NEW p \in Procs, Stopping(p) PROVE DeviceInv'
    <2>1. pc[p] \in StopStages
      BY <1>5 DEF Stopping, BumpGen, CancelRun, CloseRx, WaitStopped, CloseDev,
         StopStages
    <2>2. /\ p \in Clients /\ streamMu = p /\ DeviceAt(pc[p])
          /\ \A d \in Clients \ {p} : pc[d] \notin AtDevice
      BY <2>1, OneHolder, DeviceAtHolder DEF UnderLock, AtDevice
    <2>3. CASE BumpGen(p)
      <3>1. \A r \in Runs : gen[r] \in Nat /\ gen[r] <= runGen
        BY DEF RunInv, TypeOK, RunType
      <3>2. runGen' = runGen + 1 /\ runGen \in Nat /\ gen' = gen
        BY <2>3 DEF BumpGen, TypeOK, DeviceType
      <3>3. \A r \in Runs : gen'[r] < runGen'
        BY <3>1, <3>2
      <3>4. DeviceAt("cancel")'
        BY <2>2, <2>3, <3>3 DEF BumpGen, DeviceAt, Live, StartStages
      <3> QED  BY <2>2, <2>3, <3>4, HolderStep DEF BumpGen
    <2>4. CASE CancelRun(p)
      <3>1. DeviceAt("closeRx")'
        BY <2>2, <2>4 DEF CancelRun, DeviceAt, StartStages
      <3> QED  BY <2>2, <2>4, <3>1, HolderStep DEF CancelRun
    <2>5. CASE CloseRx(p)
      <3>1. DeviceAt("wait")'
        BY <2>2, <2>5 DEF CloseRx, DeviceAt, StartStages
      <3> QED  BY <2>2, <2>5, <3>1, HolderStep DEF CloseRx
    <2>6. CASE WaitStopped(p)
      <3>1. DeviceAt("closeDev")'
        BY <2>2, <2>6 DEF WaitStopped, DeviceAt, StartStages
      <3> QED  BY <2>2, <2>6, <3>1, HolderStep DEF WaitStopped
    <2>7. CASE CloseDev(p)
      <3>1. op[p] # "close"
        BY <2>2 DEF StageInv
      <3>2. PICK s \in {"open", "unlock"} :
                pc' = [pc EXCEPT ![p] = s] /\ (s = "open" => enabled)
        BY <2>7, <3>1 DEF CloseDev, AfterStop, RestartIfEnabled
      <3>3. pc[p] = "closeDev" /\ UNCHANGED <<procRest, flagVars, rxVars, goVars>>
        BY <2>7 DEF CloseDev
      <3>4. DeviceAt(s)'
        BY <2>2, <3>2, <3>3 DEF DeviceAt, StartStages
      <3> QED  BY <2>2, <3>2, <3>3, <3>4, HolderStep
    <2> QED  BY <1>5, <2>3, <2>4, <2>5, <2>6, <2>7 DEF Stopping
  <1>6. ASSUME NEW r \in Runs, DrainPipe(r) PROVE DeviceInv'
    <2>1. PICK to \in Progress : DrainMoves(r, to)
      BY <1>6, DrainPipeEffect
    <2>2. running' = running
      BY <2>1 DEF DrainMoves, RunInv, DrainExit
    <2>3. \A s \in Runs : drain[s] # "none" => drain'[s] # "none"
      BY <2>1 DEF DrainMoves, TypeOK, DrainType
    <2> QED  BY <2>1, <2>2, <2>3, GoroutineFrame DEF DrainMoves
  <1>7. ASSUME NEW r \in Runs, ProcessLoop(r) PROVE DeviceInv'
    BY <1>7, ProcessLoopEffect, GoroutineFrame DEF LoopMoves
  <1>8. ~Shutdown
    BY DEF Shutdown
  <1>9. ~BeginClose
    BY DEF BeginClose, StageInv
  <1> QED  BY <1>1, <1>2, <1>3, <1>4, <1>5, <1>6, <1>7, <1>8, <1>9 DEF Next

-----------------------------------------------------------------------------
(* The inductive invariant                                                 *)

\* Only the signal ends the parent context ...
LEMMA ParentKept ==
  ASSUME [Next]_vars, ~Shutdown PROVE parentDone' = parentDone
  <1>1. CASE UNCHANGED vars
    BY <1>1 DEF vars
  <1>2. ASSUME NEW c \in Clients, ClientEnqueue(c) PROVE parentDone' = parentDone
    BY <1>2 DEF ClientEnqueue, Setter, EnqueueReset, Send, RunInline
  <1>3. ASSUME NEW c \in Clients, ClientLifecycle(c) PROVE parentDone' = parentDone
    BY <1>3 DEF ClientLifecycle, BeginLifecycle, LockStream, DropPending,
       PendingDropped, CloseIdle, Unlock
  <1>4. ASSUME NEW c \in Clients, Starting(c) PROVE parentDone' = parentDone
    BY <1>4 DEF Starting, OpenDev, ClaimRunning, StartRxFails, StartRx
  <1>5. ASSUME NEW p \in Procs, Stopping(p) PROVE parentDone' = parentDone
    BY <1>5 DEF Stopping, BumpGen, CancelRun, CloseRx, WaitStopped, CloseDev
  <1>6. ASSUME NEW r \in Runs, DrainPipe(r) \/ ProcessLoop(r)
        PROVE  parentDone' = parentDone
    BY <1>6, DrainPipeEffect, ProcessLoopEffect DEF DrainMoves, LoopMoves
  <1>7. CASE BeginClose
    BY <1>7 DEF BeginClose
  <1> QED  BY <1>1, <1>2, <1>3, <1>4, <1>5, <1>6, <1>7 DEF Next

\* ... which is never undone.
LEMMA ParentStaysDone ==
  ASSUME [Next]_vars, parentDone PROVE parentDone'
  BY ParentKept DEF Shutdown

LEMMA InvInit == Init => IInv
  <1> SUFFICES ASSUME Init PROVE IInv
    OBVIOUS
  <1>1. StageInv
    BY DEF Init, StageInv, Locked, StopStages, StartStages, Procs
  <1>2. FreshInv
    BY DEF Init, FreshInv, StopStages, StartStages, Procs, Runs
  <1>3. RunInv
    BY DEF Init, RunInv, Live, DrainExit, Runs
  <1>4. DeviceInv
    <2>1. 1 \in Runs
      BY DEF Runs
    <2> QED  BY <2>1 DEF Init, DeviceInv, Live, StartStages, Procs
  <1> QED  BY TypeInit, <1>1, <1>2, <1>3, <1>4 DEF IInv

LEMMA InvNext == IInv /\ [Next]_vars => IInv'
  <1> SUFFICES ASSUME IInv, [Next]_vars PROVE IInv'
    OBVIOUS
  <1>1. TypeOK' /\ StageInv' /\ FreshInv'
    BY TypeNext, StageNext, FreshNext DEF IInv
  <1>2. ASSUME ~parentDone' PROVE RunInv' /\ DeviceInv'
    <2>1. ~parentDone
      BY <1>2, ParentStaysDone
    <2> QED  BY <1>2, <2>1, RunNext, DeviceNext
  <1> QED  BY <1>1, <1>2 DEF IInv

\* The invariant of the stream's life: who holds streamMu at which stage of a
\* call, and what that stage guarantees of the device and of the run.
THEOREM Invariant == Spec => []IInv
  BY InvInit, InvNext, PTL DEF Spec

-----------------------------------------------------------------------------
(* What follows from the invariant                                         *)

\* With streamMu free no client stands at a stage of a call.
LEMMA NoHolderNoStage ==
  ASSUME IInv, streamMu = NoOne
  PROVE  \A S : ~HolderIn(S)
  BY DEF HolderIn

\* Two runs are never uncancelled at once: the compare-and-swap of startRun is
\* enough, although SetEnabled may call it while the stream is already on.
THEOREM OneLiveRun == Spec => []AtMostOneLiveRun
  <1>1. IInv => AtMostOneLiveRun
    BY DEF IInv, RunInv, AtMostOneLiveRun
  <1> QED  BY <1>1, Invariant, PTL

\* The device is never closed under a run whose context is live.
THEOREM DeviceStaysOpen == Spec => []DeviceOpenWhileLive
  <1>1. IInv => DeviceOpenWhileLive
    <2> SUFFICES ASSUME IInv, ~parentDone, NEW r \in Runs, Live(r)
                 PROVE  sdr # 0 /\ runCancel = r
      BY DEF DeviceOpenWhileLive
    <2>1. runCancel = r /\ r # 0
      BY DEF IInv, RunInv, Runs
    <2> QED  BY <2>1 DEF IInv, DeviceInv
  <1> QED  BY <1>1, Invariant, PTL

\* A late drainPipe never clears the flag of a later run: with running false
\* and no call under way, no run is live.
THEOREM StoppedIsCancelled == Spec => []StoppedMeansCancelled
  <1>1. IInv => StoppedMeansCancelled
    <2> SUFFICES ASSUME IInv, Settled, ~running, NEW r \in Runs, Live(r)
                 PROVE  FALSE
      BY DEF StoppedMeansCancelled
    <2>1. runCancel = r /\ r # 0
      BY DEF IInv, RunInv, Runs, Settled
    <2> QED  BY <2>1 DEF IInv, DeviceInv, Settled
  <1> QED  BY <1>1, Invariant, PTL

\* With running true and no call under way, a run streams from an open device.
THEOREM RunningIsStreaming == Spec => []RunningMeansStreaming
  <1>1. IInv => RunningMeansStreaming
    <2> SUFFICES ASSUME IInv, Settled, running
                 PROVE  \E r \in Runs :
                           /\ Live(r) /\ rx = r /\ sdr # 0 /\ gen[r] = runGen
                           /\ drain[r] \notin DrainExit
                           /\ loop[r] # "done"
      BY DEF RunningMeansStreaming
    <2>1. RunInv /\ DeviceInv /\ \A S : ~HolderIn(S)
      BY NoHolderNoStage DEF IInv, Settled
    <2>2. runCancel # 0
      BY <2>1 DEF DeviceInv
    <2>3. runCancel \in Runs
      BY <2>2 DEF IInv, TypeOK, DeviceType, Runs
    <2>4. Live(runCancel) /\ rx = runCancel /\ sdr # 0 /\ gen[runCancel] = runGen
      BY <2>1, <2>2 DEF DeviceInv
    <2>5. drain[runCancel] \notin DrainExit /\ loop[runCancel] # "done"
      BY <2>1, <2>3, <2>4 DEF RunInv, Live
    <2> QED  BY <2>3, <2>4, <2>5
  <1> QED  BY <1>1, Invariant, PTL

\* Switched off means off: no reopen brings the stream of a disabled receiver
\* back.
THEOREM DisabledIsOff == Spec => []DisabledStaysOff
  <1>1. IInv => DisabledStaysOff
    <2> SUFFICES ASSUME IInv, Settled, ~enabled
                 PROVE  ~running /\ \A r \in Runs : ~Live(r)
      BY DEF DisabledStaysOff
    <2>1. RunInv /\ DeviceInv /\ \A S : ~HolderIn(S)
      BY NoHolderNoStage DEF IInv, Settled
    <2>2. ~running
      BY <2>1 DEF DeviceInv
    <2>3. ASSUME NEW r \in Runs, Live(r) PROVE FALSE
      BY <2>1, <2>2, <2>3 DEF RunInv, DeviceInv, Runs
    <2> QED  BY <2>2, <2>3
  <1> QED  BY <1>1, Invariant, PTL

-----------------------------------------------------------------------------
(* The lifecycle implements OneStream                                      *)

\* A stream is on exactly while the cancel function of a run is set.
LEMMA StreamsAre ==
  IInv /\ ~parentDone => Streams = IF runCancel = 0 THEN {} ELSE {runCancel}
  <1> SUFFICES ASSUME IInv, ~parentDone
               PROVE  Streams = IF runCancel = 0 THEN {} ELSE {runCancel}
    OBVIOUS
  <1>1. \A r \in Runs : Live(r) => r = runCancel /\ r # 0
    BY DEF IInv, RunInv, Runs
  <1>2. runCancel # 0 => runCancel \in Runs /\ Live(runCancel)
    BY DEF IInv, DeviceInv, TypeOK, DeviceType, Runs
  <1> QED  BY <1>1, <1>2 DEF Streams

LEMMA StreamsNext ==
  (IInv /\ ~parentDone => Streams = IF runCancel = 0 THEN {} ELSE {runCancel})'
  BY StreamsAre, PTL

\* With streamMu free, running and enabled agree with the stream.
LEMMA TruthfulWhenFree ==
  IInv /\ ~parentDone /\ streamMu = NoOne => OS!Truthful
  <1> SUFFICES ASSUME IInv, ~parentDone, streamMu = NoOne PROVE OS!Truthful
    OBVIOUS
  <1>1. DeviceInv /\ \A S : ~HolderIn(S)
    BY NoHolderNoStage DEF IInv
  <1>2. running <=> runCancel # 0
    BY <1>1 DEF DeviceInv
  <1>3. runCancel # 0 => enabled
    BY <1>1, <1>2 DEF DeviceInv
  <1> QED  BY <1>2, <1>3, StreamsAre DEF OS!Truthful

LEMMA TruthfulNext ==
  (IInv /\ ~parentDone /\ streamMu = NoOne => OS!Truthful)'
  BY TruthfulWhenFree, PTL

\* What OneStream sees of a state before shutdown.
Seen == <<streamMu, enabled, running, sdr, runCancel, parentDone>>

LEMMA UnseenStep ==
  ASSUME IInv, IInv', ~parentDone, UNCHANGED Seen
  PROVE  UNCHANGED OS!vars
  BY StreamsAre, StreamsNext DEF Seen, OS!vars

\* A step of the holder of streamMu that keeps the lock.
LEMMA HolderActs ==
  ASSUME IInv, IInv', ~parentDone, streamMu # NoOne,
         UNCHANGED <<streamMu, enabled, parentDone>>,
         running' = running \/ runCancel = 0,
         \/ UNCHANGED <<sdr, runCancel>>
         \/ enabled /\ sdr = 0 /\ sdr' # 0 /\ UNCHANGED runCancel
         \/ /\ enabled /\ sdr # 0 /\ running' /\ runCancel = 0 /\ runCancel' # 0
            /\ UNCHANGED sdr
         \/ runCancel' = 0 /\ UNCHANGED sdr
         \/ runCancel = 0 /\ sdr' = 0 /\ UNCHANGED runCancel
  PROVE  OS!Act
  <1>1. /\ Streams = IF runCancel = 0 THEN {} ELSE {runCancel}
        /\ Streams' = IF runCancel' = 0 THEN {} ELSE {runCancel'}
    BY StreamsAre, StreamsNext
  <1>2. running' \in BOOLEAN
    BY DEF IInv, TypeOK, DeviceType
  <1>3. OS!Open \/ OS!Begin \/ OS!End \/ OS!Close \/ OS!Mark
    BY <1>1 DEF OS!Open, OS!Begin, OS!End, OS!Close, OS!Mark
  <1> QED  BY <1>1, <1>2, <1>3 DEF OS!Act

\* A step of the model is a step of OneStream or a stutter.
LEMMA StreamRefines ==
  ASSUME IInv, IInv', [Next]_vars
  PROVE  [OS!Next]_(OS!vars)
  <1>1. CASE parentDone
    BY <1>1, ParentStaysDone DEF OS!Next, OS!Ending
  <1>2. CASE ~parentDone /\ Shutdown
    <2>1. Streams' = Streams
      BY <1>2 DEF Shutdown, Streams, Live, goVars, drainVars, runVars
    <2> QED  BY <1>2, <2>1 DEF Shutdown, deviceVars, flagVars, handleVars, OS!Next,
                OS!Shutdown
  <1>3. CASE ~parentDone /\ ~Shutdown
    <2> /\ ~parentDone /\ ~parentDone' /\ parentDone' = parentDone
        /\ RunInv /\ DeviceInv /\ TypeOK /\ StageInv
      BY <1>3, ParentKept DEF IInv
    <2> USE DEF Seen, Step, UnderLock, AtDevice, StopStages, StartStages
    <2> SUFFICES UNCHANGED Seen \/ OS!Take \/ OS!Act
      BY UnseenStep DEF OS!Next
    <2>1. CASE UNCHANGED vars
      BY <2>1 DEF vars, deviceVars, flagVars, handleVars, rxVars, procVars, procRest
    <2>2. ASSUME NEW c \in Clients, ClientEnqueue(c) PROVE UNCHANGED Seen
      BY <2>2 DEF ClientEnqueue, Setter, EnqueueReset, Send, RunInline,
         deviceVars, flagVars, handleVars, rxVars
    <2>3. ASSUME NEW c \in Clients, ClientLifecycle(c)
          PROVE  UNCHANGED Seen \/ OS!Take \/ OS!Act
      <3>1. CASE LockStream(c)
        <4>1. /\ streamMu = NoOne /\ streamMu' = c /\ c # NoOne
              /\ enabled' \in BOOLEAN /\ UNCHANGED <<running, sdr, runCancel>>
          BY <3>1, ProcsAssumption DEF LockStream, handleVars, rxVars, TypeOK,
             DeviceType
        <4>2. Streams' = Streams
          BY <4>1, StreamsAre, StreamsNext
        <4> QED  BY <4>1, <4>2 DEF OS!Take
      <3>2. CASE CloseIdle(c)
        <4>1. pc[c] = "closeIdle" /\ c \in Procs
          BY <3>2 DEF CloseIdle, Procs
        <4>2. streamMu = c /\ streamMu # NoOne /\ runCancel = 0
          BY <4>1, OneHolder DEF DeviceInv
        <4> QED  BY <3>2, <4>2, HolderActs DEF CloseIdle, procRest, flagVars, rxVars
      <3>3. CASE Unlock(c)
        <4>1. pc[c] = "unlock" /\ c \in Procs
          BY <3>3 DEF Unlock, Procs
        <4>2. streamMu # NoOne
          BY <4>1, OneHolder
        <4>3. /\ streamMu' = NoOne
              /\ UNCHANGED <<enabled, running, sdr, runCancel>>
          BY <3>3 DEF Unlock, deviceVars, flagVars, handleVars, rxVars
        <4>4. Streams' = Streams
          BY <4>3, StreamsAre, StreamsNext
        <4>5. running' \in BOOLEAN
          BY DEF IInv, TypeOK, DeviceType
        <4>6. OS!Truthful'
          BY <4>3, TruthfulNext
        <4> QED  BY <4>2, <4>3, <4>4, <4>5, <4>6 DEF OS!Act, OS!Mark
      <3> QED  BY <2>3, <3>1, <3>2, <3>3 DEF ClientLifecycle, BeginLifecycle,
                  DropPending, PendingDropped, deviceVars, flagVars, handleVars,
                  rxVars, procVars, procRest
    <2>4. ASSUME NEW c \in Clients, Starting(c)
          PROVE  UNCHANGED Seen \/ OS!Act
      <3>1. pc[c] \in StartStages /\ c \in Procs
        BY <2>4 DEF Starting, OpenDev, ClaimRunning, StartRxFails, StartRx, Procs
      <3>2. streamMu = c /\ streamMu # NoOne /\ enabled
        BY <3>1, OneHolder DEF DeviceInv
      <3>3. CASE OpenDev(c)
        <4>1. \/ UNCHANGED sdr
              \/ sdr = 0 /\ sdr' # 0
          BY <3>3, OpenDevEffect DEF OpenDev, TypeOK, DeviceType, deviceVars,
             handleVars
        <4>2. UNCHANGED <<streamMu, enabled, running, runCancel, parentDone>>
          BY <3>3, OpenDevEffect DEF procRest, flagVars, rxVars
        <4> QED  BY <3>2, <4>1, <4>2, HolderActs
      <3>4. CASE ClaimRunning(c)
        <4>1. running' = running \/ runCancel = 0
          BY <3>4 DEF ClaimRunning, DeviceInv
        <4> QED  BY <3>2, <3>4, <4>1, HolderActs DEF ClaimRunning, procRest,
                    handleVars, rxVars
      <3>5. CASE StartRxFails(c)
        <4>1. runCancel = 0
          BY <3>5 DEF StartRxFails, DeviceInv
        <4> QED  BY <3>2, <3>5, <4>1, HolderActs DEF StartRxFails, procRest,
                    handleVars, rxVars
      <3>6. CASE StartRx(c)
        <4>1. runCancel = 0 /\ sdr # 0 /\ running
          BY <3>6 DEF StartRx, DeviceInv
        <4>2. runCancel' = call[c] + 1 /\ runCancel' # 0
          BY <3>6 DEF StartRx, TypeOK, ProcType, Procs
        <4> QED  BY <3>2, <3>6, <4>1, <4>2, HolderActs DEF StartRx, procRest,
                    flagVars, handleVars
      <3> QED  BY <2>4, <3>3, <3>4, <3>5, <3>6 DEF Starting
    <2>5. ASSUME NEW p \in Procs, Stopping(p) PROVE UNCHANGED Seen \/ OS!Act
      <3>1. pc[p] \in StopStages
        BY <2>5 DEF Stopping, BumpGen, CancelRun, CloseRx, WaitStopped, CloseDev
      <3>2. p \in Clients /\ streamMu = p /\ streamMu # NoOne
        BY <3>1, OneHolder
      <3>3. CASE BumpGen(p) \/ CloseRx(p)
        BY <3>3 DEF BumpGen, CloseRx, procRest, flagVars, handleVars, rxVars
      <3>4. CASE CancelRun(p)
        BY <3>2, <3>4, HolderActs DEF CancelRun, procRest, flagVars, handleVars
      <3>5. CASE WaitStopped(p)
        <4>1. runCancel = 0
          BY <3>2, <3>5 DEF WaitStopped, DeviceInv
        <4> QED  BY <3>2, <3>5, <4>1, HolderActs DEF WaitStopped, procRest,
                    handleVars, rxVars
      <3>6. CASE CloseDev(p)
        <4>1. runCancel = 0
          BY <3>2, <3>6 DEF CloseDev, DeviceInv
        <4>2. /\ sdr' = 0 \/ sdr' = sdr
              /\ UNCHANGED <<streamMu, enabled, running, runCancel, parentDone>>
          BY <3>6 DEF CloseDev, procRest, flagVars, rxVars
        <4> QED  BY <3>2, <4>1, <4>2, HolderActs
      <3> QED  BY <2>5, <3>3, <3>4, <3>5, <3>6 DEF Stopping
    <2>6. ASSUME NEW r \in Runs, DrainPipe(r) PROVE UNCHANGED Seen
      <3>1. drain[r] # "clear"
        BY DEF RunInv, DrainExit
      <3> QED  BY <2>6, <3>1, DrainPipeEffect DEF DrainMoves, procVars, procRest,
                  handleVars, rxVars
    <2>7. ASSUME NEW r \in Runs, ProcessLoop(r) PROVE UNCHANGED Seen
      BY <2>7, ProcessLoopEffect DEF LoopMoves, procVars, procRest, deviceVars,
         flagVars, handleVars, rxVars
    <2>8. ~BeginClose
      BY DEF BeginClose, StageInv
    <2> QED  BY <1>3, <2>1, <2>2, <2>3, <2>4, <2>5, <2>6, <2>7, <2>8 DEF Next
  <1> QED  BY <1>1, <1>2, <1>3

LEMMA StreamInit == Init => OS!Init
  <1> SUFFICES ASSUME Init PROVE OS!Init
    OBVIOUS
  <1>1. Streams = {1}
    BY DEF Init, Streams, Live, Runs
  <1> QED  BY <1>1 DEF Init, OS!Init

\* Whatever calls the clients make, however they overlap, fail or outlive the
\* deadline of a stop, until the process ends the lifecycle is the one of
\* OneStream.
THEOREM LifecycleKeepsPromise == Spec => OneStreamAtATime
  BY StreamInit, Invariant, StreamRefines, PTL DEF Spec, OneStreamAtATime, OS!Spec

-----------------------------------------------------------------------------
(* What OneStream promises, with the lifecycle for its state     *)

LEMMA PromiseInit == OS!Init => OS!SoundStream
  BY DEF OS!Init, OS!SoundStream, OS!Truthful

\* Only the definitions of OneStream are used.
LEMMA PromiseStep == OS!SoundStream /\ [OS!Next]_(OS!vars) => OS!SoundStream'
  <1> SUFFICES ASSUME OS!SoundStream, [OS!Next]_(OS!vars) PROVE OS!SoundStream'
    OBVIOUS
  <1> USE DEF OS!SoundStream, OS!Truthful
  <1>1. CASE OS!Take
    BY <1>1 DEF OS!Take
  <1>2. CASE OS!Act
    <2>1. CASE OS!Open
      BY <1>2, <2>1 DEF OS!Act, OS!Open
    <2>2. CASE OS!Begin
      BY <1>2, <2>2 DEF OS!Act, OS!Begin
    <2>3. CASE OS!End \/ OS!Close
      BY <1>2, <2>3 DEF OS!Act, OS!End, OS!Close
    <2>4. CASE OS!Mark
      BY <1>2, <2>4 DEF OS!Act, OS!Mark
    <2> QED  BY <1>2, <2>1, <2>2, <2>3, <2>4 DEF OS!Act
  <1>3. CASE OS!Shutdown \/ OS!Ending
    BY <1>3 DEF OS!Shutdown, OS!Ending
  <1>4. CASE UNCHANGED OS!vars
    BY <1>4 DEF OS!vars
  <1> QED  BY <1>1, <1>2, <1>3, <1>4 DEF OS!Next

\* One stream at most, never without a device or the flag, and a flag that is
\* right whenever nobody is switching: not because of how the calls are
\* written, but because they implement OneStream.
THEOREM LifecycleIsSound == Spec => []OS!SoundStream
  <1>1. OS!Spec => []OS!SoundStream
    BY PromiseInit, PromiseStep, PTL DEF OS!Spec
  <1> QED  BY <1>1, LifecycleKeepsPromise DEF OneStreamAtATime

-----------------------------------------------------------------------------
(* What a stop waits for                                                   *)

\* Before shutdown no drainPipe clears running, so every stop waits for its
\* deadline.
THEOREM StopWaitsForDeadline == Spec => []OnlyShutdownClears
  <1>1. IInv => OnlyShutdownClears
    BY DEF IInv, RunInv, OnlyShutdownClears, DrainExit
  <1> QED  BY <1>1, Invariant, PTL

-----------------------------------------------------------------------------
(* Runs that overlap                                                       *)

\* A run that no stop has waited for in vain has a goroutine left.
Around(r) == r \notin overdue /\ ~Exited(r)

\* A stop has cancelled the run and waits for it.
Waiting == running /\ HolderIn({"closeRx", "wait"})

\* At most one such run is around; it is live or a stop waits for it, and the
\* stream and the device are its own.
AroundInv ==
  /\ \A r \in Runs : drain[r] = "none" <=> loop[r] = "none"
  /\ \A r \in Runs : Around(r) =>
      /\ cancelled[r] => Waiting
      /\ rx \in {0, r}
      /\ loop[r] = "cmd" /\ heldSdr[r] # 0 => heldSdr[r] = sdr
      /\ drain[r] \in {"read", "send"} => drainRx[r] = r
  /\ \A r, s \in Runs : Around(r) /\ Around(s) => r = s

OverlapInv == ~parentDone => AroundInv

\* Without a live run and a stop that waits nobody is around.
LEMMA NobodyAround ==
  ASSUME IInv, AroundInv, ~parentDone, runCancel = 0, ~Waiting
  PROVE  \A r \in Runs : ~Around(r)
  <1> SUFFICES ASSUME NEW r \in Runs, Around(r) PROVE FALSE
    OBVIOUS
  <1>1. drain[r] # "none"
    BY DEF AroundInv, Around, Exited
  <1>2. ~cancelled[r]
    BY DEF AroundInv
  <1>3. runCancel = r
    BY <1>1, <1>2 DEF IInv, RunInv, Live
  <1> QED  BY <1>3 DEF Runs

\* With nobody around a step that leaves the goroutines alone is free.
LEMMA QuietStep ==
  ASSUME AroundInv, \A r \in Runs : ~Around(r), UNCHANGED goVars
  PROVE  AroundInv'
  <1>1. \A r \in Runs : ~Around(r)'
    BY DEF Around, Exited
  <1> QED  BY <1>1 DEF AroundInv

\* A client's step away from the end of a stop.
LEMMA OverlapMove ==
  ASSUME TypeOK, AroundInv, NEW c \in Clients, NEW to,
         pc' = [pc EXCEPT ![c] = to], pc[c] \notin {"closeRx", "wait"},
         streamMu' = streamMu \/ streamMu \in {NoOne, c},
         running => running', UNCHANGED <<parentDone, rx, sdr, goVars>>
  PROVE  AroundInv'
  <1>1. \A r \in Runs : Around(r)' <=> Around(r)
    BY DEF Around, Exited
  <1>2. Waiting => Waiting'
    <2> SUFFICES ASSUME Waiting PROVE Waiting'
      OBVIOUS
    <2>1. streamMu # NoOne /\ streamMu # c /\ streamMu \in Clients
      BY DEF Waiting, HolderIn, TypeOK, ProcType
    <2>2. streamMu' = streamMu /\ pc'[streamMu] = pc[streamMu]
      BY <2>1 DEF TypeOK, ProcType, Procs
    <2> QED  BY <2>1, <2>2 DEF Waiting, HolderIn
  <1> QED  BY <1>1, <1>2 DEF AroundInv

\* A step of a run's own goroutines.
LEMMA OverlapGoroutine ==
  ASSUME IInv, AroundInv, ~parentDone, NEW r \in Runs, ~Exited(r),
         UNCHANGED <<procVars, running, rx, sdr, cancelled, overdue>>,
         drain[r] # "none" /\ drain'[r] # "none" /\ loop[r] # "none" /\ loop'[r] # "none",
         \A s \in Runs \ {r} :
            /\ drain'[s] = drain[s] /\ loop'[s] = loop[s]
            /\ heldSdr'[s] = heldSdr[s] /\ drainRx'[s] = drainRx[s],
         Around(r) =>
            /\ loop'[r] = "cmd" /\ heldSdr'[r] # 0 => heldSdr'[r] = sdr
            /\ drain'[r] \in {"read", "send"} => drainRx'[r] = r
  PROVE  AroundInv'
  <1>1. \A s \in Runs : Around(s)' => Around(s)
    BY DEF Around, Exited
  <1>2. Waiting' <=> Waiting
    BY DEF Waiting, HolderIn
  <1>4. ASSUME NEW s \in Runs, Around(s)'
        PROVE  /\ cancelled'[s] => Waiting'
               /\ rx' \in {0, s}
               /\ loop'[s] = "cmd" /\ heldSdr'[s] # 0 => heldSdr'[s] = sdr'
               /\ drain'[s] \in {"read", "send"} => drainRx'[s] = s
    <2>1. Around(s)
      BY <1>1, <1>4
    <2>2. CASE s = r
      BY <1>2, <2>1, <2>2 DEF AroundInv
    <2>3. CASE s # r
      BY <1>2, <2>1, <2>3 DEF AroundInv
    <2> QED  BY <2>2, <2>3
  <1>5. \A s \in Runs : drain'[s] = "none" <=> loop'[s] = "none"
    BY DEF AroundInv
  <1> QED  BY <1>1, <1>4, <1>5 DEF AroundInv

\* A block is read from the run's own stream, while the run is around.
LEMMA OverlapDrain ==
  ASSUME IInv, AroundInv, ~parentDone, NEW r \in Runs, DrainPipe(r)
  PROVE  AroundInv'
  <1>1. TypeOK /\ RunInv
    BY DEF IInv
  <1>2. PICK to \in Progress : DrainMoves(r, to)
    BY DrainPipeEffect
  <1>3. drain[r] # "none" /\ drain'[r] # "none" /\ drain[r] # "clear"
    BY <1>1, <1>2 DEF DrainMoves, TypeOK, DrainType, RunInv, DrainExit
  <1>4. drain[r] # "done"
    BY <1>1 DEF DrainPipe, DrainTop, DrainLoadRx, DrainRead, DrainReadNothing, DrainDeliver,
       DrainCheckGen, DrainClear, DrainStep
  <1>5. ~Exited(r) /\ loop[r] # "none"
    BY <1>3, <1>4 DEF Exited, AroundInv
  <1>6. UNCHANGED <<procVars, running, rx, sdr, cancelled, overdue, loop, heldSdr>>
    BY <1>2, <1>3 DEF DrainMoves
  <1>7. \A s \in Runs \ {r} : drain'[s] = drain[s] /\ drainRx'[s] = drainRx[s]
    <2>1. \A s \in Runs \ {r} : drain'[s] = drain[s]
      BY <1>1, <1>2 DEF DrainMoves, TypeOK, DrainType
    <2>2. drainRx' = drainRx \/ \E v : drainRx' = [drainRx EXCEPT ![r] = v]
      BY DEF DrainPipe, DrainTop, DrainLoadRx, DrainRead, DrainReadNothing, DrainDeliver,
         DrainCheckGen, DrainClear
    <2>3. \A s \in Runs \ {r} : drainRx'[s] = drainRx[s]
      BY <1>1, <2>2 DEF TypeOK, DrainType
    <2> QED  BY <2>1, <2>3
  <1>8. ASSUME Around(r), drain'[r] \in {"read", "send"} PROVE drainRx'[r] = r
    <2>1. CASE DrainLoadRx(r)
      <3>1. rx = r
        BY <1>1, <1>8, <2>1 DEF DrainLoadRx, DrainStep, AroundInv, TypeOK, DrainType
      <3> QED  BY <1>1, <2>1, <3>1 DEF DrainLoadRx, TypeOK, DrainType
    <2>2. CASE DrainRead(r)
      BY <1>1, <1>8, <2>2 DEF DrainRead, DrainStep, AroundInv
    <2>3. CASE DrainTop(r) \/ DrainReadNothing(r) \/ DrainDeliver(r)
               \/ DrainCheckGen(r) \/ DrainClear(r)
      BY <1>1, <1>8, <2>3 DEF DrainTop, DrainReadNothing, DrainDeliver, DrainCheckGen,
         DrainClear, DrainStep, GenVerdict, TypeOK, DrainType
    <2> QED  BY <2>1, <2>2, <2>3 DEF DrainPipe
  <1>9. loop'[r] # "none"
    BY <1>5, <1>6
  <1>10. Around(r) => (loop'[r] = "cmd" /\ heldSdr'[r] # 0 => heldSdr'[r] = sdr)
    BY <1>1, <1>6 DEF AroundInv
  <1> QED  BY <1>3, <1>5, <1>6, <1>7, <1>8, <1>9, <1>10, OverlapGoroutine

\* A command is begun on the open device.
LEMMA OverlapLoop ==
  ASSUME IInv, AroundInv, ~parentDone, NEW r \in Runs, ProcessLoop(r)
  PROVE  AroundInv'
  <1>1. TypeOK
    BY DEF IInv
  <1> USE DEF LoopExit, LoopTake, LoopBeginCmd, LoopEndCmd, LoopProcess, LoopStep
  <1>2. loop[r] \in {"select", "busy", "cmd"} /\ loop'[r] \in {"select", "busy", "cmd", "done"}
    BY <1>1 DEF ProcessLoop, TypeOK, LoopType
  <1>3. ~Exited(r) /\ drain[r] # "none"
    BY <1>2 DEF Exited, AroundInv
  <1>4. UNCHANGED <<procVars, running, rx, sdr, cancelled, overdue, drain, drainRx>>
    BY DEF ProcessLoop
  <1>5. \A s \in Runs \ {r} : loop'[s] = loop[s] /\ heldSdr'[s] = heldSdr[s]
    <2>1. \A s \in Runs \ {r} : loop'[s] = loop[s]
      BY <1>1 DEF ProcessLoop, TypeOK, LoopType
    <2>2. \A s \in Runs \ {r} : heldSdr'[s] = heldSdr[s]
      BY <1>1 DEF ProcessLoop, TypeOK, LoopType
    <2> QED  BY <2>1, <2>2
  <1>6. ASSUME loop'[r] = "cmd", heldSdr'[r] # 0 PROVE heldSdr'[r] = sdr
    <2>1. LoopBeginCmd(r)
      BY <1>1, <1>6 DEF ProcessLoop, TypeOK, LoopType
    <2> QED  BY <1>1, <1>6, <2>1 DEF Tag, TypeOK, LoopType
  <1>7. Around(r) => (drain'[r] \in {"read", "send"} => drainRx'[r] = r)
    BY <1>1, <1>4 DEF AroundInv
  <1> QED  BY <1>2, <1>3, <1>4, <1>5, <1>6, <1>7, OverlapGoroutine

LEMMA OverlapStop ==
  ASSUME TrackHistory, IInv, AroundInv, ~parentDone, NEW p \in Procs, Stopping(p)
  PROVE  AroundInv'
  <1> TypeOK /\ RunInv /\ DeviceInv
    BY DEF IInv
  <1> USE DEF Step
  <1>1. pc[p] \in StopStages
    BY DEF Stopping, BumpGen, CancelRun, CloseRx, WaitStopped, CloseDev, StopStages
  <1>2. p \in Clients /\ streamMu = p /\ streamMu # NoOne
    BY <1>1, OneHolder DEF UnderLock, AtDevice
  <1>3. CASE BumpGen(p)
    BY <1>2, <1>3, OverlapMove DEF BumpGen
  <1>4. CASE CancelRun(p)
    <2>1. pc'[p] = "closeRx" /\ streamMu' = p
      BY <1>2, <1>4 DEF CancelRun, TypeOK, ProcType, Procs
    <2>2. HolderIn({"closeRx", "wait"})'
      BY <1>2, <2>1 DEF HolderIn
    <2>3. UNCHANGED <<running, rx, sdr, parentDone, drain, loop, overdue, heldSdr, drainRx>>
      BY <1>4 DEF CancelRun
    <2>4. \A r \in Runs : Around(r)' <=> Around(r)
      BY <2>3 DEF Around, Exited
    <2>5. ASSUME NEW r \in Runs, Around(r), cancelled'[r] PROVE running
      <3>1. cancelled[r] \/ r = runCancel
        BY <1>4, <2>5 DEF CancelRun
      <3>2. r # 0
        BY DEF Runs
      <3> QED  BY <2>5, <3>1, <3>2 DEF AroundInv, Waiting, DeviceInv
    <2> QED  BY <2>2, <2>3, <2>4, <2>5 DEF AroundInv, Waiting
  <1>5. CASE CloseRx(p)
    <2>1. pc'[p] = "wait" /\ streamMu' = p
      BY <1>2, <1>5 DEF CloseRx, TypeOK, ProcType, Procs
    <2>2. HolderIn({"closeRx", "wait"})'
      BY <1>2, <2>1 DEF HolderIn
    <2>3. rx' = 0 /\ UNCHANGED <<running, sdr, goVars>>
      BY <1>5 DEF CloseRx
    <2>4. \A r \in Runs : Around(r)' <=> Around(r)
      BY <2>3 DEF Around, Exited
    <2> QED  BY <2>2, <2>3, <2>4 DEF AroundInv, Waiting
  <1>6. CASE WaitStopped(p)
    <2>1. UNCHANGED <<rx, sdr, cancelled, drain, loop, heldSdr, drainRx>>
      BY <1>6 DEF WaitStopped
    <2>2. \A r \in Runs : r \in overdue => r \in overdue'
      BY <1>6 DEF WaitStopped
    <2>3. \A r \in Runs : Around(r)' => Around(r)
      BY <2>1, <2>2 DEF Around, Exited
    <2>4. ASSUME NEW r \in Runs, Around(r)', cancelled[r] PROVE FALSE
      <3>1. running
        BY <2>3, <2>4 DEF AroundInv, Waiting
      <3>2. r \in overdue'
        BY <1>6, <2>3, <2>4, <3>1 DEF WaitStopped, Around, CtxDone
      <3> QED  BY <2>4, <3>2 DEF Around
    <2> QED  BY <2>1, <2>3, <2>4 DEF AroundInv
  <1>7. CASE CloseDev(p)
    <2>1. runCancel = 0 /\ ~Waiting
      BY <1>2, <1>7 DEF CloseDev, DeviceInv, Waiting, HolderIn
    <2>2. UNCHANGED goVars
      BY <1>7 DEF CloseDev
    <2> QED  BY <2>1, <2>2, NobodyAround, QuietStep
  <1> QED  BY <1>3, <1>4, <1>5, <1>6, <1>7 DEF Stopping

LEMMA OverlapStart ==
  ASSUME IInv, AroundInv, ~parentDone, NEW c \in Clients, Starting(c)
  PROVE  AroundInv'
  <1> TypeOK /\ RunInv /\ DeviceInv
    BY DEF IInv
  <1> USE DEF Step
  <1>1. pc[c] \in StartStages
    BY DEF Starting, OpenDev, ClaimRunning, StartRxFails, StartRx, StartStages
  <1>2. streamMu = c /\ ~Waiting
    <2>1. streamMu = c
      BY <1>1, OneHolder DEF UnderLock, AtDevice, Procs
    <2> QED  BY <1>1, <2>1 DEF Waiting, HolderIn, StartStages
  <1>3. CASE OpenDev(c)
    <2>1. CASE sdr = 0
      <3>1. runCancel = 0
        BY <2>1 DEF DeviceInv
      <3>2. UNCHANGED goVars
        BY <1>3 DEF OpenDev
      <3> QED  BY <1>2, <3>1, <3>2, NobodyAround, QuietStep
    <2>2. CASE sdr # 0
      BY <1>3, <2>2, OverlapMove DEF OpenDev
    <2> QED  BY <2>1, <2>2
  <1>4. CASE ClaimRunning(c)
    BY <1>4, OverlapMove DEF ClaimRunning
  <1>5. CASE StartRxFails(c) \/ StartRx(c)
    <2>1. runCancel = 0
      BY <1>5 DEF StartRxFails, StartRx, DeviceInv
    <2>2. \A r \in Runs : ~Around(r)
      BY <1>2, <2>1, NobodyAround
    <2>3. CASE StartRxFails(c)
      BY <2>2, <2>3, QuietStep DEF StartRxFails
    <2>4. CASE StartRx(c)
      <3> DEFINE n == call[c] + 1
      <3>1. n \in Runs /\ drain[n] = "none"
        BY <2>4 DEF StartRx, IInv, FreshInv, StartStages, TypeOK, ProcType, Procs, Runs
      <3>2. ~cancelled[n]
        BY <3>1 DEF RunInv
      <3>3. /\ rx' = n
            /\ drain' = [drain EXCEPT ![n] = "top"]
            /\ loop' = [loop EXCEPT ![n] = "select"]
            /\ UNCHANGED <<drainRx, heldSdr, cancelled, overdue>>
        BY <2>4 DEF StartRx
      <3> HIDE DEF n
      <3>4. drain'[n] = "top" /\ loop'[n] = "select"
        BY <3>1, <3>3 DEF TypeOK, DrainType, LoopType
      <3>5. \A s \in Runs \ {n} : drain'[s] = drain[s] /\ loop'[s] = loop[s]
        BY <3>1, <3>3 DEF TypeOK, DrainType, LoopType
      <3>6. \A s \in Runs : Around(s)' => s = n
        BY <2>2, <3>3, <3>5 DEF Around, Exited
      <3> QED  BY <3>1, <3>2, <3>3, <3>4, <3>6 DEF AroundInv
    <2> QED  BY <1>5, <2>3, <2>4
  <1> QED  BY <1>3, <1>4, <1>5 DEF Starting

LEMMA OverlapLifecycle ==
  ASSUME IInv, AroundInv, ~parentDone, NEW c \in Clients, ClientLifecycle(c)
  PROVE  AroundInv'
  <1> TypeOK /\ DeviceInv
    BY DEF IInv
  <1> USE DEF Step
  <1>1. ASSUME NEW o \in {"on", "off", "reopen"}, BeginLifecycle(c, o) PROVE AroundInv'
    BY <1>1, OverlapMove DEF BeginLifecycle
  <1>2. CASE LockStream(c)
    BY <1>2, OverlapMove DEF LockStream
  <1>3. CASE DropPending(c)
    <2>1. pc' = [pc EXCEPT ![c] = pc[c]]
      BY <1>3 DEF DropPending, TypeOK, ProcType, Procs
    <2> QED  BY <1>3, <2>1, OverlapMove DEF DropPending
  <1>4. CASE PendingDropped(c)
    BY <1>4, OverlapMove DEF PendingDropped
  <1>5. CASE CloseIdle(c)
    <2>1. streamMu = c
      BY <1>5, OneHolder DEF CloseIdle, UnderLock, AtDevice, Procs
    <2>2. runCancel = 0 /\ ~Waiting
      BY <1>5, <2>1 DEF CloseIdle, DeviceInv, Waiting, HolderIn
    <2>3. UNCHANGED goVars
      BY <1>5 DEF CloseIdle
    <2> QED  BY <2>2, <2>3, NobodyAround, QuietStep
  <1>6. CASE Unlock(c)
    <2>1. streamMu = c
      BY <1>6, OneHolder DEF Unlock, UnderLock, Procs
    <2> QED  BY <1>6, <2>1, OverlapMove DEF Unlock
  <1> QED  BY <1>1, <1>2, <1>3, <1>4, <1>5, <1>6 DEF ClientLifecycle

LEMMA OverlapNext ==
  ASSUME TrackHistory, IInv, OverlapInv, [Next]_vars
  PROVE  OverlapInv'
  <1> SUFFICES ASSUME ~parentDone' PROVE AroundInv'
    BY DEF OverlapInv
  <1>1. ~parentDone
    BY ParentStaysDone
  <1>2. AroundInv
    BY <1>1 DEF OverlapInv
  <1>3. CASE UNCHANGED vars
    BY <1>2, <1>3 DEF vars, AroundInv, Around, Exited, Waiting, HolderIn
  <1>4. ASSUME NEW c \in Clients, ClientEnqueue(c) PROVE AroundInv'
    BY <1>2, <1>4, OverlapMove DEF IInv, ClientEnqueue, Setter, EnqueueReset, Send, RunInline, Step
  <1>5. ~Shutdown /\ ~BeginClose
    BY <1>1 DEF Shutdown, BeginClose, Step, IInv, StageInv
  <1> QED  BY <1>1, <1>2, <1>3, <1>4, <1>5, OverlapLifecycle, OverlapStart, OverlapStop,
              OverlapDrain, OverlapLoop DEF Next

LEMMA OverlapInit == Init => OverlapInv
  <1> SUFFICES ASSUME Init PROVE AroundInv
    BY DEF OverlapInv
  <1> QED  BY DEF Init, AroundInv, Around, Exited, Runs

\* Two runs are at work at once, or a run works on what is no longer its own, only
\* after a stop's two seconds passed without it: TrackHistory says that these
\* runs are recorded.
THEOREM OverlapIsOverdue ==
  ASSUME TrackHistory
  PROVE  Spec => []OverlapOnlyIfOverdue
  <1>1. OverlapInv => OverlapOnlyIfOverdue
    <2> SUFFICES ASSUME AroundInv, NEW r \in Runs \ overdue
                 PROVE  /\ loop[r] \notin {"none", "done"} =>
                              \A s \in Runs \ overdue :
                                  loop[s] \notin {"none", "done"} => r = s
                        /\ loop[r] = "cmd" /\ heldSdr[r] # 0 => heldSdr[r] = sdr
                        /\ drain[r] \in {"read", "send"} => drainRx[r] = r
      BY DEF OverlapInv, OverlapOnlyIfOverdue
    <2>1. \A s \in Runs \ overdue : loop[s] \notin {"none", "done"} => Around(s)
      BY DEF Around, Exited
    <2>2. drain[r] \in {"read", "send"} => Around(r)
      BY DEF Around, Exited
    <2> QED  BY <2>1, <2>2 DEF AroundInv
  <1>2. IInv /\ OverlapInv /\ [Next]_vars => OverlapInv'
    BY OverlapNext
  <1> QED  BY <1>1, <1>2, OverlapInit, Invariant, PTL DEF Spec
=============================================================================
